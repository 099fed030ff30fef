--------------------- MODULE PreprocessorManager_proofs ---------------------
(***************************************************************************)
(* Proofs about PreprocessorManager: no hidden item is forgotten, each     *)
(* answer is for the head of the queue, and no item is shown too early,    *)
(* for any number of connections, items and preprocessors.                 *)
(***************************************************************************)
EXTENDS PreprocessorManager, ListFacts

\* What each connection is at, and the items its transaction has inserted.
ConnSound ==
  \A c \in Connections :
    /\ conn[c].at = "idle" <=> conn[c].item = NoItem
    /\ \A i \in conn[c].inserted : item[i] = "inserted"
    /\ \A d \in Connections \ {c} : conn[c].inserted \cap conn[d].inserted = {}
    /\ IF conn[c].transaction
       THEN conn[c].at # "idle" => conn[c].item \in conn[c].inserted
       ELSE /\ conn[c].inserted = IF conn[c].at = "inserted" THEN {conn[c].item} ELSE {}
            /\ conn[c].at = "committed" => item[conn[c].item] \in {"stored", "gone"}

Queued(i) == \E p \in Preprocessors : i \in Elements(instance[p].queue)

\* An item is with one connection, in one wait queue or in the chain, and nowhere
\* before it is inserted.
PlacesApart ==
  /\ \A c, d \in Connections :
       /\ c # d => conn[c].item = NoItem \/ conn[c].item # conn[d].item
       /\ c # d => Elements(waitQueue[c]) \cap Elements(waitQueue[d]) = {}
       /\ conn[c].item \notin Elements(waitQueue[d])
  /\ \A c \in Connections :
       /\ ~Queued(conn[c].item)
       /\ \A i \in Elements(waitQueue[c]) : ~Queued(i)
  /\ \A i \in Items : item[i] = "new" =>
       /\ ~Queued(i)
       /\ \A c \in Connections : conn[c].item # i /\ i \notin Elements(waitQueue[c])

\* Who is not in the chain has nothing to do; who the main thread is at is in it.
ChainSound ==
  /\ \A p \in Preprocessors \ Elements(chain) :
       instance[p].queue = <<>> /\ ~instance[p].busy
  /\ IF main.at = "idle" THEN main.instance = Nobody ELSE main.instance \in Elements(chain)
  /\ main.at = "head" => instance[main.instance].queue # <<>>

\* What an agent was asked for is the head of the queue; an instance that is busy
\* has asked, and one that is not has nothing in its queue.
RightlyAsked(x) ==
  x.asked # <<>> => x.busy /\ x.queue # <<>> /\ x.asked = <<Head(x.queue)>>

AtRest(x) == IF x.busy THEN x.asked # <<>> ELSE x.queue = <<>>

\* While the main thread is at an instance nobody else can ask its agent.
AskSound ==
  "stale" \notin mishaps =>
    /\ \A p \in Elements(chain) :
         RightlyAsked(instance[p]) /\ (p = main.instance => instance[p].asked = <<>>)
    /\ main.at # "idle" => instance[main.instance].busy

RestSound ==
  mishaps \cap {"stalled", "stale", "deadlock"} = {} =>
    \A p \in Elements(chain) : p # main.instance => AtRest(instance[p])

NoSignal(c) == \A n \in DOMAIN signals : signals[n].of # c

\* A wait queue is of the transaction that is under way, or its items are stored
\* or gone and the first signal of its DataStore tells which.
Open(c) ==
  /\ conn[c].transaction /\ NoSignal(c)
  /\ Elements(waitQueue[c]) \subseteq conn[c].inserted

First(c, n) ==
  /\ n \in DOMAIN signals /\ signals[n].of = c
  /\ \A m \in DOMAIN signals : m < n => signals[m].of # c

Closed(c) ==
  /\ \A i \in Elements(waitQueue[c]) : item[i] \in {"stored", "gone"}
  /\ \E n \in DOMAIN signals :
       /\ First(c, n)
       /\ signals[n].is = "transactionRolledBack" =>
            \A i \in Elements(waitQueue[c]) : item[i] = "gone"

WaitSound ==
  /\ \A c \in Connections : waitQueue[c] # <<>> => c \in connected \/ "leaked" \in mishaps
  /\ "overlap" \notin mishaps =>
       /\ \A c \in connected : Open(c) \/ Closed(c)
       /\ \A i \in Items : Queued(i) => item[i] \in {"stored", "gone"}

\* What a transaction has inserted and hidden is with its connection or in the
\* wait queue of the transaction.
InsertedKnown ==
  mishaps \cap {"inactive", "overlap", "leaked"} = {} =>
    \A c \in Connections : conn[c].transaction =>
      \A i \in conn[c].inserted \cap hidden :
        conn[c].item = i \/ (i \in Elements(waitQueue[c]) /\ NoSignal(c))

\* p and those behind it in the chain.
From(p) ==
  {q \in Elements(chain) : \E k, n \in DOMAIN chain : k <= n /\ chain[k] = p /\ chain[n] = q}

Outside(i) ==
  \/ item[i] \in {"new", "inserted"}
  \/ i \notin hidden
  \/ \E c \in Connections : conn[c].item = i \/ i \in Elements(waitQueue[c])

\* A stored item that waits for a preprocessor has been through those before it;
\* what is not in the chain, or not hidden, owes nothing.
OwedSound ==
  mishaps \cap {"stale", "overlap"} = {} =>
    /\ \A p \in Elements(chain) : \A i \in Elements(instance[p].queue) :
         item[i] = "stored" => owed[i] \subseteq From(p)
    /\ \A i \in Items : Outside(i) => owed[i] = {}

PreprocessorInv ==
  /\ TypeOK
  /\ ConnSound
  /\ PlacesApart
  /\ ChainSound
  /\ AskSound
  /\ RestSound
  /\ WaitSound
  /\ InsertedKnown
  /\ NoItemForgotten
  /\ OwedSound

-----------------------------------------------------------------------------
(* The chain *)

\* Whoever is in the chain has one position; all are behind the first.
LEMMA ChainFacts ==
  ASSUME TypeOK
  PROVE  /\ Len(chain) \in Nat /\ DOMAIN chain = 1..Len(chain)
         /\ \A m, n \in DOMAIN chain : chain[m] = chain[n] => m = n
         /\ \A n \in DOMAIN chain : chain[n] \in Preprocessors /\ chain[n] \in Elements(chain)
         /\ Elements(chain) \subseteq Preprocessors
         /\ \A p \in Elements(chain) : Position(p) \in DOMAIN chain /\ chain[Position(p)] = p
         /\ isActive =>
              /\ Head(chain) = chain[1] /\ chain[1] \in Elements(chain)
              /\ From(Head(chain)) = Elements(chain)
<1>1. chain \in Seq(Preprocessors)
  BY DEF TypeOK
<1>2. Len(chain) \in Nat /\ DOMAIN chain = 1..Len(chain)
  BY <1>1
<1>3. \A n \in DOMAIN chain : chain[n] \in Preprocessors /\ chain[n] \in Elements(chain)
  BY <1>1, <1>2, ElementOfSeq DEF Elements
<1>4. Elements(chain) \subseteq Preprocessors
  BY <1>3 DEF Elements
<1>5. \A p \in Elements(chain) : Position(p) \in DOMAIN chain /\ chain[Position(p)] = p
  BY DEF Elements, Position
<1>6. ASSUME isActive
      PROVE  /\ Head(chain) = chain[1] /\ chain[1] \in Elements(chain)
             /\ From(Head(chain)) = Elements(chain)
  <2>1. Head(chain) = chain[1] /\ 1 \in DOMAIN chain
    BY <1>1, <1>6 DEF isActive
  <2>2. \A q \in Elements(chain) : \E n \in DOMAIN chain : 1 <= n /\ chain[n] = q
    BY <1>2 DEF Elements
  <2> QED  BY <1>3, <2>1, <2>2 DEF From
<1>7. \A m, n \in DOMAIN chain : chain[m] = chain[n] => m = n
  BY DEF TypeOK
<1> QED  BY <1>2, <1>3, <1>4, <1>5, <1>6, <1>7

\* Behind p come p itself and what is behind the next.
LEMMA BehindNext ==
  ASSUME TypeOK, NEW p \in Elements(chain)
  PROVE  /\ p \in From(p)
         /\ Position(p) < Len(chain) =>
              LET q == chain[Position(p) + 1]
              IN  q \in Elements(chain) /\ q # p /\ From(p) \subseteq From(q) \cup {p}
         /\ ~(Position(p) < Len(chain)) => From(p) = {p}
<1> DEFINE k == Position(p)
<1>1. /\ Len(chain) \in Nat /\ DOMAIN chain = 1..Len(chain)
      /\ \A m, n \in DOMAIN chain : chain[m] = chain[n] => m = n
      /\ \A n \in DOMAIN chain : chain[n] \in Elements(chain)
      /\ k \in DOMAIN chain /\ chain[k] = p
  BY ChainFacts
<1> HIDE DEF k
<1>2. \A q : q \in From(p) <=> \E n \in DOMAIN chain : k <= n /\ chain[n] = q
  <2>1. \A m \in DOMAIN chain : chain[m] = p => m = k
    BY <1>1
  <2>2. \A q \in From(p) : \E n \in DOMAIN chain : k <= n /\ chain[n] = q
    BY <2>1 DEF From
  <2>3. \A n \in DOMAIN chain : k <= n => chain[n] \in From(p)
    BY <1>1 DEF From
  <2> QED  BY <2>2, <2>3
<1>3. p \in From(p)
  BY <1>1, <1>2
<1>4. ASSUME k < Len(chain)
      PROVE  chain[k + 1] \in Elements(chain) /\ chain[k + 1] # p
             /\ From(p) \subseteq From(chain[k + 1]) \cup {p}
  <2>1. k + 1 \in DOMAIN chain /\ k + 1 # k
    BY <1>1, <1>4
  <2>2. ASSUME NEW x \in From(p), x # p PROVE x \in From(chain[k + 1])
    <3>1. PICK n \in DOMAIN chain : k <= n /\ chain[n] = x
      BY <1>2
    <3>2. k + 1 <= n
      BY <1>1, <2>2, <3>1
    <3> QED  BY <1>1, <2>1, <3>1, <3>2 DEF From
  <2> QED  BY <1>1, <2>1, <2>2
<1>5. ASSUME ~(k < Len(chain)) PROVE From(p) = {p}
  <2>1. \A n \in DOMAIN chain : k <= n => n = k
    BY <1>1, <1>5
  <2> QED  BY <1>1, <1>2, <2>1
<1> QED  BY <1>3, <1>4, <1>5 DEF k

\* The items of a list added to the queue of p, in I before and in J after; an
\* instance that was idle asks for the head of its queue, if it asks.
Added(I, J, p, list) ==
  /\ J \in [Preprocessors -> Instance]
  /\ \A q \in Preprocessors \ {p} : J[q] = I[q]
  /\ Elements(J[p].queue) = Elements(I[p].queue) \cup Elements(list)
  /\ I[p].queue # <<>> => J[p].queue # <<>> /\ Head(J[p].queue) = Head(I[p].queue)
  /\ \/ J[p].busy = I[p].busy /\ J[p].asked = I[p].asked
     \/ /\ ~I[p].busy /\ J[p].busy /\ J[p].queue # <<>>
        /\ J[p].asked = Append(I[p].asked, Head(J[p].queue))

LEMMA EnqueueAdds ==
  ASSUME NEW I \in [Preprocessors -> Instance], NEW p \in Preprocessors,
         NEW list \in Seq(Items), Enqueue(I, p, list)
  PROVE  /\ Added(I, instance', p, list)
         /\ mishaps' = mishaps \/ mishaps' = mishaps \cup {"deadlock"}
         /\ "deadlock" \notin mishaps' /\ ~I[p].busy =>
              instance'[p].busy \/ instance'[p].queue = I[p].queue
<1> DEFINE q == I[p].queue \o list
           start == list # <<>> /\ ~I[p].busy
           ask == start /\ item[Head(q)] = "stored"
           x == [queue |-> q, busy |-> I[p].busy \/ ask,
                 asked |-> IF ask THEN Append(I[p].asked, Head(q)) ELSE I[p].asked]
<1>1. I[p] \in Instance /\ I[p].queue \in Seq(Items) /\ I[p].asked \in Seq(Items)
      /\ I[p].busy \in BOOLEAN
  BY DEF Instance
<1>2. /\ q \in Seq(Items) /\ (list # <<>> => q # <<>>) /\ (list = <<>> => q = I[p].queue)
      /\ (I[p].queue # <<>> => q # <<>> /\ Head(q) = Head(I[p].queue))
      /\ (q # <<>> => Head(q) \in Items)
  BY <1>1
<1>3. Elements(q) = Elements(I[p].queue) \cup Elements(list)
  <2>1. /\ DOMAIN q = 1..(Len(I[p].queue) + Len(list))
        /\ DOMAIN I[p].queue = 1..Len(I[p].queue) /\ DOMAIN list = 1..Len(list)
        /\ Len(I[p].queue) \in Nat /\ Len(list) \in Nat
        /\ \A n \in 1..(Len(I[p].queue) + Len(list)) :
             q[n] = IF n <= Len(I[p].queue) THEN I[p].queue[n] ELSE list[n - Len(I[p].queue)]
    BY <1>1
  <2> HIDE DEF q
  <2>2. ASSUME NEW n \in DOMAIN q PROVE q[n] \in Elements(I[p].queue) \cup Elements(list)
    <3>1. CASE n <= Len(I[p].queue)
      BY <2>1, <3>1 DEF Elements
    <3>2. CASE ~(n <= Len(I[p].queue))
      <4>1. n \in Nat /\ ~(n <= Len(I[p].queue)) /\ n <= Len(I[p].queue) + Len(list)
        BY <2>1, <3>2
      <4>2. n - Len(I[p].queue) \in 1..Len(list)
        <5>1. Len(I[p].queue) \in Nat /\ Len(list) \in Nat
          BY <2>1
        <5>2. PICK a, b \in Nat : a = Len(I[p].queue) /\ b = Len(list)
          BY <5>1
        <5>3. n - a \in 1..b
          BY <4>1, <5>2
        <5> QED  BY <5>2, <5>3
      <4>3. q[n] = list[n - Len(I[p].queue)]
        BY <2>1, <3>2
      <4> QED  BY <2>1, <4>2, <4>3 DEF Elements
    <3> QED  BY <3>1, <3>2
  <2>3. \A n \in DOMAIN I[p].queue : I[p].queue[n] \in Elements(q)
    BY <2>1 DEF Elements
  <2>4. ASSUME NEW n \in DOMAIN list PROVE list[n] \in Elements(q)
    <3>1. PICK a, b \in Nat : a = Len(I[p].queue) /\ b = Len(list)
      BY <2>1
    <3>2. n \in 1..b
      BY <2>1, <3>1
    <3>3. /\ n + a \in 1..(a + b) /\ ~(n + a <= a) /\ (n + a) - a = n
      BY <3>1, <3>2
    <3>4. n + a \in DOMAIN q /\ q[n + a] = list[n]
      BY <2>1, <3>1, <3>3
    <3> QED  BY <3>4 DEF Elements
  <2> QED  BY <2>2, <2>3, <2>4 DEF Elements
<1>4. instance' = [I EXCEPT ![p] = x]
  BY DEF Enqueue, WithMore
<1>5. mishaps' = IF start /\ ~ask THEN mishaps \cup {"deadlock"} ELSE mishaps
  BY DEF Enqueue
<1> HIDE DEF q
<1>6. x \in Instance /\ x.queue = q /\ x.busy = (I[p].busy \/ ask)
      /\ x.asked = IF ask THEN Append(I[p].asked, Head(q)) ELSE I[p].asked
  <2>1. (I[p].busy \/ ask) \in BOOLEAN
    OBVIOUS
  <2>2. (IF ask THEN Append(I[p].asked, Head(q)) ELSE I[p].asked) \in Seq(Items)
    BY <1>1, <1>2
  <2> QED  BY <1>2, <2>1, <2>2 DEF Instance
<1> HIDE DEF x
<1>7. instance'[p] = x /\ instance' \in [Preprocessors -> Instance]
      /\ \A r \in Preprocessors \ {p} : instance'[r] = I[r]
  BY <1>4, <1>6
<1>8. CASE ask
  <2>1. x.busy /\ ~I[p].busy /\ x.asked = Append(I[p].asked, Head(q)) /\ q # <<>>
    BY <1>1, <1>2, <1>6, <1>8
  <2> QED  BY <1>2, <1>3, <1>5, <1>6, <1>7, <1>8, <2>1 DEF Added
<1>9. CASE ~ask
  <2>1. x.busy = I[p].busy /\ x.asked = I[p].asked
    BY <1>1, <1>6, <1>9
  <2> QED  BY <1>2, <1>3, <1>5, <1>6, <1>7, <1>9, <2>1 DEF Added
<1> QED  BY <1>8, <1>9

\* What was rightly asked stays so, and nobody asks an agent that is busy.
LEMMA AddedAsks ==
  ASSUME NEW I \in [Preprocessors -> Instance], NEW J, NEW p \in Preprocessors,
         NEW list, Added(I, J, p, list)
  PROVE  /\ RightlyAsked(I[p]) => RightlyAsked(J[p])
         /\ I[p].busy => J[p].busy /\ J[p].asked = I[p].asked
         /\ RightlyAsked(I[p]) /\ AtRest(I[p]) /\ (J[p].busy \/ J[p].queue = I[p].queue)
              => AtRest(J[p])
<1>1. I[p] \in Instance /\ J[p] \in Instance
  BY DEF Added
<1>2. I[p].asked \in Seq(Items) /\ I[p].busy \in BOOLEAN /\ J[p].busy \in BOOLEAN
  BY <1>1 DEF Instance
<1>3. CASE J[p].busy = I[p].busy /\ J[p].asked = I[p].asked
  BY <1>3 DEF Added, RightlyAsked, AtRest
<1>4. CASE /\ ~I[p].busy /\ J[p].busy /\ J[p].queue # <<>>
           /\ J[p].asked = Append(I[p].asked, Head(J[p].queue))
  <2>1. ASSUME RightlyAsked(I[p]) PROVE RightlyAsked(J[p])
    <3>1. I[p].asked = <<>>
      BY <1>4, <2>1 DEF RightlyAsked
    <3>2. J[p].asked = <<Head(J[p].queue)>>
      BY <1>4, <3>1
    <3> QED  BY <1>4, <3>2 DEF RightlyAsked
  <2>2. J[p].asked # <<>>
    BY <1>2, <1>4
  <2> QED  BY <1>4, <2>1, <2>2 DEF AtRest
<1> QED  BY <1>3, <1>4 DEF Added

\* The two ways to go on with a list of items that are done with p.
ToNext(I, p, q, list) ==
  /\ q \in Elements(chain) /\ q # p /\ From(p) \subseteq From(q) \cup {p}
  /\ Added(I, instance', q, list)
  /\ hidden' = hidden
  /\ mishaps' = mishaps \/ mishaps' = mishaps \cup {"deadlock"}
  /\ "deadlock" \notin mishaps' /\ ~I[q].busy =>
       instance'[q].busy \/ instance'[q].queue = I[q].queue

ToEnd(I, p, list) ==
  /\ From(p) = {p} /\ instance' = I /\ mishaps' = mishaps
  /\ hidden' = hidden \ {i \in Elements(list) : item[i] = "stored"}

LEMMA PassOnDoes ==
  ASSUME TypeOK, NEW I \in [Preprocessors -> Instance], NEW p \in Elements(chain),
         NEW list \in Seq(Items), PassOn(I, p, list)
  PROVE  ToEnd(I, p, list) \/ \E q \in Elements(chain) : ToNext(I, p, q, list)
<1>1. CASE Position(p) < Len(chain)
  <2>1. PICK q : q = chain[Position(p) + 1]
    OBVIOUS
  <2>2. q \in Elements(chain) /\ q # p /\ From(p) \subseteq From(q) \cup {p}
    BY <1>1, <2>1, BehindNext
  <2>3. q \in Preprocessors
    BY <2>2, ChainFacts
  <2>4. Enqueue(I, q, list) /\ hidden' = hidden
    BY <1>1, <2>1 DEF PassOn
  <2> QED  BY <2>2, <2>3, <2>4, EnqueueAdds DEF ToNext
<1>2. CASE ~(Position(p) < Len(chain))
  <2>1. EndHandle(list, {"stored"}) /\ instance' = I /\ UNCHANGED mishaps
    BY <1>2 DEF PassOn
  <2> QED  BY <1>2, <2>1, BehindNext DEF ToEnd, EndHandle
<1> QED  BY <1>1, <1>2

-----------------------------------------------------------------------------
(* Steps that leave the connections alone *)

LEMMA ConnectionsAlone ==
  ASSUME PreprocessorInv,
         UNCHANGED <<item, conn, waitQueue, connected, signals>>,
         \A i : Queued(i)' => Queued(i),
         hidden' \subseteq hidden, mishaps \subseteq mishaps'
  PROVE  ConnSound' /\ PlacesApart' /\ WaitSound' /\ InsertedKnown'
<1>1. ConnSound'
  BY DEF PreprocessorInv, ConnSound
<1>2. PlacesApart'
  BY DEF PreprocessorInv, PlacesApart
<1>3. \A c : (Open(c) => Open(c)') /\ (Closed(c) => Closed(c)')
  BY DEF Open, Closed, First, NoSignal
<1>4. WaitSound'
  BY <1>3 DEF PreprocessorInv, WaitSound
<1>5. InsertedKnown'
  <2>1. \A c : NoSignal(c)' <=> NoSignal(c)
    BY DEF NoSignal
  <2> QED  BY <2>1 DEF PreprocessorInv, InsertedKnown
<1> QED  BY <1>1, <1>2, <1>4, <1>5

\* An item that is known stays so as long as what is hidden and stored stays in
\* some queue.
LEMMA StillKnown ==
  ASSUME NoItemForgotten,
         UNCHANGED <<item, conn, waitQueue, connected, signals>>,
         hidden' \subseteq hidden, mishaps \subseteq mishaps',
         \A i \in hidden' : item[i] = "stored"
           /\ (\E p \in Elements(chain) : i \in Elements(instance[p].queue)) =>
           \E p \in Elements(chain') : i \in Elements(instance'[p].queue)
  PROVE  NoItemForgotten'
BY DEF NoItemForgotten

\* Items that are done with p are passed on: none is lost, and none comes.
LEMMA PassOnMoves ==
  ASSUME TypeOK, NEW I \in [Preprocessors -> Instance], NEW p \in Elements(chain),
         NEW list, PassOn(I, p, list), list \in Seq(Items),
         \A q \in Preprocessors \ {p} : I[q] = instance[q],
         Elements(instance[p].queue) = Elements(I[p].queue) \cup Elements(list)
  PROVE  /\ instance' \in [Preprocessors -> Instance] /\ instance'[p] = I[p]
         /\ hidden' \subseteq hidden /\ mishaps \subseteq mishaps'
         /\ mishaps' \subseteq mishaps \cup {"deadlock"}
         /\ \A i : Queued(i)' => Queued(i)
         /\ \A q \in Preprocessors : q \notin Elements(chain) => instance'[q] = instance[q]
         /\ \A i \in hidden' : item[i] = "stored"
              /\ (\E q \in Elements(chain) : i \in Elements(instance[q].queue)) =>
              \E q \in Elements(chain) :
                i \in Elements(instance'[q].queue) /\ (q = p => i \in Elements(I[p].queue))
<1>1. p \in Preprocessors /\ Elements(chain) \subseteq Preprocessors
  BY ChainFacts
<1>2. CASE ToEnd(I, p, list)
  BY <1>1, <1>2 DEF ToEnd, Queued
<1>3. ASSUME NEW q \in Elements(chain), ToNext(I, p, q, list)
      PROVE  /\ instance' \in [Preprocessors -> Instance] /\ instance'[p] = I[p]
             /\ hidden' \subseteq hidden /\ mishaps \subseteq mishaps'
             /\ mishaps' \subseteq mishaps \cup {"deadlock"}
             /\ \A i : Queued(i)' => Queued(i)
             /\ \A r \in Preprocessors : r \notin Elements(chain) => instance'[r] = instance[r]
             /\ \A i \in hidden' : item[i] = "stored"
                  /\ (\E r \in Elements(chain) : i \in Elements(instance[r].queue)) =>
                  \E r \in Elements(chain) :
                    i \in Elements(instance'[r].queue) /\ (r = p => i \in Elements(I[p].queue))
  <2>1. /\ q # p /\ instance' \in [Preprocessors -> Instance]
        /\ \A r \in Preprocessors \ {q} : instance'[r] = I[r]
        /\ Elements(instance'[q].queue) = Elements(I[q].queue) \cup Elements(list)
        /\ hidden' = hidden /\ (mishaps' = mishaps \/ mishaps' = mishaps \cup {"deadlock"})
    BY <1>3 DEF ToNext, Added
  <2>2. \A i : Queued(i)' => Queued(i)
    <3> SUFFICES ASSUME NEW i, NEW r \in Preprocessors, i \in Elements(instance'[r].queue)
                 PROVE  \E x \in Preprocessors : i \in Elements(instance[x].queue)
      BY DEF Queued
    <3> QED  BY <1>1, <2>1
  <2>3. ASSUME NEW i, NEW r \in Elements(chain), i \in Elements(instance[r].queue)
        PROVE  \E x \in Elements(chain) :
                 i \in Elements(instance'[x].queue) /\ (x = p => i \in Elements(I[p].queue))
    BY <1>1, <2>1, <2>3
  <2> QED  BY <1>1, <2>1, <2>2, <2>3
<1> QED  BY <1>2, <1>3, PassOnDoes

\* Whoever is rightly asked and at rest, but p, stays so when items are passed on.
LEMMA PassOnAsks ==
  ASSUME TypeOK, NEW I \in [Preprocessors -> Instance], NEW p, NEW list,
         ToEnd(I, p, list) \/ \E q \in Elements(chain) : ToNext(I, p, q, list),
         NEW r \in Elements(chain), r # p, RightlyAsked(I[r])
  PROVE  /\ RightlyAsked(instance'[r])
         /\ "deadlock" \notin mishaps' /\ AtRest(I[r]) => AtRest(instance'[r])
<1>1. r \in Preprocessors
  BY ChainFacts
<1>2. CASE ToEnd(I, p, list)
  BY <1>2 DEF ToEnd
<1>3. ASSUME NEW q \in Elements(chain), ToNext(I, p, q, list)
      PROVE  /\ RightlyAsked(instance'[r])
             /\ "deadlock" \notin mishaps' /\ AtRest(I[r]) => AtRest(instance'[r])
  <2>1. CASE r # q
    BY <1>1, <1>3, <2>1 DEF ToNext, Added
  <2>2. CASE r = q
    <3>1. Added(I, instance', r, list)
      BY <1>3, <2>2 DEF ToNext
    <3>2. I[r].busy => instance'[r].busy
      BY <1>1, <3>1, AddedAsks
    <3>3. "deadlock" \notin mishaps' => instance'[r].busy \/ instance'[r].queue = I[r].queue
      BY <1>3, <2>2, <3>2 DEF ToNext
    <3> QED  BY <1>1, <3>1, <3>3, AddedAsks
  <2> QED  BY <2>1, <2>2
<1> QED  BY <1>2, <1>3

\* The head of a queue and the rest.
LEMMA HeadAndTail ==
  ASSUME NEW q \in Seq(Items), q # <<>>
  PROVE  /\ Head(q) \in Items /\ <<Head(q)>> \in Seq(Items) /\ Tail(q) \in Seq(Items)
         /\ Elements(<<Head(q)>>) = {Head(q)}
         /\ Elements(q) = Elements(Tail(q)) \cup {Head(q)}
<1> DEFINE a == Tail(q)
           h == <<Head(q)>>
<1>1. /\ Len(q) \in Nat \ {0} /\ DOMAIN q = 1..Len(q) /\ DOMAIN a = 1..(Len(q) - 1)
      /\ \A i \in 1..(Len(q) - 1) : a[i] = q[i + 1]
      /\ Head(q) = q[1] /\ a \in Seq(Items) /\ q[1] \in Items
      /\ DOMAIN h = {1} /\ h[1] = q[1] /\ h \in Seq(Items)
  OBVIOUS
<1> HIDE DEF a, h
<1>2. Elements(h) = {q[1]}
  BY <1>1 DEF Elements
<1>3. \A i \in 1..(Len(q) - 1) : i + 1 \in 1..Len(q)
  BY <1>1
<1>4. \A i \in 1..Len(q) : i = 1 \/ (i - 1 \in 1..(Len(q) - 1) /\ (i - 1) + 1 = i)
  BY <1>1
<1>5. ASSUME NEW i \in 1..Len(q) PROVE q[i] \in Elements(a) \cup {q[1]}
  <2>1. CASE i # 1
    <3>1. i - 1 \in DOMAIN a /\ a[i - 1] = q[i]
      BY <1>1, <1>4, <2>1
    <3> QED  BY <3>1 DEF Elements
  <2> QED  BY <2>1
<1>6. ASSUME NEW i \in 1..(Len(q) - 1) PROVE a[i] \in Elements(q)
  BY <1>1, <1>3 DEF Elements
<1>7. q[1] \in Elements(q)
  BY <1>1 DEF Elements
<1>8. Elements(q) = Elements(a) \cup {q[1]}
  <2>1. Elements(q) \subseteq Elements(a) \cup {q[1]}
    BY <1>1, <1>5 DEF Elements
  <2>2. Elements(a) \subseteq Elements(q)
    BY <1>1, <1>6 DEF Elements
  <2> QED  BY <1>7, <2>1, <2>2
<1> QED  BY <1>1, <1>2, <1>8 DEF a, h

\* An answer takes the head of the queue on; it was for that item.
LEMMA ItemProcessedKeeps ==
  ASSUME PreprocessorInv, NEW p \in Preprocessors, ItemProcessed(p)
  PROVE  PreprocessorInv'
<1> DEFINE q == instance[p].queue
           done == Head(instance[p].asked)
           answered == [instance EXCEPT ![p].asked = Tail(@)]
<1>1. /\ TypeOK /\ instance \in [Preprocessors -> Instance] /\ instance[p] \in Instance
      /\ q \in Seq(Items) /\ instance[p].asked \in Seq(Items)
      /\ main = Idle /\ p \in Elements(chain) /\ instance[p].asked # <<>>
  BY DEF PreprocessorInv, TypeOK, ItemProcessed, Instance, MainIdle
<1>2. Elements(chain) \subseteq Preprocessors
  BY <1>1, ChainFacts
<1>3. /\ UNCHANGED <<item, conn, waitQueue, connected, signals, chain, faults>>
      /\ owed' = [owed EXCEPT ![done] = @ \ {p}]
  BY DEF ItemProcessed
<1>4. /\ answered \in [Preprocessors -> Instance] /\ answered[p].queue = q
      /\ answered[p].asked = Tail(instance[p].asked) /\ answered[p].busy = instance[p].busy
      /\ \A r \in Preprocessors \ {p} : answered[r] = instance[r]
  <2>1. Tail(instance[p].asked) \in Seq(Items)
    BY <1>1
  <2>2. [instance[p] EXCEPT !.asked = Tail(@)] \in Instance
    BY <1>1, <2>1 DEF Instance
  <2> QED  BY <1>1, <2>1, <2>2 DEF Instance
<1>5. done \in Items /\ owed' \in [Items -> SUBSET Preprocessors]
      /\ owed'[done] = owed[done] \ {p} /\ \A i \in Items : owed'[i] \subseteq owed[i]
  <2>1. done \in Items
    BY <1>1
  <2>2. owed \in [Items -> SUBSET Preprocessors]
    BY <1>1 DEF TypeOK
  <2> HIDE DEF done
  <2> QED  BY <1>3, <2>1, <2>2
<1> HIDE DEF done, answered
<1>6. CASE q = <<>>
  <2>1. /\ instance' = [answered EXCEPT ![p].busy = FALSE]
        /\ hidden' = hidden /\ main' = main /\ mishaps' = mishaps
    BY <1>6 DEF ItemProcessed, answered
  <2>2. "stale" \in mishaps
    BY <1>1, <1>6 DEF PreprocessorInv, AskSound, RightlyAsked
  <2>3. /\ instance' \in [Preprocessors -> Instance]
        /\ \A r \in Preprocessors : instance'[r].queue = instance[r].queue
        /\ \A r \in Preprocessors \ {p} : instance'[r] = instance[r]
    BY <1>4, <2>1 DEF Instance
  <2>4. TypeOK'
    BY <1>1, <1>3, <1>5, <2>1, <2>3 DEF TypeOK
  <2>5. \A i : Queued(i)' <=> Queued(i)
    BY <2>3 DEF Queued
  <2>6. ConnSound' /\ PlacesApart' /\ WaitSound' /\ InsertedKnown'
    BY <1>3, <2>1, <2>5, ConnectionsAlone
  <2>7. ChainSound'
    BY <1>1, <1>2, <1>3, <2>1, <2>3 DEF PreprocessorInv, ChainSound, Idle
  <2>8. NoItemForgotten'
    <3>1. \A i : (\E r \in Elements(chain) : i \in Elements(instance[r].queue)) =>
            \E r \in Elements(chain') : i \in Elements(instance'[r].queue)
      BY <1>2, <1>3, <2>3
    <3> QED  BY <1>3, <2>1, <3>1, StillKnown DEF PreprocessorInv
  <2> QED  BY <2>1, <2>2, <2>4, <2>6, <2>7, <2>8
           DEF PreprocessorInv, AskSound, RestSound, OwedSound
<1>7. CASE q # <<>>
  <2> DEFINE I == [answered EXCEPT ![p].queue = Tail(q)]
             list == <<Head(q)>>
  <2>1. /\ PassOn(I, p, list) /\ main' = [at |-> "checking", instance |-> p]
    BY <1>7 DEF ItemProcessed, answered
  <2>2. /\ list \in Seq(Items) /\ Tail(q) \in Seq(Items) /\ Elements(list) = {Head(q)}
        /\ Elements(q) = Elements(Tail(q)) \cup {Head(q)} /\ Head(q) \in Items
    BY <1>1, <1>7, HeadAndTail
  <2>3. /\ I \in [Preprocessors -> Instance] /\ I[p].queue = Tail(q)
        /\ I[p].asked = Tail(instance[p].asked) /\ I[p].busy = instance[p].busy
        /\ \A r \in Preprocessors \ {p} : I[r] = instance[r]
    BY <1>4, <2>2 DEF Instance
  <2> HIDE DEF I, list, q
  <2>4. /\ instance' \in [Preprocessors -> Instance] /\ instance'[p] = I[p]
        /\ hidden' \subseteq hidden /\ mishaps \subseteq mishaps'
        /\ mishaps' \subseteq mishaps \cup {"deadlock"}
        /\ \A i : Queued(i)' => Queued(i)
        /\ \A r \in Preprocessors : r \notin Elements(chain) => instance'[r] = instance[r]
        /\ \A i \in hidden' : item[i] = "stored"
             /\ (\E r \in Elements(chain) : i \in Elements(instance[r].queue)) =>
             \E r \in Elements(chain) :
               i \in Elements(instance'[r].queue) /\ (r = p => i \in Elements(I[p].queue))
    <3>1. /\ TypeOK /\ I \in [Preprocessors -> Instance] /\ p \in Elements(chain)
          /\ PassOn(I, p, list) /\ list \in Seq(Items)
          /\ \A r \in Preprocessors \ {p} : I[r] = instance[r]
      BY <1>1, <2>1, <2>2, <2>3
    <3>2. Elements(instance[p].queue) = Elements(I[p].queue) \cup Elements(list)
      BY <2>2, <2>3 DEF q
    <3> QED  BY <3>1, <3>2, PassOnMoves
  <2>5. ToEnd(I, p, list) \/ \E r \in Elements(chain) : ToNext(I, p, r, list)
    BY <1>1, <2>1, <2>2, <2>3, PassOnDoes
  <2>6. TypeOK'
    <3>1. main' \in [at : {"idle", "checking", "emptied", "head"},
                     instance : Preprocessors \cup {Nobody}]
      BY <2>1
    <3>2. mishaps' \subseteq Mishap /\ hidden' \subseteq Items
      BY <1>1, <2>4 DEF TypeOK, Mishap
    <3> QED  BY <1>1, <1>3, <1>5, <2>4, <3>1, <3>2 DEF TypeOK
  <2>7. ConnSound' /\ PlacesApart' /\ WaitSound' /\ InsertedKnown'
    BY <1>3, <2>4, ConnectionsAlone
  <2>8. ChainSound'
    BY <1>1, <1>3, <2>1, <2>4 DEF PreprocessorInv, ChainSound
  <2>9. NoItemForgotten'
    BY <1>3, <2>4, StillKnown DEF PreprocessorInv
  <2>10. ASSUME "stale" \notin mishaps
         PROVE  /\ \A r \in Elements(chain) : RightlyAsked(instance[r])
                /\ I[p].asked = <<>> /\ I[p].busy /\ done = Head(q)
    <3>1. \A r \in Elements(chain) : RightlyAsked(instance[r])
      BY <2>10 DEF PreprocessorInv, AskSound
    <3>2. instance[p].asked = <<Head(q)>> /\ instance[p].busy
      BY <1>1, <3>1 DEF RightlyAsked, q
    <3>3. I[p].asked = <<>> /\ done = Head(q)
      BY <2>3, <3>2 DEF done
    <3> QED  BY <2>3, <3>1, <3>2, <3>3
  <2>11. AskSound'
    <3> SUFFICES ASSUME "stale" \notin mishaps
                 PROVE  /\ \A r \in Elements(chain) :
                             RightlyAsked(instance'[r]) /\ (r = p => instance'[r].asked = <<>>)
                        /\ instance'[p].busy
      BY <1>3, <2>1, <2>4 DEF AskSound
    <3>1. RightlyAsked(instance'[p]) /\ instance'[p].asked = <<>> /\ instance'[p].busy
      BY <2>4, <2>10 DEF RightlyAsked
    <3>2. ASSUME NEW r \in Elements(chain), r # p PROVE RightlyAsked(instance'[r])
      <4>1. RightlyAsked(I[r])
        BY <1>2, <2>3, <2>10, <3>2
      <4> QED  BY <1>1, <2>3, <2>5, <3>2, <4>1, PassOnAsks
    <3> QED  BY <3>1, <3>2
  <2>12. RestSound'
    <3> SUFFICES ASSUME mishaps' \cap {"stalled", "stale", "deadlock"} = {},
                        NEW r \in Elements(chain), r # p
                 PROVE  AtRest(instance'[r])
      BY <1>3, <2>1 DEF RestSound
    <3>1. mishaps \cap {"stalled", "stale", "deadlock"} = {}
      BY <2>4
    <3>2. r \in Preprocessors /\ I[r] = instance[r] /\ r # Nobody /\ main.instance = Nobody
      BY <1>1, <1>2, <2>3, PreprocessorAssumption DEF PreprocessorAssumption, Idle
    <3>3. RightlyAsked(I[r]) /\ AtRest(I[r])
      BY <2>10, <3>1, <3>2 DEF PreprocessorInv, RestSound
    <3> QED  BY <1>1, <2>3, <2>5, <3>3, PassOnAsks
  <2>13. OwedSound'
    <3> SUFFICES ASSUME mishaps \cap {"stale", "overlap"} = {}
                 PROVE  /\ \A r \in Elements(chain) : \A i \in Elements(instance'[r].queue) :
                             item[i] = "stored" => owed'[i] \subseteq From(r)
                        /\ \A i \in Items : Outside(i)' => owed'[i] = {}
      <4>1. mishaps' \cap {"stale", "overlap"} = mishaps \cap {"stale", "overlap"}
        BY <2>4
      <4>2. \A r : From(r)' = From(r)
        BY <1>3 DEF From
      <4> QED  BY <1>3, <4>1, <4>2 DEF OwedSound
    <3>1. /\ \A r \in Elements(chain) : \A i \in Elements(instance[r].queue) :
               i \in Items /\ (item[i] = "stored" => owed[i] \subseteq From(r))
          /\ \A i \in Items : Outside(i) => owed[i] = {}
      <4>1. \A r \in Preprocessors : instance[r].queue \in Seq(Items)
        BY <1>1 DEF Instance
      <4>2. \A r \in Preprocessors : \A i \in Elements(instance[r].queue) : i \in Items
        BY <4>1, ElementOfSeq DEF Elements
      <4> QED  BY <1>2, <4>2 DEF PreprocessorInv, OwedSound
    <3>2. item[Head(q)] = "stored" => owed'[Head(q)] \subseteq From(p) \ {p}
      BY <1>1, <1>5, <2>2, <2>10, <3>1 DEF q
    <3>3. ASSUME NEW r \in Elements(chain), NEW i \in Elements(instance'[r].queue),
                 item[i] = "stored"
          PROVE  owed'[i] \subseteq From(r)
      <4>1. \A x \in Elements(chain) : \A j \in Elements(I[x].queue) : j \in Elements(instance[x].queue)
        BY <1>2, <2>2, <2>3 DEF q
      <4>2. CASE i \in Elements(I[r].queue)
        BY <1>5, <3>1, <3>3, <4>1, <4>2
      <4>3. CASE i \notin Elements(I[r].queue)
        <5>1. ToNext(I, p, r, list) /\ i = Head(q)
          BY <1>2, <2>2, <2>5, <3>3, <4>3 DEF ToNext, ToEnd, Added
        <5> QED  BY <3>2, <3>3, <5>1 DEF ToNext
      <4> QED  BY <4>2, <4>3
    <3>4. ASSUME NEW i \in Items, Outside(i)' PROVE owed'[i] = {}
      <4>1. CASE Outside(i)
        BY <1>5, <3>1, <4>1
      <4>2. CASE ~Outside(i)
        <5>1. i \in hidden /\ i \notin hidden'
          BY <1>3, <3>4, <4>2 DEF Outside
        <5>2. i = Head(q) /\ item[i] = "stored" /\ From(p) = {p}
          BY <2>2, <2>5, <5>1 DEF ToEnd, ToNext
        <5> QED  BY <3>2, <5>2
      <4> QED  BY <4>1, <4>2
    <3> QED  BY <3>3, <3>4
  <2> QED  BY <2>6, <2>7, <2>8, <2>9, <2>11, <2>12, <2>13 DEF PreprocessorInv
<1> QED  BY <1>6, <1>7

\* The main thread looks whether the instance has more to do.
LEMMA LooksKeep ==
  ASSUME PreprocessorInv, NextItem \/ BecomeIdle
  PROVE  PreprocessorInv'
<1> DEFINE p == main.instance
<1>1. /\ TypeOK /\ instance \in [Preprocessors -> Instance]
      /\ p \in Elements(chain) /\ p \in Preprocessors /\ instance[p] \in Instance
      /\ Elements(chain) \subseteq Preprocessors
  <2>1. TypeOK /\ main.at # "idle"
    BY DEF PreprocessorInv, NextItem, BecomeIdle
  <2>2. p \in Elements(chain)
    BY <2>1 DEF PreprocessorInv, ChainSound
  <2> QED  BY <2>1, <2>2, ChainFacts DEF TypeOK
<1>2. UNCHANGED <<item, hidden, conn, waitQueue, connected, signals, chain, owed, faults>>
  BY DEF NextItem, BecomeIdle
<1>3. \A r : From(r)' = From(r)
  BY <1>2 DEF From
<1>4. CASE NextItem
  <2>1. /\ instance' = instance /\ mishaps' = mishaps
        /\ main' = [main EXCEPT !.at = IF instance[p].queue = <<>> THEN "emptied" ELSE "head"]
    BY <1>4 DEF NextItem
  <2>2. main \in [at : {"idle", "checking", "emptied", "head"},
                 instance : Preprocessors \cup {Nobody}]
    BY <1>1 DEF TypeOK
  <2>3. /\ main'.instance = p /\ main'.at # "idle"
        /\ main'.at = "head" => instance[p].queue # <<>>
        /\ main' \in [at : {"idle", "checking", "emptied", "head"},
                      instance : Preprocessors \cup {Nobody}]
    BY <2>1, <2>2
  <2>4. TypeOK'
    BY <1>1, <1>2, <2>1, <2>3 DEF TypeOK
  <2>5. ConnSound' /\ PlacesApart' /\ WaitSound' /\ InsertedKnown'
    BY <1>2, <2>1, ConnectionsAlone DEF Queued
  <2>6. ChainSound' /\ AskSound' /\ RestSound'
    BY <1>1, <1>2, <1>4, <2>1, <2>3 DEF PreprocessorInv, ChainSound, AskSound, RestSound, NextItem
  <2>7. NoItemForgotten'
    BY <1>2, <2>1, StillKnown DEF PreprocessorInv
  <2>8. OwedSound'
    BY <1>2, <1>3, <2>1 DEF PreprocessorInv, OwedSound, Outside
  <2> QED  BY <2>4, <2>5, <2>6, <2>7, <2>8 DEF PreprocessorInv
<1>5. CASE BecomeIdle
  <2>1. /\ instance' = [instance EXCEPT ![p].busy = FALSE] /\ main' = Idle
        /\ mishaps' = mishaps \cup (IF instance[p].queue = <<>> THEN {} ELSE {"stalled"})
    BY <1>5 DEF BecomeIdle
  <2>2. /\ instance' \in [Preprocessors -> Instance]
        /\ \A r \in Preprocessors : instance'[r].queue = instance[r].queue
        /\ \A r \in Preprocessors \ {p} : instance'[r] = instance[r]
        /\ instance'[p].asked = instance[p].asked /\ ~instance'[p].busy
    BY <1>1, <2>1 DEF Instance
  <2>3. \A i : Queued(i)' <=> Queued(i)
    BY <2>2 DEF Queued
  <2>4. TypeOK'
    <3>1. main' \in [at : {"idle", "checking", "emptied", "head"},
                     instance : Preprocessors \cup {Nobody}] /\ mishaps' \subseteq Mishap
      BY <1>1, <2>1 DEF Idle, TypeOK, Mishap
    <3> QED  BY <1>1, <1>2, <2>2, <3>1 DEF TypeOK
  <2>5. ConnSound' /\ PlacesApart' /\ WaitSound' /\ InsertedKnown'
    BY <1>2, <2>1, <2>3, ConnectionsAlone
  <2>6. ChainSound'
    BY <1>1, <1>2, <2>1, <2>2 DEF PreprocessorInv, ChainSound, Idle
  <2>7. AskSound'
    <3> SUFFICES ASSUME "stale" \notin mishaps, NEW r \in Elements(chain)
                 PROVE  RightlyAsked(instance'[r]) /\ (r = Nobody => instance'[r].asked = <<>>)
      BY <1>2, <2>1 DEF AskSound, Idle
    <3>1. RightlyAsked(instance[r]) /\ (r = p => instance[r].asked = <<>>) /\ r # Nobody
      BY <1>1, PreprocessorAssumption DEF PreprocessorInv, AskSound, PreprocessorAssumption
    <3> QED  BY <1>1, <2>2, <3>1 DEF RightlyAsked
  <2>8. RestSound'
    <3> SUFFICES ASSUME mishaps' \cap {"stalled", "stale", "deadlock"} = {},
                        NEW r \in Elements(chain)
                 PROVE  AtRest(instance'[r])
      BY <1>2 DEF RestSound
    <3>1. mishaps \cap {"stalled", "stale", "deadlock"} = {} /\ instance[p].queue = <<>>
      BY <2>1
    <3>2. CASE r = p
      BY <1>1, <2>2, <3>1, <3>2 DEF AtRest
    <3>3. CASE r # p
      BY <1>1, <2>2, <3>1, <3>3 DEF PreprocessorInv, RestSound
    <3> QED  BY <3>2, <3>3
  <2>9. NoItemForgotten'
    <3>1. \A i : (\E r \in Elements(chain) : i \in Elements(instance[r].queue)) =>
            \E r \in Elements(chain') : i \in Elements(instance'[r].queue)
      BY <1>1, <1>2, <2>2
    <3> QED  BY <1>2, <2>1, <3>1, StillKnown DEF PreprocessorInv
  <2>10. OwedSound'
    <3>1. \A i \in Items : Outside(i)' <=> Outside(i)
      BY <1>2 DEF Outside
    <3>2. mishaps' \cap {"stale", "overlap"} = mishaps \cap {"stale", "overlap"}
      BY <2>1
    <3> QED  BY <1>1, <1>2, <1>3, <2>2, <3>1, <3>2 DEF PreprocessorInv, OwedSound
  <2> QED  BY <2>4, <2>5, <2>6, <2>7, <2>8, <2>9, <2>10 DEF PreprocessorInv
<1> QED  BY <1>4, <1>5

\* processHeadItem(): the agent is asked for the head of the queue, or that is
\* gone and passed on.
LEMMA ProcessHeadItemKeeps ==
  ASSUME PreprocessorInv, ProcessHeadItem
  PROVE  PreprocessorInv'
<1> DEFINE p == main.instance
           q == instance[p].queue
<1>1. /\ TypeOK /\ instance \in [Preprocessors -> Instance]
      /\ p \in Elements(chain) /\ p \in Preprocessors /\ instance[p] \in Instance
      /\ Elements(chain) \subseteq Preprocessors /\ main.at = "head"
      /\ q \in Seq(Items) /\ q # <<>>
      /\ main \in [at : {"idle", "checking", "emptied", "head"},
                   instance : Preprocessors \cup {Nobody}]
  <2>1. TypeOK /\ main.at = "head"
    BY DEF PreprocessorInv, ProcessHeadItem
  <2>2. p \in Elements(chain) /\ q # <<>>
    BY <2>1 DEF PreprocessorInv, ChainSound
  <2> QED  BY <2>1, <2>2, ChainFacts DEF TypeOK, Instance
<1>2. UNCHANGED <<item, conn, waitQueue, connected, signals, chain, owed, faults>>
  BY DEF ProcessHeadItem
<1>3. \A r : From(r)' = From(r)
  BY <1>2 DEF From
<1>4. /\ <<Head(q)>> \in Seq(Items) /\ Tail(q) \in Seq(Items) /\ Head(q) \in Items
      /\ Elements(<<Head(q)>>) = {Head(q)}
      /\ Elements(q) = Elements(Tail(q)) \cup {Head(q)}
  BY <1>1, HeadAndTail
<1>5. CASE /\ item[Head(q)] = "stored"
           /\ instance' = [instance EXCEPT ![p] = WithMore(@, <<>>, TRUE)]
           /\ main' = Idle
           /\ UNCHANGED <<hidden, mishaps>>
  <2> DEFINE x == [queue |-> q, busy |-> TRUE, asked |-> Append(instance[p].asked, Head(q))]
  <2>1. WithMore(instance[p], <<>>, TRUE) = x
    <3>1. q \o <<>> = q
      BY <1>1
    <3>2. (instance[p].busy \/ TRUE) = TRUE
      OBVIOUS
    <3> QED  BY <3>1, <3>2 DEF WithMore
  <2>2. x \in Instance /\ x.queue = q /\ x.busy /\ x.asked = Append(instance[p].asked, Head(q))
    BY <1>1, <1>4 DEF Instance
  <2> HIDE DEF x
  <2>3. /\ instance' \in [Preprocessors -> Instance] /\ instance'[p] = x
        /\ \A r \in Preprocessors \ {p} : instance'[r] = instance[r]
        /\ \A r \in Preprocessors : instance'[r].queue = instance[r].queue
    BY <1>1, <1>5, <2>1, <2>2
  <2>4. \A i : Queued(i)' <=> Queued(i)
    BY <2>3 DEF Queued
  <2>5. TypeOK'
    <3>1. main' \in [at : {"idle", "checking", "emptied", "head"},
                     instance : Preprocessors \cup {Nobody}]
      BY <1>5 DEF Idle
    <3> QED  BY <1>1, <1>2, <1>5, <2>3, <3>1 DEF TypeOK
  <2>6. ConnSound' /\ PlacesApart' /\ WaitSound' /\ InsertedKnown'
    BY <1>2, <1>5, <2>4, ConnectionsAlone
  <2>7. ChainSound'
    BY <1>1, <1>2, <1>5, <2>3 DEF PreprocessorInv, ChainSound, Idle
  <2>8. AskSound'
    <3> SUFFICES ASSUME "stale" \notin mishaps, NEW r \in Elements(chain)
                 PROVE  RightlyAsked(instance'[r]) /\ (r = Nobody => instance'[r].asked = <<>>)
      BY <1>2, <1>5 DEF AskSound, Idle
    <3>1. RightlyAsked(instance[r]) /\ (r = p => instance[r].asked = <<>>) /\ r # Nobody
      BY <1>1, PreprocessorAssumption DEF PreprocessorInv, AskSound, PreprocessorAssumption
    <3>2. CASE r = p
      BY <1>1, <2>2, <2>3, <3>1, <3>2 DEF RightlyAsked
    <3> QED  BY <1>1, <2>3, <3>1, <3>2
  <2>9. RestSound'
    <3> SUFFICES ASSUME mishaps \cap {"stalled", "stale", "deadlock"} = {},
                        NEW r \in Elements(chain)
                 PROVE  AtRest(instance'[r])
      BY <1>2, <1>5 DEF RestSound
    <3>1. CASE r = p
      <4>1. instance'[p].asked # <<>>
        BY <1>1, <1>4, <2>2, <2>3 DEF Instance
      <4> QED  BY <2>2, <2>3, <3>1, <4>1 DEF AtRest
    <3>2. CASE r # p
      BY <1>1, <2>3, <3>2 DEF PreprocessorInv, RestSound
    <3> QED  BY <3>1, <3>2
  <2>10. NoItemForgotten'
    <3>1. \A i : (\E r \in Elements(chain) : i \in Elements(instance[r].queue)) =>
            \E r \in Elements(chain') : i \in Elements(instance'[r].queue)
      BY <1>1, <1>2, <2>3
    <3> QED  BY <1>2, <1>5, <3>1, StillKnown DEF PreprocessorInv
  <2>11. OwedSound'
    <3>1. \A i \in Items : Outside(i)' <=> Outside(i)
      BY <1>2, <1>5 DEF Outside
    <3> QED  BY <1>1, <1>2, <1>3, <1>5, <2>3, <3>1 DEF PreprocessorInv, OwedSound
  <2> QED  BY <2>5, <2>6, <2>7, <2>8, <2>9, <2>10, <2>11 DEF PreprocessorInv
<1>6. CASE /\ item[Head(q)] # "stored"
           /\ PassOn([instance EXCEPT ![p].queue = Tail(q)], p, <<Head(q)>>)
           /\ main' = [main EXCEPT !.at = "checking"]
  <2> DEFINE I == [instance EXCEPT ![p].queue = Tail(q)]
             list == <<Head(q)>>
  <2>1. /\ I \in [Preprocessors -> Instance] /\ I[p].queue = Tail(q)
        /\ I[p].asked = instance[p].asked /\ I[p].busy = instance[p].busy
        /\ \A r \in Preprocessors \ {p} : I[r] = instance[r]
    BY <1>1, <1>4 DEF Instance
  <2>2. PassOn(I, p, list)
    BY <1>6
  <2>3. list \in Seq(Items) /\ Elements(list) = {Head(q)}
    BY <1>4
  <2> HIDE DEF I, list
  <2>4. /\ instance' \in [Preprocessors -> Instance] /\ instance'[p] = I[p]
        /\ hidden' \subseteq hidden /\ mishaps \subseteq mishaps'
        /\ mishaps' \subseteq mishaps \cup {"deadlock"}
        /\ \A i : Queued(i)' => Queued(i)
        /\ \A r \in Preprocessors : r \notin Elements(chain) => instance'[r] = instance[r]
        /\ \A i \in hidden' : item[i] = "stored"
             /\ (\E r \in Elements(chain) : i \in Elements(instance[r].queue)) =>
             \E r \in Elements(chain) :
               i \in Elements(instance'[r].queue) /\ (r = p => i \in Elements(I[p].queue))
    BY <1>1, <1>4, <2>1, <2>2, <2>3, PassOnMoves
  <2>5. ToEnd(I, p, list) \/ \E r \in Elements(chain) : ToNext(I, p, r, list)
    BY <1>1, <2>1, <2>2, <2>3, PassOnDoes
  <2>6. main'.instance = p /\ main'.at = "checking"
        /\ main' \in [at : {"idle", "checking", "emptied", "head"},
                      instance : Preprocessors \cup {Nobody}]
    BY <1>1, <1>6
  <2>7. TypeOK'
    <3>1. mishaps' \subseteq Mishap /\ hidden' \subseteq Items
      BY <1>1, <2>4 DEF TypeOK, Mishap
    <3> QED  BY <1>1, <1>2, <2>4, <2>6, <3>1 DEF TypeOK
  <2>8. ConnSound' /\ PlacesApart' /\ WaitSound' /\ InsertedKnown'
    BY <1>2, <2>4, ConnectionsAlone
  <2>9. ChainSound'
    BY <1>1, <1>2, <2>4, <2>6 DEF PreprocessorInv, ChainSound
  <2>10. AskSound'
    <3> SUFFICES ASSUME "stale" \notin mishaps
                 PROVE  /\ \A r \in Elements(chain) :
                             RightlyAsked(instance'[r]) /\ (r = p => instance'[r].asked = <<>>)
                        /\ instance'[p].busy
      BY <1>2, <2>4, <2>6 DEF AskSound
    <3>1. /\ \A r \in Elements(chain) : RightlyAsked(instance[r])
          /\ instance[p].asked = <<>> /\ instance[p].busy
      BY <1>1 DEF PreprocessorInv, AskSound
    <3>2. RightlyAsked(instance'[p]) /\ instance'[p].asked = <<>> /\ instance'[p].busy
      BY <2>1, <2>4, <3>1 DEF RightlyAsked
    <3>3. ASSUME NEW r \in Elements(chain), r # p PROVE RightlyAsked(instance'[r])
      <4>1. RightlyAsked(I[r])
        BY <1>1, <2>1, <3>1, <3>3
      <4> QED  BY <1>1, <2>1, <2>5, <3>3, <4>1, PassOnAsks
    <3> QED  BY <3>2, <3>3
  <2>11. RestSound'
    <3> SUFFICES ASSUME mishaps' \cap {"stalled", "stale", "deadlock"} = {},
                        NEW r \in Elements(chain), r # p
                 PROVE  AtRest(instance'[r])
      BY <1>2, <2>6 DEF RestSound
    <3>1. mishaps \cap {"stalled", "stale", "deadlock"} = {}
      BY <2>4
    <3>2. r \in Preprocessors /\ I[r] = instance[r]
      BY <1>1, <2>1
    <3>3. RightlyAsked(I[r]) /\ AtRest(I[r])
      BY <3>1, <3>2 DEF PreprocessorInv, RestSound, AskSound
    <3> QED  BY <1>1, <2>1, <2>5, <3>3, PassOnAsks
  <2>12. NoItemForgotten'
    BY <1>2, <2>4, StillKnown DEF PreprocessorInv
  <2>13. OwedSound'
    <3> SUFFICES ASSUME mishaps \cap {"stale", "overlap"} = {}
                 PROVE  /\ \A r \in Elements(chain) : \A i \in Elements(instance'[r].queue) :
                             item[i] = "stored" => owed[i] \subseteq From(r)
                        /\ \A i \in Items : Outside(i)' => owed[i] = {}
      <4>1. mishaps' \cap {"stale", "overlap"} = mishaps \cap {"stale", "overlap"}
        BY <2>4
      <4> QED  BY <1>2, <1>3, <4>1 DEF OwedSound
    <3>1. hidden' = hidden
      BY <1>6, <2>3, <2>5 DEF ToEnd, ToNext
    <3>2. \A i \in Items : Outside(i)' <=> Outside(i)
      BY <1>2, <3>1 DEF Outside
    <3>3. ASSUME NEW r \in Elements(chain), NEW i \in Elements(instance'[r].queue),
                 item[i] = "stored"
          PROVE  i \in Elements(instance[r].queue)
      <4>1. CASE i \in Elements(I[r].queue)
        BY <1>1, <1>4, <2>1, <4>1
      <4>2. CASE i \notin Elements(I[r].queue)
        <5>1. i \in Elements(list)
          BY <1>1, <2>5, <3>3, <4>2 DEF ToNext, ToEnd, Added
        <5> QED  BY <1>6, <2>3, <3>3, <5>1
      <4> QED  BY <4>1, <4>2
    <3> QED  BY <3>2, <3>3 DEF PreprocessorInv, OwedSound
  <2> QED  BY <2>7, <2>8, <2>9, <2>10, <2>11, <2>12, <2>13 DEF PreprocessorInv
<1> QED  BY <1>5, <1>6 DEF ProcessHeadItem

\* An answer that nobody hears changes nothing else.
LEMMA UnheardKeeps ==
  ASSUME PreprocessorInv, NEW p \in Preprocessors, Unheard(p)
  PROVE  PreprocessorInv'
<1>1. /\ TypeOK /\ instance \in [Preprocessors -> Instance] /\ instance[p] \in Instance
      /\ p \notin Elements(chain) /\ instance[p].asked # <<>>
      /\ instance[p].asked \in Seq(Items) /\ Elements(chain) \subseteq Preprocessors
  BY ChainFacts DEF PreprocessorInv, TypeOK, Unheard, Instance
<1>2. /\ UNCHANGED <<item, hidden, conn, waitQueue, connected, signals, chain, main,
                     owed, faults, mishaps>>
      /\ instance' = [instance EXCEPT ![p].asked = Tail(@)]
  BY DEF Unheard
<1>3. /\ instance' \in [Preprocessors -> Instance]
      /\ \A r \in Preprocessors \ {p} : instance'[r] = instance[r]
      /\ \A r \in Preprocessors : /\ instance'[r].queue = instance[r].queue
                                  /\ instance'[r].busy = instance[r].busy
  <2>1. Tail(instance[p].asked) \in Seq(Items)
    BY <1>1
  <2> QED  BY <1>1, <1>2, <2>1 DEF Instance
<1>4. \A i : Queued(i)' <=> Queued(i)
  BY <1>3 DEF Queued
<1>5. \A r \in Elements(chain) : instance'[r] = instance[r]
  BY <1>1, <1>3
<1>6. TypeOK'
  BY <1>1, <1>2, <1>3 DEF TypeOK
<1>7. ConnSound' /\ PlacesApart' /\ WaitSound' /\ InsertedKnown'
  BY <1>2, <1>4, ConnectionsAlone
<1>8. ChainSound'
  BY <1>2, <1>3, <1>5 DEF PreprocessorInv, ChainSound
<1>9. AskSound'
  BY <1>2, <1>5 DEF PreprocessorInv, AskSound, ChainSound
<1>10. RestSound'
  BY <1>2, <1>5 DEF PreprocessorInv, RestSound
<1>11. NoItemForgotten'
  BY <1>2, <1>5, StillKnown DEF PreprocessorInv
<1>12. OwedSound'
  <2>1. \A i \in Items : Outside(i)' <=> Outside(i)
    BY <1>2 DEF Outside
  <2>2. \A r : From(r)' = From(r)
    BY <1>2 DEF From
  <2> QED  BY <1>2, <1>5, <2>1, <2>2 DEF PreprocessorInv, OwedSound
<1> QED  BY <1>6, <1>7, <1>8, <1>9, <1>10, <1>11, <1>12 DEF PreprocessorInv

\* Who comes is the last of the chain, and has nothing to do.
LEMMA RegisterInstanceKeeps ==
  ASSUME PreprocessorInv, NEW p \in Preprocessors, RegisterInstance(p)
  PROVE  PreprocessorInv'
<1>1. /\ TypeOK /\ chain \in Seq(Preprocessors) /\ Elements(chain) \subseteq Preprocessors
      /\ p \notin Elements(chain) /\ main = Idle /\ p # Nobody
      /\ instance[p].queue = <<>> /\ ~instance[p].busy
  BY ChainFacts, PreprocessorAssumption
     DEF PreprocessorInv, TypeOK, RegisterInstance, MainIdle, ChainSound, PreprocessorAssumption
<1>2. /\ UNCHANGED <<item, hidden, conn, waitQueue, connected, signals, instance, main, owed>>
      /\ chain' = Append(chain, p) /\ faults < MaxFaults /\ faults' = faults + 1
      /\ mishaps' = mishaps \cup (IF instance[p].asked = <<>> THEN {} ELSE {"stale"})
  BY DEF RegisterInstance, Fault
<1>3. /\ chain' \in Seq(Preprocessors) /\ Elements(chain') = Elements(chain) \cup {p}
      /\ Len(chain) \in Nat /\ DOMAIN chain = 1..Len(chain) /\ DOMAIN chain' = 1..(Len(chain) + 1)
      /\ \A n \in DOMAIN chain : n \in DOMAIN chain' /\ chain'[n] = chain[n]
  BY <1>1, <1>2, AppendElements
<1>4. Distinct(chain')
  <2>1. Distinct(chain)
    BY <1>1 DEF TypeOK, Distinct
  <2> QED  BY <1>1, <1>2, <2>1, AppendDistinct
<1>5. \A r \in Elements(chain) : From(r) \subseteq From(r)'
  BY <1>3 DEF From
<1>6. mishaps \subseteq mishaps' /\ mishaps' \subseteq mishaps \cup {"stale"}
  BY <1>2
<1>7. TypeOK'
  <2>1. faults' \in 0..MaxFaults
    BY <1>1, <1>2, PreprocessorAssumption DEF TypeOK, PreprocessorAssumption
  <2>2. mishaps' \subseteq Mishap
    BY <1>1, <1>6 DEF TypeOK, Mishap
  <2> QED  BY <1>1, <1>2, <1>3, <1>4, <2>1, <2>2 DEF TypeOK, Distinct
<1>8. ConnSound' /\ PlacesApart' /\ WaitSound' /\ InsertedKnown'
  <2>1. \A i : Queued(i)' <=> Queued(i)
    BY <1>2 DEF Queued
  <2> QED  BY <1>2, <1>6, <2>1, ConnectionsAlone
<1>9. ChainSound'
  BY <1>1, <1>2, <1>3 DEF PreprocessorInv, ChainSound, Idle
<1>10. AskSound'
  <2> SUFFICES ASSUME "stale" \notin mishaps'
               PROVE  \A r \in Elements(chain) \cup {p} :
                        RightlyAsked(instance[r]) /\ (r = Nobody => instance[r].asked = <<>>)
    BY <1>1, <1>2, <1>3 DEF AskSound, Idle
  <2>1. "stale" \notin mishaps /\ instance[p].asked = <<>>
    BY <1>2
  <2>2. Nobody \notin Elements(chain)
    BY <1>1, PreprocessorAssumption DEF PreprocessorAssumption
  <2> QED  BY <1>1, <2>1, <2>2 DEF PreprocessorInv, AskSound, RightlyAsked
<1>11. RestSound'
  <2> SUFFICES ASSUME mishaps' \cap {"stalled", "stale", "deadlock"} = {},
                      NEW r \in Elements(chain) \cup {p}, r # main.instance
               PROVE  AtRest(instance[r])
    BY <1>2, <1>3 DEF RestSound
  <2>1. mishaps \cap {"stalled", "stale", "deadlock"} = {}
    BY <1>6
  <2> QED  BY <1>1, <2>1 DEF PreprocessorInv, RestSound, AtRest
<1>12. NoItemForgotten'
  BY <1>2, <1>3, <1>6, StillKnown DEF PreprocessorInv
<1>13. OwedSound'
  <2> SUFFICES ASSUME mishaps \cap {"stale", "overlap"} = {}
               PROVE  /\ \A r \in Elements(chain) \cup {p} : \A i \in Elements(instance[r].queue) :
                           item[i] = "stored" => owed[i] \subseteq From(r)'
                      /\ \A i \in Items : Outside(i)' => owed[i] = {}
    BY <1>2, <1>3, <1>6 DEF OwedSound
  <2>1. \A i \in Items : Outside(i)' <=> Outside(i)
    BY <1>2 DEF Outside
  <2>2. Elements(instance[p].queue) = {}
    BY <1>1 DEF Elements
  <2> QED  BY <1>5, <2>1, <2>2 DEF PreprocessorInv, OwedSound
<1> QED  BY <1>7, <1>8, <1>9, <1>10, <1>11, <1>12, <1>13 DEF PreprocessorInv

\* Without p the others are in the chain in the same order.
LEMMA ChainWithout ==
  ASSUME TypeOK, NEW p \in Elements(chain), chain' = Keep(chain, Preprocessors \ {p})
  PROVE  /\ chain' \in Seq(Preprocessors) /\ Elements(chain') = Elements(chain) \ {p}
         /\ Distinct(chain')
         /\ \A x \in Elements(chain') : From(x) \ {p} \subseteq From(x)'
<1>1. chain \in Seq(Preprocessors) /\ Distinct(chain) /\ Elements(chain) \subseteq Preprocessors
  BY ChainFacts DEF TypeOK, Distinct
<1>2. /\ chain' \in Seq(Preprocessors)
      /\ Elements(chain') = Elements(chain) \cap (Preprocessors \ {p})
      /\ Distinct(chain')
  BY <1>1, KeepType, KeepDistinct
<1>3. Elements(chain') = Elements(chain) \ {p}
  BY <1>1, <1>2
<1>4. PICK g \in [DOMAIN chain' -> DOMAIN chain] :
        /\ \A i \in DOMAIN chain' : chain'[i] = chain[g[i]]
        /\ \A i, j \in DOMAIN chain' : i < j => g[i] < g[j]
  <2> DEFINE kept == Keep(chain, Preprocessors \ {p})
  <2>1. \E g \in [DOMAIN kept -> DOMAIN chain] :
          /\ \A i \in DOMAIN kept : kept[i] = chain[g[i]]
          /\ \A i, j \in DOMAIN kept : i < j => g[i] < g[j]
    BY <1>1, KeepEmbeds
  <2>2. chain' = kept
    OBVIOUS
  <2> HIDE DEF kept
  <2> QED  BY <2>1, <2>2
<1>5. ASSUME NEW x \in Elements(chain'), NEW y \in From(x), y # p PROVE y \in From(x)'
  <2>1. PICK k \in DOMAIN chain, n \in DOMAIN chain : k <= n /\ chain[k] = x /\ chain[n] = y
    BY <1>5 DEF From
  <2>2. y \in Elements(chain')
    BY <1>3, <1>5 DEF From
  <2>3. PICK m \in DOMAIN chain', l \in DOMAIN chain' : chain'[m] = x /\ chain'[l] = y
    BY <1>5, <2>2 DEF Elements
  <2>4. g[m] = k /\ g[l] = n
    <3>1. /\ g[m] \in DOMAIN chain /\ chain[g[m]] = chain[k]
          /\ g[l] \in DOMAIN chain /\ chain[g[l]] = chain[n]
      BY <1>4, <2>1, <2>3
    <3> QED  BY <1>1, <2>1, <3>1 DEF Distinct
  <2>5. m \in Nat /\ l \in Nat /\ k \in Nat /\ n \in Nat
    BY <1>1, <1>2, <2>1, <2>3
  <2>6. ~(l < m)
    BY <1>4, <2>1, <2>4, <2>5
  <2> QED  BY <2>2, <2>3, <2>5, <2>6 DEF From
<1> QED  BY <1>2, <1>3, <1>5

\* The next in the chain takes the items of an instance that goes.
LEMMA UnregisteredKeeps ==
  ASSUME PreprocessorInv, NEW p \in Preprocessors, Unregistered(p), faults' \in 0..MaxFaults
  PROVE  PreprocessorInv'
<1> DEFINE list == instance[p].queue
<1>1. /\ TypeOK /\ instance \in [Preprocessors -> Instance] /\ instance[p] \in Instance
      /\ list \in Seq(Items) /\ instance[p].asked \in Seq(Items) /\ main = Idle
      /\ p \in Elements(chain) /\ Elements(chain) \subseteq Preprocessors
      /\ Nobody \notin Elements(chain) /\ Nobody # p
  <2>1. TypeOK /\ instance \in [Preprocessors -> Instance]
    BY DEF PreprocessorInv, TypeOK
  <2>2. main = Idle /\ p \in Elements(chain)
    BY DEF Unregistered, MainIdle
  <2>3. instance[p] \in Instance
    BY <2>1
  <2>4. list \in Seq(Items) /\ instance[p].asked \in Seq(Items)
    BY <2>3 DEF Instance
  <2>5. Elements(chain) \subseteq Preprocessors
    BY <2>1, ChainFacts
  <2>6. Nobody \notin Preprocessors
    BY PreprocessorAssumption DEF PreprocessorAssumption
  <2> QED  BY <2>1, <2>2, <2>3, <2>4, <2>5, <2>6
<1>2. /\ UNCHANGED <<item, conn, waitQueue, connected, signals, main>>
      /\ chain' = Keep(chain, Preprocessors \ {p})
      /\ owed' = [i \in Items |-> owed[i] \ {p}]
  BY DEF Unregistered
<1>3. PICK asked \in {instance[p].asked, <<>>} :
        PassOn([instance EXCEPT ![p] = [queue |-> <<>>, busy |-> FALSE, asked |-> asked]],
               p, list)
  BY DEF Unregistered
<1> DEFINE I == [instance EXCEPT ![p] = [queue |-> <<>>, busy |-> FALSE, asked |-> asked]]
<1>4. /\ I \in [Preprocessors -> Instance] /\ I[p].queue = <<>> /\ ~I[p].busy
      /\ \A r \in Preprocessors \ {p} : I[r] = instance[r]
  <2>1. asked \in Seq(Items)
    <3>1. <<>> \in Seq(Items) /\ (asked = instance[p].asked \/ asked = <<>>)
      BY <1>3
    <3> QED  BY <1>1, <3>1
  <2>2. [queue |-> <<>>, busy |-> FALSE, asked |-> asked] \in Instance
    BY <2>1 DEF Instance
  <2> QED  BY <1>1, <2>2
<1>5. Elements(I[p].queue) = {}
  BY <1>4 DEF Elements
<1>6. PassOn(I, p, list)
  BY <1>3
<1> HIDE DEF I
<1>7. Elements(list) = Elements(I[p].queue) \cup Elements(list)
  BY <1>5
<1>8. /\ instance' \in [Preprocessors -> Instance] /\ instance'[p] = I[p]
      /\ hidden' \subseteq hidden /\ mishaps \subseteq mishaps'
      /\ mishaps' \subseteq mishaps \cup {"deadlock"}
      /\ \A i : Queued(i)' => Queued(i)
      /\ \A r \in Preprocessors : r \notin Elements(chain) => instance'[r] = instance[r]
      /\ \A i \in hidden' : item[i] = "stored"
           /\ (\E r \in Elements(chain) : i \in Elements(instance[r].queue)) =>
           \E r \in Elements(chain) :
             i \in Elements(instance'[r].queue) /\ (r = p => i \in Elements(I[p].queue))
  BY <1>1, <1>4, <1>6, <1>7, PassOnMoves
<1>9. ToEnd(I, p, list) \/ \E r \in Elements(chain) : ToNext(I, p, r, list)
  BY <1>1, <1>4, <1>6, PassOnDoes
<1>10. /\ chain' \in Seq(Preprocessors) /\ Elements(chain') = Elements(chain) \ {p}
       /\ Distinct(chain') /\ \A x \in Elements(chain') : From(x) \ {p} \subseteq From(x)'
  BY <1>1, <1>2, ChainWithout
<1> HIDE DEF list
<1>11. TypeOK'
  <2>1. mishaps' \subseteq Mishap /\ hidden' \subseteq Items
    BY <1>1, <1>8 DEF TypeOK, Mishap
  <2>2. owed' \in [Items -> SUBSET Preprocessors]
    BY <1>1, <1>2 DEF TypeOK
  <2> QED  BY <1>1, <1>2, <1>8, <1>10, <2>1, <2>2 DEF TypeOK, Distinct
<1>12. ConnSound' /\ PlacesApart' /\ WaitSound' /\ InsertedKnown'
  BY <1>2, <1>8, ConnectionsAlone
<1>13. ChainSound'
  BY <1>1, <1>2, <1>4, <1>8, <1>10 DEF PreprocessorInv, ChainSound, Idle
<1>14. AskSound'
  <2> SUFFICES ASSUME "stale" \notin mishaps, NEW r \in Elements(chain) \ {p}
               PROVE  RightlyAsked(instance'[r])
    BY <1>1, <1>2, <1>8, <1>10 DEF AskSound, Idle
  <2>1. RightlyAsked(I[r])
    BY <1>1, <1>4 DEF PreprocessorInv, AskSound
  <2> QED  BY <1>1, <1>4, <1>9, <2>1, PassOnAsks
<1>15. RestSound'
  <2> SUFFICES ASSUME mishaps' \cap {"stalled", "stale", "deadlock"} = {},
                      NEW r \in Elements(chain) \ {p}, r # main.instance
               PROVE  AtRest(instance'[r])
    BY <1>2, <1>10 DEF RestSound
  <2>1. mishaps \cap {"stalled", "stale", "deadlock"} = {}
    BY <1>8
  <2>2. RightlyAsked(I[r]) /\ AtRest(I[r])
    BY <1>1, <1>4, <2>1 DEF PreprocessorInv, AskSound, RestSound
  <2> QED  BY <1>1, <1>4, <1>9, <2>2, PassOnAsks
<1>16. NoItemForgotten'
  <2>1. \A i \in hidden' : item[i] = "stored"
          /\ (\E r \in Elements(chain) : i \in Elements(instance[r].queue)) =>
          \E r \in Elements(chain') : i \in Elements(instance'[r].queue)
    BY <1>5, <1>8, <1>10
  <2> QED  BY <1>2, <1>8, <2>1, StillKnown DEF PreprocessorInv
<1>17. OwedSound'
  <2> SUFFICES ASSUME mishaps \cap {"stale", "overlap"} = {}
               PROVE  /\ \A r \in Elements(chain) \ {p} : \A i \in Elements(instance'[r].queue) :
                           item[i] = "stored" => owed'[i] \subseteq From(r)'
                      /\ \A i \in Items : Outside(i)' => owed'[i] = {}
    <3>1. mishaps' \cap {"stale", "overlap"} = mishaps \cap {"stale", "overlap"}
      BY <1>8
    <3> QED  BY <1>2, <1>10, <3>1 DEF OwedSound
  <2>1. \A i \in Items : owed'[i] = owed[i] \ {p}
    BY <1>2
  <2>2. /\ \A r \in Elements(chain) : \A i \in Elements(instance[r].queue) :
             i \in Items /\ (item[i] = "stored" => owed[i] \subseteq From(r))
        /\ \A i \in Items : Outside(i) => owed[i] = {}
    <3>1. \A r \in Preprocessors : instance[r].queue \in Seq(Items)
      BY <1>1 DEF Instance
    <3>2. \A r \in Preprocessors : \A i \in Elements(instance[r].queue) : i \in Items
      BY <3>1, ElementOfSeq DEF Elements
    <3> QED  BY <1>1, <3>2 DEF PreprocessorInv, OwedSound
  <2>3. ASSUME NEW r \in Elements(chain) \ {p}, NEW i \in Elements(instance'[r].queue),
               item[i] = "stored"
        PROVE  owed'[i] \subseteq From(r)'
    <3>1. From(r) \ {p} \subseteq From(r)'
      BY <1>10
    <3>2. CASE i \in Elements(I[r].queue)
      <4>1. i \in Items /\ owed[i] \subseteq From(r)
        BY <1>1, <1>4, <2>2, <2>3, <3>2
      <4> QED  BY <2>1, <3>1, <4>1
    <3>3. CASE i \notin Elements(I[r].queue)
      <4>1. ToNext(I, p, r, list) /\ i \in Elements(list)
        BY <1>1, <1>9, <2>3, <3>3 DEF ToNext, ToEnd, Added
      <4>2. i \in Items /\ owed[i] \subseteq From(r) \cup {p}
        BY <1>1, <2>2, <2>3, <4>1 DEF ToNext, list
      <4> QED  BY <2>1, <3>1, <4>2
    <3> QED  BY <3>2, <3>3
  <2>4. ASSUME NEW i \in Items, Outside(i)' PROVE owed'[i] = {}
    <3>1. CASE Outside(i)
      BY <2>1, <2>2, <3>1
    <3>2. CASE ~Outside(i)
      <4>1. i \in hidden /\ i \notin hidden'
        BY <1>2, <2>4, <3>2 DEF Outside
      <4>2. i \in Elements(list) /\ item[i] = "stored" /\ From(p) = {p}
        BY <1>9, <4>1 DEF ToEnd, ToNext
      <4> QED  BY <1>1, <2>1, <2>2, <4>2 DEF list
    <3> QED  BY <3>1, <3>2
  <2> QED  BY <2>3, <2>4
<1> QED  BY <1>11, <1>12, <1>13, <1>14, <1>15, <1>16, <1>17 DEF PreprocessorInv

-----------------------------------------------------------------------------
(* Steps that leave the chain alone *)

LEMMA ChainAlone ==
  ASSUME PreprocessorInv, UNCHANGED <<chain, instance, main>>, mishaps \subseteq mishaps'
  PROVE  /\ ChainSound' /\ AskSound' /\ RestSound'
         /\ \A i : Queued(i)' <=> Queued(i)
         /\ \A r : From(r)' = From(r)
<1>1. ChainSound' /\ AskSound' /\ RestSound'
  BY DEF PreprocessorInv, ChainSound, AskSound, RestSound
<1>2. \A i : Queued(i)' <=> Queued(i)
  BY DEF Queued
<1>3. \A r : From(r)' = From(r)
  BY DEF From
<1> QED  BY <1>1, <1>2, <1>3

\* What is known of the parts of connections and queues.
LEMMA PartTypes ==
  ASSUME TypeOK
  PROVE  /\ \A c \in Connections :
              /\ conn[c] \in Conn /\ conn[c].item \in Items \cup {NoItem}
              /\ conn[c].inserted \subseteq Items /\ conn[c].transaction \in BOOLEAN
              /\ conn[c].at \in {"idle", "inserted", "committed"}
              /\ waitQueue[c] \in Seq(Items) /\ Elements(waitQueue[c]) \subseteq Items
         /\ \A p \in Preprocessors :
              /\ instance[p] \in Instance /\ instance[p].queue \in Seq(Items)
              /\ Elements(instance[p].queue) \subseteq Items
         /\ \A i : Queued(i) => i \in Items
         /\ NoItem \notin Items
<1>1. \A c \in Connections : conn[c] \in Conn /\ waitQueue[c] \in Seq(Items)
  BY DEF TypeOK
<1>2. \A p \in Preprocessors : instance[p] \in Instance /\ instance[p].queue \in Seq(Items)
  BY DEF TypeOK, Instance
<1>3. \A s \in Seq(Items) : Elements(s) \subseteq Items
  BY ElementOfSeq DEF Elements
<1>4. \A c \in Connections :
        /\ conn[c].item \in Items \cup {NoItem} /\ conn[c].inserted \subseteq Items
        /\ conn[c].transaction \in BOOLEAN
        /\ conn[c].at \in {"idle", "inserted", "committed"}
  BY <1>1 DEF Conn
<1>5. \A i : Queued(i) => i \in Items
  BY <1>2, <1>3 DEF Queued
<1>6. NoItem \notin Items
  BY PreprocessorAssumption DEF PreprocessorAssumption
<1> QED  BY <1>1, <1>2, <1>3, <1>4, <1>5, <1>6

\* What nobody has taken out of the chain owes what it owed.
LEMMA OwedAlone ==
  ASSUME PreprocessorInv, UNCHANGED <<chain, instance, main, owed>>,
         mishaps \subseteq mishaps',
         \A i \in Items : Outside(i)' => Outside(i),
         \A i \in Items : Queued(i) /\ item'[i] = "stored" => item[i] \in {"inserted", "stored"}
  PROVE  OwedSound'
<1> SUFFICES ASSUME mishaps \cap {"stale", "overlap"} = {}
             PROVE  /\ \A r \in Elements(chain) : \A i \in Elements(instance[r].queue) :
                         item'[i] = "stored" => owed[i] \subseteq From(r)
                    /\ \A i \in Items : Outside(i)' => owed[i] = {}
  BY ChainAlone DEF OwedSound
<1>1. \A r \in Elements(chain) : \A i \in Elements(instance[r].queue) : i \in Items /\ Queued(i)
  BY ChainFacts, PartTypes DEF PreprocessorInv, Queued
<1>2. \A i \in Items : item[i] = "inserted" => owed[i] = {}
  BY DEF PreprocessorInv, OwedSound, Outside
<1> QED  BY <1>1, <1>2 DEF PreprocessorInv, OwedSound

\* A signal that is emitted comes after all others.
LEMMA EmitDoes ==
  ASSUME TypeOK, NEW c \in Connections,
         NEW signal \in {"transactionCommitted", "transactionRolledBack"}, Emit(c, signal)
  PROVE  /\ signals' \in Seq(Signal)
         /\ \A n \in DOMAIN signals : n \in DOMAIN signals' /\ signals'[n] = signals[n]
         /\ \A d, n : First(d, n) => First(d, n)'
         /\ \A d : d # c /\ NoSignal(d) => NoSignal(d)'
         /\ c \in connected =>
              /\ \E n \in DOMAIN signals' : signals'[n].of = c
              /\ NoSignal(c) => \E n \in DOMAIN signals' : First(c, n)' /\ signals'[n].is = signal
<1>1. signals \in Seq(Signal) /\ Len(signals) \in Nat /\ DOMAIN signals = 1..Len(signals)
  BY DEF TypeOK
<1>2. CASE c \notin connected
  <2>1. signals' = signals
    BY <1>2 DEF Emit
  <2> QED  BY <1>1, <1>2, <2>1 DEF First, NoSignal
<1>3. CASE c \in connected
  <2> DEFINE e == [of |-> c, is |-> signal]
  <2>0. PICK k : k = Len(signals) + 1
    OBVIOUS
  <2>1. e \in Signal /\ e.of = c /\ e.is = signal
    BY DEF Signal
  <2> HIDE DEF e
  <2>2. signals' = Append(signals, e)
    BY <1>3 DEF Emit, e
  <2>3. /\ signals' \in Seq(Signal) /\ DOMAIN signals' = 1..k /\ signals'[k] = e
        /\ \A n \in DOMAIN signals : n \in DOMAIN signals' /\ signals'[n] = signals[n] /\ n < k
        /\ \A n \in DOMAIN signals' : n \in DOMAIN signals \/ n = k
        /\ k \in DOMAIN signals'
    BY <1>1, <2>0, <2>1, <2>2
  <2>4. \A n \in DOMAIN signals : ~(k < n)
    BY <1>1, <2>0
  <2>5. \A d, n : First(d, n) => First(d, n)'
    <3> SUFFICES ASSUME NEW d, NEW n, First(d, n) PROVE First(d, n)'
      OBVIOUS
    <3>1. n \in DOMAIN signals /\ signals[n].of = d
          /\ \A m \in DOMAIN signals : m < n => signals[m].of # d
      BY DEF First
    <3>2. \A m \in DOMAIN signals' : m < n => signals'[m].of # d
      BY <2>3, <2>4, <3>1
    <3> QED  BY <2>3, <3>1, <3>2 DEF First
  <2>6. \A d : d # c /\ NoSignal(d) => NoSignal(d)'
    BY <2>1, <2>3 DEF NoSignal
  <2>7. NoSignal(c) => First(c, k)'
    <3> SUFFICES ASSUME NoSignal(c) PROVE First(c, k)'
      OBVIOUS
    <3>1. \A m \in DOMAIN signals' : m < k => m \in DOMAIN signals
      BY <1>1, <2>0, <2>3
    <3>2. \A m \in DOMAIN signals' : m < k => signals'[m].of # c
      BY <2>3, <3>1 DEF NoSignal
    <3> QED  BY <2>1, <2>3, <3>2 DEF First
  <2> QED  BY <2>1, <2>3, <2>5, <2>6, <2>7
<1> QED  BY <1>2, <1>3

\* A wait queue that is closed stays so, whatever signals come after its own.
LEMMA ClosedStays ==
  ASSUME NEW d, Closed(d), waitQueue' = waitQueue,
         \A n \in DOMAIN signals : n \in DOMAIN signals' /\ signals'[n] = signals[n],
         \A n : First(d, n) => First(d, n)',
         \A i \in Elements(waitQueue[d]) :
           item[i] \in {"stored", "gone"} => item'[i] \in {item[i], "gone"}
  PROVE  Closed(d)'
BY DEF Closed

\* What the items that a connection has inserted become.
LEMMA StoredDoes ==
  ASSUME PreprocessorInv, NEW c \in Connections, NEW state \in {"stored", "gone"},
         Stored(c, state)
  PROVE  /\ item' \in [Items -> {"new", "inserted", "stored", "gone"}]
         /\ \A i \in conn[c].inserted : item[i] = "inserted" /\ item'[i] = state
         /\ \A i \in Items : i \notin conn[c].inserted => item'[i] = item[i]
<1>1. item \in [Items -> {"new", "inserted", "stored", "gone"}]
  BY DEF PreprocessorInv, TypeOK
<1>2. conn[c].inserted \subseteq Items
  BY PartTypes DEF PreprocessorInv
<1>3. \A i \in conn[c].inserted : item[i] = "inserted"
  BY DEF PreprocessorInv, ConnSound
<1> QED  BY <1>1, <1>2, <1>3 DEF Stored

\* An append inserts an item that was nowhere.
LEMMA AppendItemKeeps ==
  ASSUME PreprocessorInv, NEW c \in Connections, NEW i \in Items, AppendItem(c, i)
  PROVE  PreprocessorInv'
<1>1. /\ TypeOK /\ ConnSound /\ PlacesApart /\ WaitSound /\ InsertedKnown /\ NoItemForgotten
      /\ item \in [Items -> {"new", "inserted", "stored", "gone"}] /\ item[i] = "new"
      /\ conn \in [Connections -> Conn] /\ conn[c].at = "idle" /\ conn[c].item = NoItem
  BY DEF PreprocessorInv, TypeOK, AppendItem, ConnSound
<1>2. /\ UNCHANGED <<waitQueue, connected, signals, chain, instance, main, owed, faults, mishaps>>
      /\ item' = [item EXCEPT ![i] = "inserted"]
      /\ conn' = [conn EXCEPT ![c].at = "inserted", ![c].item = i,
                              ![c].inserted = @ \cup {i}]
      /\ hidden \subseteq hidden' /\ hidden' \subseteq hidden \cup {i}
  BY DEF AppendItem
<1>3. /\ item' \in [Items -> {"new", "inserted", "stored", "gone"}]
      /\ item'[i] = "inserted" /\ \A j \in Items \ {i} : item'[j] = item[j]
  BY <1>1, <1>2
<1>4. /\ \A d \in Connections :
           /\ conn[d].item \in Items \cup {NoItem} /\ conn[d].inserted \subseteq Items
           /\ Elements(waitQueue[d]) \subseteq Items
           /\ i \notin conn[d].inserted /\ conn[d].item # i /\ i \notin Elements(waitQueue[d])
      /\ \A j : Queued(j) => j \in Items \ {i}
      /\ NoItem \notin Items
  BY <1>1, PartTypes DEF ConnSound, PlacesApart
<1>5. /\ conn' \in [Connections -> Conn] /\ \A d \in Connections \ {c} : conn'[d] = conn[d]
      /\ conn'[c].at = "inserted" /\ conn'[c].item = i
      /\ conn'[c].inserted = conn[c].inserted \cup {i}
      /\ conn'[c].transaction = conn[c].transaction
  <2>1. conn[c] \in Conn /\ conn[c].inserted \cup {i} \subseteq Items
    BY <1>1, <1>4
  <2> QED  BY <1>1, <1>2, <2>1 DEF Conn
<1>6. ChainSound' /\ AskSound' /\ RestSound' /\ \A j : Queued(j)' <=> Queued(j)
  BY <1>2, ChainAlone
<1>7. TypeOK'
  <2>1. hidden' \subseteq Items
    BY <1>1, <1>2 DEF TypeOK
  <2> QED  BY <1>1, <1>2, <1>3, <1>5, <2>1 DEF TypeOK
<1>8. ConnSound'
  <2> SUFFICES ASSUME NEW d \in Connections
               PROVE  /\ conn'[d].at = "idle" <=> conn'[d].item = NoItem
                      /\ \A j \in conn'[d].inserted : item'[j] = "inserted"
                      /\ \A e \in Connections \ {d} : conn'[d].inserted \cap conn'[e].inserted = {}
                      /\ IF conn'[d].transaction
                         THEN conn'[d].at # "idle" => conn'[d].item \in conn'[d].inserted
                         ELSE /\ conn'[d].inserted
                                   = IF conn'[d].at = "inserted" THEN {conn'[d].item} ELSE {}
                              /\ conn'[d].at = "committed" => item'[conn'[d].item] \in {"stored", "gone"}
    BY DEF ConnSound
  <2>0. /\ conn[d].at = "idle" <=> conn[d].item = NoItem
        /\ \A j \in conn[d].inserted : item[j] = "inserted" /\ j \in Items \ {i}
        /\ \A e \in Connections \ {d} : conn[d].inserted \cap conn[e].inserted = {}
        /\ IF conn[d].transaction
           THEN conn[d].at # "idle" => conn[d].item \in conn[d].inserted
           ELSE /\ conn[d].inserted = IF conn[d].at = "inserted" THEN {conn[d].item} ELSE {}
                /\ conn[d].at = "committed" => item[conn[d].item] \in {"stored", "gone"}
        /\ conn[d].at = "committed" => conn[d].item \in Items \ {i}
    BY <1>1, <1>4 DEF ConnSound
  <2>1. \A j \in conn'[d].inserted : item'[j] = "inserted"
    <3>1. \A j \in conn[d].inserted \cup {i} : item'[j] = "inserted"
      BY <1>3, <2>0
    <3>2. conn'[d].inserted \subseteq conn[d].inserted \cup {i}
      BY <1>5
    <3> QED  BY <3>1, <3>2
  <2>2. \A e \in Connections \ {d} : conn'[d].inserted \cap conn'[e].inserted = {}
    <3> SUFFICES ASSUME NEW e \in Connections \ {d}
                 PROVE  conn'[d].inserted \cap conn'[e].inserted = {}
      OBVIOUS
    <3>1. conn[d].inserted \cap conn[e].inserted = {}
          /\ i \notin conn[d].inserted /\ i \notin conn[e].inserted
      BY <1>4, <2>0
    <3> QED  BY <1>5, <3>1
  <2>3. CASE d = c
    BY <1>1, <1>4, <1>5, <2>0, <2>1, <2>2, <2>3
  <2>4. CASE d # c
    <3>1. conn'[d] = conn[d]
      BY <1>5, <2>4
    <3> QED  BY <1>3, <2>0, <2>1, <2>2, <3>1
  <2> QED  BY <2>3, <2>4
<1>9. PlacesApart'
  <2>1. \A d, e \in Connections :
          /\ d # e => conn'[d].item = NoItem \/ conn'[d].item # conn'[e].item
          /\ d # e => Elements(waitQueue[d]) \cap Elements(waitQueue[e]) = {}
          /\ conn'[d].item \notin Elements(waitQueue[e])
    BY <1>1, <1>4, <1>5 DEF PlacesApart
  <2>2. \A d \in Connections :
          ~Queued(conn'[d].item) /\ \A j \in Elements(waitQueue[d]) : ~Queued(j)
    BY <1>1, <1>4, <1>5 DEF PlacesApart
  <2>3. \A j \in Items : item'[j] = "new" =>
          /\ ~Queued(j)
          /\ \A d \in Connections : conn'[d].item # j /\ j \notin Elements(waitQueue[d])
    BY <1>1, <1>3, <1>5 DEF PlacesApart
  <2> QED  BY <1>2, <1>6, <2>1, <2>2, <2>3 DEF PlacesApart
<1>10. WaitSound'
  <2>1. \A d \in Connections : Open(d) => Open(d)'
    BY <1>2, <1>5 DEF Open, NoSignal
  <2>2. \A d \in Connections : Closed(d) => Closed(d)'
    BY <1>2, <1>3, <1>4 DEF Closed, First
  <2>3. connected \subseteq Connections
    BY <1>1 DEF TypeOK
  <2> QED  BY <1>1, <1>2, <1>3, <1>4, <1>6, <2>1, <2>2, <2>3 DEF WaitSound
<1>11. InsertedKnown'
  <2> SUFFICES ASSUME mishaps \cap {"inactive", "overlap", "leaked"} = {},
                      NEW d \in Connections, conn'[d].transaction,
                      NEW j \in conn'[d].inserted, j \in hidden', conn'[d].item # j
               PROVE  j \in Elements(waitQueue[d]) /\ NoSignal(d)
    BY <1>2 DEF InsertedKnown, NoSignal
  <2>1. /\ conn[d].transaction /\ j \in conn[d].inserted /\ j \in hidden /\ conn[d].item # j
    BY <1>1, <1>2, <1>4, <1>5
  <2> QED  BY <1>1, <2>1 DEF InsertedKnown
<1>12. NoItemForgotten'
  <2>1. \A d \in Connections, j \in Items : conn[d].item = j => conn'[d].item = j
    BY <1>1, <1>4, <1>5
  <2>2. \A j \in hidden' : item'[j] = "stored" => j \in hidden /\ j \in Items /\ item[j] = "stored"
    BY <1>1, <1>2, <1>3 DEF TypeOK
  <2> QED  BY <1>1, <1>2, <2>1, <2>2 DEF NoItemForgotten
<1>13. OwedSound'
  <2>1. ASSUME NEW j \in Items, Outside(j)' PROVE Outside(j)
    <3>1. CASE j = i
      BY <1>1, <3>1 DEF Outside
    <3>2. CASE j # i
      BY <1>2, <1>3, <1>5, <2>1, <3>2 DEF Outside
    <3> QED  BY <3>1, <3>2
  <2>2. \A j \in Items : Queued(j) /\ item'[j] = "stored" => item[j] = "stored"
    BY <1>3
  <2> QED  BY <1>2, <2>1, <2>2, OwedAlone
<1> QED  BY <1>6, <1>7, <1>8, <1>9, <1>10, <1>11, <1>12, <1>13 DEF PreprocessorInv

\* Items that are stored, or go, where they are.
LEMMA Settles ==
  ASSUME PreprocessorInv, UNCHANGED <<hidden, waitQueue, chain, instance, main, owed>>,
         mishaps \subseteq mishaps',
         item' \in [Items -> {"new", "inserted", "stored", "gone"}],
         \A i \in Items : \/ item'[i] = item[i]
                          \/ /\ item[i] \in {"inserted", "stored"}
                             /\ item'[i] \in {"stored", "gone"},
         \A c \in Connections : conn'[c].item = conn[c].item
  PROVE  PlacesApart' /\ ChainSound' /\ AskSound' /\ RestSound' /\ OwedSound'
<1>1. ChainSound' /\ AskSound' /\ RestSound' /\ \A i : Queued(i)' <=> Queued(i)
  BY ChainAlone
<1>2. PlacesApart'
  <2>1. \A i \in Items : item'[i] = "new" => item[i] = "new"
    OBVIOUS
  <2> QED  BY <1>1, <2>1 DEF PreprocessorInv, PlacesApart
<1>3. OwedSound'
  <2>1. \A i \in Items : Outside(i)' => Outside(i)
    BY DEF Outside
  <2> QED  BY <2>1, OwedAlone
<1> QED  BY <1>1, <1>2, <1>3

\* The append commits: its item is stored, or waits for the transaction.
LEMMA CommitAppendKeeps ==
  ASSUME PreprocessorInv, NEW c \in Connections, CommitAppend(c)
  PROVE  PreprocessorInv'
<1>1. /\ TypeOK /\ ConnSound /\ PlacesApart /\ WaitSound /\ InsertedKnown /\ NoItemForgotten
      /\ item \in [Items -> {"new", "inserted", "stored", "gone"}]
      /\ conn \in [Connections -> Conn] /\ conn[c].at = "inserted"
      /\ connected \subseteq Connections /\ conn[c] \in Conn /\ signals \in Seq(Signal)
  BY DEF PreprocessorInv, TypeOK, CommitAppend
<1>2. UNCHANGED <<hidden, waitQueue, connected, chain, instance, main, owed, faults, mishaps>>
  BY DEF CommitAppend
<1>3. /\ \A d \in Connections :
           /\ conn[d].item \in Items \cup {NoItem} /\ conn[d].inserted \subseteq Items
           /\ Elements(waitQueue[d]) \subseteq Items
      /\ \A j : Queued(j) => j \in Items
      /\ NoItem \notin Items
  BY <1>1, PartTypes
<1>4. CASE conn[c].transaction
  <2>1. item' = item /\ signals' = signals /\ conn' = [conn EXCEPT ![c].at = "committed"]
    BY <1>4 DEF CommitAppend
  <2>2. /\ conn' \in [Connections -> Conn] /\ conn'[c].at = "committed"
        /\ \A d \in Connections : d # c => conn'[d].at = conn[d].at
        /\ \A d \in Connections : /\ conn'[d].item = conn[d].item
                                  /\ conn'[d].inserted = conn[d].inserted
                                  /\ conn'[d].transaction = conn[d].transaction
    BY <1>1, <2>1 DEF Conn
  <2>3. PlacesApart' /\ ChainSound' /\ AskSound' /\ RestSound' /\ OwedSound'
    BY <1>1, <1>2, <2>1, <2>2, Settles
  <2>4. TypeOK'
    BY <1>1, <1>2, <2>1, <2>2 DEF TypeOK
  <2>5. ConnSound'
    <3>1. \A d \in Connections : conn'[d].at = "idle" <=> conn[d].at = "idle"
      BY <1>1, <2>2
    <3>2. \A d \in Connections : ~conn[d].transaction => conn'[d].at = conn[d].at
      BY <1>4, <2>2
    <3> SUFFICES ASSUME NEW d \in Connections
                 PROVE  /\ conn'[d].at = "idle" <=> conn'[d].item = NoItem
                        /\ \A j \in conn'[d].inserted : item[j] = "inserted"
                        /\ \A e \in Connections \ {d} : conn'[d].inserted \cap conn'[e].inserted = {}
                        /\ IF conn'[d].transaction
                           THEN conn'[d].at # "idle" => conn'[d].item \in conn'[d].inserted
                           ELSE /\ conn'[d].inserted
                                     = IF conn'[d].at = "inserted" THEN {conn'[d].item} ELSE {}
                                /\ conn'[d].at = "committed" => item[conn'[d].item] \in {"stored", "gone"}
      BY <2>1 DEF ConnSound
    <3>3. /\ conn[d].at = "idle" <=> conn[d].item = NoItem
          /\ \A j \in conn[d].inserted : item[j] = "inserted"
          /\ \A e \in Connections \ {d} : conn[d].inserted \cap conn[e].inserted = {}
          /\ IF conn[d].transaction
             THEN conn[d].at # "idle" => conn[d].item \in conn[d].inserted
             ELSE /\ conn[d].inserted = IF conn[d].at = "inserted" THEN {conn[d].item} ELSE {}
                  /\ conn[d].at = "committed" => item[conn[d].item] \in {"stored", "gone"}
      BY <1>1 DEF ConnSound
    <3> QED  BY <2>2, <3>1, <3>2, <3>3
  <2>6. \A d : (Closed(d) => Closed(d)') /\ (NoSignal(d)' <=> NoSignal(d))
    BY <1>2, <2>1 DEF Closed, First, NoSignal
  <2>7. WaitSound'
    <3>1. \A d \in Connections : Open(d) => Open(d)'
      BY <1>2, <2>2, <2>6 DEF Open
    <3>2. \A i : Queued(i)' <=> Queued(i)
      BY <1>2 DEF Queued
    <3> QED  BY <1>1, <1>2, <2>1, <2>6, <3>1, <3>2 DEF WaitSound
  <2>8. InsertedKnown'
    BY <1>1, <1>2, <2>2, <2>6 DEF InsertedKnown
  <2>9. NoItemForgotten'
    BY <1>1, <1>2, <2>1, <2>2 DEF NoItemForgotten
  <2> QED  BY <2>3, <2>4, <2>5, <2>7, <2>8, <2>9 DEF PreprocessorInv
<1>5. CASE ~conn[c].transaction
  <2>1. /\ Stored(c, "stored") /\ Emit(c, "transactionCommitted")
        /\ conn' = [conn EXCEPT ![c].at = "committed", ![c].inserted = {}]
    BY <1>5 DEF CommitAppend
  <2>2. /\ conn' \in [Connections -> Conn] /\ conn'[c].at = "committed"
        /\ conn'[c].inserted = {} /\ conn'[c].transaction = conn[c].transaction
        /\ conn'[c].item = conn[c].item
        /\ \A d \in Connections \ {c} : conn'[d] = conn[d]
        /\ \A d \in Connections : conn'[d].item = conn[d].item
    BY <1>1, <2>1 DEF Conn
  <2>3. conn[c].inserted = {conn[c].item} /\ conn[c].item \in Items
    <3>1. conn[c].inserted = {conn[c].item}
      BY <1>1, <1>5 DEF ConnSound
    <3> QED  BY <1>3, <3>1
  <2>4. /\ item' \in [Items -> {"new", "inserted", "stored", "gone"}]
        /\ item[conn[c].item] = "inserted" /\ item'[conn[c].item] = "stored"
        /\ \A i \in Items : i # conn[c].item => item'[i] = item[i]
    BY <2>1, <2>3, StoredDoes
  <2>5. /\ signals' \in Seq(Signal)
        /\ \A n \in DOMAIN signals : n \in DOMAIN signals' /\ signals'[n] = signals[n]
        /\ \A d, n : First(d, n) => First(d, n)'
        /\ \A d : d # c /\ NoSignal(d) => NoSignal(d)'
    BY <1>1, <2>1, EmitDoes
  <2>6. PlacesApart' /\ ChainSound' /\ AskSound' /\ RestSound' /\ OwedSound'
    BY <1>2, <2>2, <2>4, Settles
  <2>7. TypeOK'
    BY <1>1, <1>2, <2>2, <2>4, <2>5 DEF TypeOK
  <2>8. ConnSound'
    <3> SUFFICES ASSUME NEW d \in Connections
                 PROVE  /\ conn'[d].at = "idle" <=> conn'[d].item = NoItem
                        /\ \A j \in conn'[d].inserted : item'[j] = "inserted"
                        /\ \A e \in Connections \ {d} : conn'[d].inserted \cap conn'[e].inserted = {}
                        /\ IF conn'[d].transaction
                           THEN conn'[d].at # "idle" => conn'[d].item \in conn'[d].inserted
                           ELSE /\ conn'[d].inserted
                                     = IF conn'[d].at = "inserted" THEN {conn'[d].item} ELSE {}
                                /\ conn'[d].at = "committed" => item'[conn'[d].item] \in {"stored", "gone"}
      BY DEF ConnSound
    <3>1. CASE d = c
      BY <1>3, <1>5, <2>2, <2>3, <2>4, <3>1
    <3>2. CASE d # c
      <4>1. /\ conn[d].at = "idle" <=> conn[d].item = NoItem
            /\ \A j \in conn[d].inserted : item[j] = "inserted" /\ j # conn[c].item /\ j \in Items
            /\ \A e \in Connections \ {d} : conn[d].inserted \cap conn[e].inserted = {}
            /\ IF conn[d].transaction
               THEN conn[d].at # "idle" => conn[d].item \in conn[d].inserted
               ELSE /\ conn[d].inserted = IF conn[d].at = "inserted" THEN {conn[d].item} ELSE {}
                    /\ conn[d].at = "committed" => item[conn[d].item] \in {"stored", "gone"}
            /\ conn[d].at = "committed" => conn[d].item \in Items
        BY <1>1, <1>3, <2>3, <3>2 DEF ConnSound
      <4>2. \A e \in Connections \ {d} : conn'[e].inserted \subseteq conn[e].inserted
        BY <2>2
      <4>3. conn'[d] = conn[d]
        BY <2>2, <3>2
      <4>4. conn[d].at = "committed" /\ ~conn[d].transaction =>
              item'[conn[d].item] \in {"stored", "gone"}
        BY <2>4, <4>1
      <4>5. \A e \in Connections \ {d} : conn'[d].inserted \cap conn'[e].inserted = {}
        BY <4>1, <4>2, <4>3
      <4>6. \A j \in conn'[d].inserted : item'[j] = "inserted"
        BY <2>4, <4>1, <4>3
      <4> QED  BY <4>1, <4>3, <4>4, <4>5, <4>6
    <3> QED  BY <3>1, <3>2
  <2>9. WaitSound'
    <3>1. \A d \in Connections : conn[c].item \notin Elements(waitQueue[d]) /\ ~Queued(conn[c].item)
      BY <1>1 DEF PlacesApart
    <3>2. ASSUME NEW d \in Connections, Open(d) PROVE Open(d)'
      BY <1>2, <1>5, <2>2, <2>5, <3>2 DEF Open
    <3>3. ASSUME NEW d \in Connections, Closed(d) PROVE Closed(d)'
      <4>1. \A i \in Elements(waitQueue[d]) : item'[i] = item[i]
        BY <1>3, <2>4, <3>1
      <4> QED  BY <1>2, <2>5, <3>3, <4>1, ClosedStays
    <3>4. \A i \in Items : Queued(i)' => Queued(i) /\ item'[i] = item[i]
      BY <1>2, <2>4, <3>1 DEF Queued
    <3> QED  BY <1>1, <1>2, <3>2, <3>3, <3>4 DEF WaitSound
  <2>10. InsertedKnown'
    BY <1>1, <1>2, <1>5, <2>2, <2>5 DEF InsertedKnown
  <2>11. NoItemForgotten'
    <3> SUFFICES ASSUME mishaps \cap {"inactive", "overlap", "leaked", "deadlock"} = {},
                        NEW i \in hidden, item'[i] = "stored"
                 PROVE  \/ \E d \in Connections :
                             \/ conn'[d].item = i
                             \/ /\ i \in Elements(waitQueue[d]) /\ d \in connected
                                /\ \E n \in DOMAIN signals' : signals'[n].of = d
                        \/ \E p \in Elements(chain) : i \in Elements(instance[p].queue)
      BY <1>2 DEF NoItemForgotten
    <3>1. CASE i = conn[c].item
      BY <2>2, <3>1
    <3>2. CASE i # conn[c].item
      <4>1. item[i] = "stored"
        BY <1>1, <2>4, <3>2 DEF TypeOK
      <4>2. \/ \E d \in Connections :
                 \/ conn[d].item = i
                 \/ /\ i \in Elements(waitQueue[d]) /\ d \in connected
                    /\ \E n \in DOMAIN signals : signals[n].of = d
            \/ \E p \in Elements(chain) : i \in Elements(instance[p].queue)
        BY <1>1, <4>1 DEF NoItemForgotten
      <4> QED  BY <2>2, <2>5, <4>2
    <3> QED  BY <3>1, <3>2
  <2> QED  BY <2>6, <2>7, <2>8, <2>9, <2>10, <2>11 DEF PreprocessorInv
<1> QED  BY <1>1, <1>4, <1>5

\* A client begins a transaction: nothing is inserted in it yet.
LEMMA BeginKeeps ==
  ASSUME PreprocessorInv, NEW c \in Connections, Begin(c)
  PROVE  PreprocessorInv'
<1>1. /\ TypeOK /\ ConnSound /\ WaitSound /\ InsertedKnown /\ NoItemForgotten
      /\ item \in [Items -> {"new", "inserted", "stored", "gone"}]
      /\ conn \in [Connections -> Conn] /\ conn[c].at = "idle" /\ ~conn[c].transaction
  BY DEF PreprocessorInv, TypeOK, Begin
<1>2. /\ UNCHANGED <<item, hidden, waitQueue, connected, signals, chain, instance, main,
                     owed, faults, mishaps>>
      /\ conn' = [conn EXCEPT ![c].transaction = TRUE]
  BY DEF Begin
<1>3. /\ conn' \in [Connections -> Conn]
      /\ \A d \in Connections \ {c} : conn'[d] = conn[d]
      /\ \A d \in Connections : /\ conn'[d].at = conn[d].at /\ conn'[d].item = conn[d].item
                                /\ conn'[d].inserted = conn[d].inserted
  BY <1>1, <1>2 DEF Conn
<1>4. conn[c].inserted = {}
  BY <1>1 DEF ConnSound
<1>5. PlacesApart' /\ ChainSound' /\ AskSound' /\ RestSound' /\ OwedSound'
  BY <1>1, <1>2, <1>3, Settles
<1>6. TypeOK'
  BY <1>1, <1>2, <1>3 DEF TypeOK
<1>7. ConnSound'
  <2> SUFFICES ASSUME NEW d \in Connections
               PROVE  /\ conn'[d].at = "idle" <=> conn'[d].item = NoItem
                      /\ \A j \in conn'[d].inserted : item[j] = "inserted"
                      /\ \A e \in Connections \ {d} : conn'[d].inserted \cap conn'[e].inserted = {}
                      /\ IF conn'[d].transaction
                         THEN conn'[d].at # "idle" => conn'[d].item \in conn'[d].inserted
                         ELSE /\ conn'[d].inserted
                                   = IF conn'[d].at = "inserted" THEN {conn'[d].item} ELSE {}
                              /\ conn'[d].at = "committed" => item[conn'[d].item] \in {"stored", "gone"}
    BY <1>2 DEF ConnSound
  <2>1. /\ conn[d].at = "idle" <=> conn[d].item = NoItem
        /\ \A j \in conn[d].inserted : item[j] = "inserted"
        /\ \A e \in Connections \ {d} : conn[d].inserted \cap conn[e].inserted = {}
        /\ IF conn[d].transaction
           THEN conn[d].at # "idle" => conn[d].item \in conn[d].inserted
           ELSE /\ conn[d].inserted = IF conn[d].at = "inserted" THEN {conn[d].item} ELSE {}
                /\ conn[d].at = "committed" => item[conn[d].item] \in {"stored", "gone"}
    BY <1>1 DEF ConnSound
  <2>2. CASE d = c
    BY <1>1, <1>3, <2>1, <2>2
  <2>3. CASE d # c
    BY <1>3, <2>1, <2>3
  <2> QED  BY <2>2, <2>3
<1>8. WaitSound'
  <2>1. \A d \in Connections : Open(d) => Open(d)'
    BY <1>1, <1>2, <1>3 DEF Open, NoSignal
  <2>2. \A d : Closed(d) => Closed(d)'
    BY <1>2 DEF Closed, First
  <2>3. \A i : Queued(i)' <=> Queued(i)
    BY <1>2 DEF Queued
  <2>4. connected \subseteq Connections
    BY <1>1 DEF TypeOK
  <2> QED  BY <1>1, <1>2, <2>1, <2>2, <2>3, <2>4 DEF WaitSound
<1>9. InsertedKnown'
  <2>1. \A d : NoSignal(d)' <=> NoSignal(d)
    BY <1>2 DEF NoSignal
  <2>2. \A d \in Connections : conn'[d].transaction => conn[d].transaction \/ d = c
    BY <1>3
  <2> QED  BY <1>1, <1>2, <1>3, <1>4, <2>1, <2>2 DEF InsertedKnown
<1>10. NoItemForgotten'
  BY <1>1, <1>2, <1>3 DEF NoItemForgotten
<1> QED  BY <1>5, <1>6, <1>7, <1>8, <1>9, <1>10 DEF PreprocessorInv

\* A transaction is over: what it has inserted is stored, or gone.
LEMMA TransactionOver ==
  ASSUME PreprocessorInv, NEW c \in Connections, NEW state \in {"stored", "gone"},
         Stored(c, state), conn[c].at = "idle",
         conn' = [conn EXCEPT ![c].transaction = FALSE, ![c].inserted = {}],
         UNCHANGED <<hidden, waitQueue, chain, instance, main, owed>>,
         mishaps \subseteq mishaps'
  PROVE  /\ conn' \in [Connections -> Conn]
         /\ item' \in [Items -> {"new", "inserted", "stored", "gone"}]
         /\ \A i \in conn[c].inserted :
              i \in Items /\ item[i] = "inserted" /\ item'[i] = state
         /\ \A i \in Items : i \notin conn[c].inserted => item'[i] = item[i]
         /\ ~conn'[c].transaction /\ conn'[c].inserted = {} /\ conn[c].item = NoItem
         /\ \A d \in Connections \ {c} : conn'[d] = conn[d]
         /\ \A d \in Connections : conn'[d].item = conn[d].item
         /\ ConnSound' /\ PlacesApart' /\ ChainSound' /\ AskSound' /\ RestSound' /\ OwedSound'
<1>1. /\ TypeOK /\ ConnSound /\ conn \in [Connections -> Conn] /\ conn[c].item = NoItem
      /\ item \in [Items -> {"new", "inserted", "stored", "gone"}]
  BY DEF PreprocessorInv, TypeOK, ConnSound
<1>2. /\ conn' \in [Connections -> Conn]
      /\ ~conn'[c].transaction /\ conn'[c].inserted = {} /\ conn'[c].at = "idle"
      /\ \A d \in Connections \ {c} : conn'[d] = conn[d]
      /\ \A d \in Connections : conn'[d].item = conn[d].item
  BY <1>1 DEF Conn
<1>3. /\ item' \in [Items -> {"new", "inserted", "stored", "gone"}]
      /\ \A i \in conn[c].inserted : item[i] = "inserted" /\ item'[i] = state
      /\ \A i \in Items : i \notin conn[c].inserted => item'[i] = item[i]
  BY StoredDoes
<1>4. \A d \in Connections : conn[d].inserted \subseteq Items /\ conn[d].item \in Items \cup {NoItem}
  BY <1>1, PartTypes
<1>5. PlacesApart' /\ ChainSound' /\ AskSound' /\ RestSound' /\ OwedSound'
  <2>1. \A i \in Items : \/ item'[i] = item[i]
                         \/ item[i] \in {"inserted", "stored"} /\ item'[i] \in {"stored", "gone"}
    BY <1>3
  <2> QED  BY <1>2, <1>3, <2>1, Settles
<1>6. ConnSound'
  <2> SUFFICES ASSUME NEW d \in Connections
               PROVE  /\ conn'[d].at = "idle" <=> conn'[d].item = NoItem
                      /\ \A j \in conn'[d].inserted : item'[j] = "inserted"
                      /\ \A e \in Connections \ {d} : conn'[d].inserted \cap conn'[e].inserted = {}
                      /\ IF conn'[d].transaction
                         THEN conn'[d].at # "idle" => conn'[d].item \in conn'[d].inserted
                         ELSE /\ conn'[d].inserted
                                   = IF conn'[d].at = "inserted" THEN {conn'[d].item} ELSE {}
                              /\ conn'[d].at = "committed" => item'[conn'[d].item] \in {"stored", "gone"}
    BY DEF ConnSound
  <2>1. CASE d = c
    BY <1>1, <1>2, <2>1
  <2>2. CASE d # c
    <3>1. /\ conn[d].at = "idle" <=> conn[d].item = NoItem
          /\ \A j \in conn[d].inserted : item[j] = "inserted"
          /\ \A e \in Connections \ {d} : conn[d].inserted \cap conn[e].inserted = {}
          /\ IF conn[d].transaction
             THEN conn[d].at # "idle" => conn[d].item \in conn[d].inserted
             ELSE /\ conn[d].inserted = IF conn[d].at = "inserted" THEN {conn[d].item} ELSE {}
                  /\ conn[d].at = "committed" => item[conn[d].item] \in {"stored", "gone"}
          /\ conn[d].at = "committed" => conn[d].item \in Items
      BY <1>1, <1>4 DEF ConnSound
    <3>2. conn'[d] = conn[d] /\ \A e \in Connections \ {d} : conn'[e].inserted \subseteq conn[e].inserted
      BY <1>2, <2>2
    <3>3. \A j \in conn[d].inserted : item'[j] = "inserted"
      BY <1>3, <1>4, <2>2, <3>1
    <3>4. conn[d].at = "committed" /\ ~conn[d].transaction => item'[conn[d].item] \in {"stored", "gone"}
      BY <1>3, <3>1
    <3>5. \A e \in Connections \ {d} : conn'[d].inserted \cap conn'[e].inserted = {}
      BY <3>1, <3>2
    <3>6. \A j \in conn'[d].inserted : item'[j] = "inserted"
      BY <3>2, <3>3
    <3>7. conn'[d] = conn[d]
      BY <3>2
    <3>8. conn[d].at = "idle" <=> conn[d].item = NoItem
      BY <3>1
    <3>9. CASE conn[d].transaction
      BY <3>1, <3>5, <3>6, <3>7, <3>8, <3>9
    <3>10. CASE ~conn[d].transaction
      <4>1. conn[d].inserted = IF conn[d].at = "inserted" THEN {conn[d].item} ELSE {}
        BY <3>1, <3>10
      <4> QED  BY <3>4, <3>5, <3>6, <3>7, <3>8, <3>10, <4>1
    <3> QED  BY <3>9, <3>10
  <2> QED  BY <2>1, <2>2
<1> QED  BY <1>1, <1>2, <1>3, <1>4, <1>5, <1>6

\* The transaction of a client ends: its signal tells what became of the items in
\* the wait queue.
LEMMA EndKeeps ==
  ASSUME PreprocessorInv, NEW c \in Connections, Commit(c) \/ RollBack(c)
  PROVE  PreprocessorInv'
<1>1. /\ TypeOK /\ WaitSound /\ InsertedKnown /\ NoItemForgotten
      /\ connected \subseteq Connections
      /\ item \in [Items -> {"new", "inserted", "stored", "gone"}]
  BY DEF PreprocessorInv, TypeOK
<1>2. PICK state \in {"stored", "gone"},
           signal \in {"transactionCommitted", "transactionRolledBack"} :
        End(c, state, signal) /\ (signal = "transactionRolledBack" => state = "gone")
  BY DEF Commit, RollBack
<1>3. /\ conn[c].at = "idle" /\ conn[c].transaction
      /\ conn' = [conn EXCEPT ![c].transaction = FALSE, ![c].inserted = {}]
      /\ Stored(c, state) /\ Emit(c, signal)
      /\ UNCHANGED <<hidden, waitQueue, connected, chain, instance, main, owed, faults, mishaps>>
  BY <1>2 DEF End
<1>4. /\ conn' \in [Connections -> Conn]
      /\ item' \in [Items -> {"new", "inserted", "stored", "gone"}]
      /\ \A i \in conn[c].inserted :
           i \in Items /\ item[i] = "inserted" /\ item'[i] = state
      /\ \A i \in Items : i \notin conn[c].inserted => item'[i] = item[i]
      /\ ~conn'[c].transaction /\ conn'[c].inserted = {} /\ conn[c].item = NoItem
      /\ \A d \in Connections \ {c} : conn'[d] = conn[d]
      /\ \A d \in Connections : conn'[d].item = conn[d].item
      /\ ConnSound' /\ PlacesApart' /\ ChainSound' /\ AskSound' /\ RestSound' /\ OwedSound'
  BY <1>3, TransactionOver
<1>5. /\ signals' \in Seq(Signal)
      /\ \A n \in DOMAIN signals : n \in DOMAIN signals' /\ signals'[n] = signals[n]
      /\ \A d, n : First(d, n) => First(d, n)'
      /\ \A d : d # c /\ NoSignal(d) => NoSignal(d)'
      /\ c \in connected =>
           /\ \E n \in DOMAIN signals' : signals'[n].of = c
           /\ NoSignal(c) => \E n \in DOMAIN signals' : First(c, n)' /\ signals'[n].is = signal
  BY <1>1, <1>3, EmitDoes
<1>6. /\ \A d \in Connections : Elements(waitQueue[d]) \subseteq Items
      /\ \A i : Queued(i) => i \in Items
      /\ NoItem \notin Items
  BY <1>1, PartTypes
<1>7. TypeOK'
  BY <1>1, <1>3, <1>4, <1>5 DEF TypeOK
<1>8. WaitSound'
  <2>1. ASSUME NEW d \in connected, Closed(d) PROVE Closed(d)'
    <3>1. d \in Connections
      BY <1>1
    <3>2. \A i \in Elements(waitQueue[d]) :
            item[i] \in {"stored", "gone"} => item'[i] \in {item[i], "gone"}
      BY <1>4, <1>6, <3>1
    <3> QED  BY <1>3, <1>5, <2>1, <3>2, ClosedStays
  <2>2. ASSUME NEW d \in connected, Open(d) PROVE Open(d)' \/ Closed(d)'
    <3>1. CASE d = c
      <4>1. \A i \in Elements(waitQueue[c]) : item'[i] = state
        BY <1>4, <2>2, <3>1 DEF Open
      <4>2. PICK n \in DOMAIN signals' : First(c, n)' /\ signals'[n].is = signal
        BY <1>5, <2>2, <3>1 DEF Open
      <4>3. Closed(c)'
        BY <1>2, <1>3, <4>1, <4>2 DEF Closed
      <4> QED  BY <3>1, <4>3
    <3>2. CASE d # c
      BY <1>1, <1>3, <1>4, <1>5, <2>2, <3>2 DEF Open
    <3> QED  BY <3>1, <3>2
  <2>3. ASSUME NEW i \in Items, Queued(i)', item[i] \in {"stored", "gone"}
        PROVE  item'[i] \in {"stored", "gone"}
    BY <1>4, <2>3
  <2>4. \A i : Queued(i)' <=> Queued(i)
    BY <1>3 DEF Queued
  <2> QED  BY <1>1, <1>3, <2>1, <2>2, <2>3, <2>4 DEF WaitSound
<1>9. InsertedKnown'
  BY <1>1, <1>3, <1>4, <1>5 DEF InsertedKnown
<1>10. NoItemForgotten'
  <2> SUFFICES ASSUME mishaps \cap {"inactive", "overlap", "leaked", "deadlock"} = {},
                      NEW i \in hidden, item'[i] = "stored"
               PROVE  \/ \E d \in Connections :
                           \/ conn'[d].item = i
                           \/ /\ i \in Elements(waitQueue[d]) /\ d \in connected
                              /\ \E n \in DOMAIN signals' : signals'[n].of = d
                      \/ \E p \in Elements(chain) : i \in Elements(instance[p].queue)
    BY <1>3 DEF NoItemForgotten
  <2>1. i \in Items /\ mishaps \cap {"inactive", "overlap", "leaked"} = {}
    BY <1>1 DEF TypeOK
  <2>2. CASE i \in conn[c].inserted
    <3>1. i \in Elements(waitQueue[c]) /\ NoSignal(c)
      BY <1>1, <1>3, <1>4, <1>6, <2>1, <2>2 DEF InsertedKnown
    <3>2. waitQueue[c] # <<>>
      BY <3>1 DEF Elements
    <3>3. c \in connected
      BY <1>1, <2>1, <3>2 DEF WaitSound
    <3> QED  BY <1>5, <3>1, <3>3
  <2>3. CASE i \notin conn[c].inserted
    <3>1. item[i] = "stored"
      BY <1>4, <2>1, <2>3
    <3>2. \/ \E d \in Connections :
               \/ conn[d].item = i
               \/ /\ i \in Elements(waitQueue[d]) /\ d \in connected
                  /\ \E n \in DOMAIN signals : signals[n].of = d
          \/ \E p \in Elements(chain) : i \in Elements(instance[p].queue)
      BY <1>1, <3>1 DEF NoItemForgotten
    <3> QED  BY <1>4, <1>5, <3>2
  <2> QED  BY <2>2, <2>3
<1> QED  BY <1>4, <1>7, <1>8, <1>9, <1>10 DEF PreprocessorInv

\* A connection ends: what it has inserted goes, and its signals are not heard.
LEMMA CloseKeeps ==
  ASSUME PreprocessorInv, NEW c \in Connections, Close(c)
  PROVE  PreprocessorInv'
<1>1. /\ TypeOK /\ WaitSound /\ InsertedKnown /\ NoItemForgotten
      /\ connected \subseteq Connections /\ faults \in 0..MaxFaults
      /\ item \in [Items -> {"new", "inserted", "stored", "gone"}]
  BY DEF PreprocessorInv, TypeOK
<1>2. /\ conn[c].at = "idle" /\ faults < MaxFaults /\ faults' = faults + 1
      /\ conn' = [conn EXCEPT ![c].transaction = FALSE, ![c].inserted = {}]
      /\ Stored(c, "gone") /\ connected' = connected \ {c}
      /\ mishaps' = mishaps \cup (IF waitQueue[c] # <<>> THEN {"leaked"} ELSE {})
      /\ UNCHANGED <<hidden, waitQueue, signals, chain, instance, main, owed>>
  BY DEF Close, Fault
<1>3. mishaps \subseteq mishaps' /\ mishaps' \subseteq mishaps \cup {"leaked"}
  BY <1>2
<1>4. /\ conn' \in [Connections -> Conn]
      /\ item' \in [Items -> {"new", "inserted", "stored", "gone"}]
      /\ \A i \in conn[c].inserted :
           i \in Items /\ item[i] = "inserted" /\ item'[i] = "gone"
      /\ \A i \in Items : i \notin conn[c].inserted => item'[i] = item[i]
      /\ ~conn'[c].transaction /\ conn'[c].inserted = {} /\ conn[c].item = NoItem
      /\ \A d \in Connections \ {c} : conn'[d] = conn[d]
      /\ \A d \in Connections : conn'[d].item = conn[d].item
      /\ ConnSound' /\ PlacesApart' /\ ChainSound' /\ AskSound' /\ RestSound' /\ OwedSound'
  <2>1. "gone" \in {"stored", "gone"}
    OBVIOUS
  <2> QED  BY <1>2, <1>3, <2>1, TransactionOver
<1>5. /\ \A d \in Connections : Elements(waitQueue[d]) \subseteq Items
      /\ \A i : Queued(i) => i \in Items
      /\ NoItem \notin Items
  BY <1>1, PartTypes
<1>6. TypeOK'
  <2>1. faults' \in 0..MaxFaults
    BY <1>1, <1>2, PreprocessorAssumption DEF PreprocessorAssumption
  <2>2. mishaps' \subseteq Mishap /\ connected' \subseteq Connections
    BY <1>1, <1>2, <1>3 DEF TypeOK, Mishap
  <2> QED  BY <1>1, <1>2, <1>4, <2>1, <2>2 DEF TypeOK
<1>7. \A d : NoSignal(d)' <=> NoSignal(d)
  BY <1>2 DEF NoSignal
<1>8. WaitSound'
  <2>1. ASSUME NEW d \in connected, Closed(d) PROVE Closed(d)'
    <3>1. \A i \in Elements(waitQueue[d]) :
            item[i] \in {"stored", "gone"} => item'[i] \in {item[i], "gone"}
      BY <1>1, <1>4, <1>5
    <3>2. \A n : First(d, n) => First(d, n)'
      BY <1>2 DEF First
    <3> QED  BY <1>2, <2>1, <3>1, <3>2, ClosedStays
  <2>2. \A d \in connected' : Open(d) => Open(d)'
    BY <1>1, <1>2, <1>4, <1>7 DEF Open
  <2>3. \A i \in Items : item[i] \in {"stored", "gone"} => item'[i] \in {"stored", "gone"}
    BY <1>4
  <2>4. \A i : Queued(i)' <=> Queued(i)
    BY <1>2 DEF Queued
  <2>5. \A d \in Connections : waitQueue[d] # <<>> => d \in connected' \/ "leaked" \in mishaps'
    BY <1>1, <1>2, <1>3 DEF WaitSound
  <2>6. "overlap" \notin mishaps' => "overlap" \notin mishaps
    BY <1>3
  <2>7. connected' \subseteq connected
    BY <1>2
  <2> QED  BY <1>1, <1>2, <2>1, <2>2, <2>3, <2>4, <2>5, <2>6, <2>7 DEF WaitSound
<1>9. InsertedKnown'
  <2>1. mishaps' \cap {"inactive", "overlap", "leaked"} = {}
          => mishaps \cap {"inactive", "overlap", "leaked"} = {}
    BY <1>3
  <2> QED  BY <1>1, <1>2, <1>4, <1>7, <2>1 DEF InsertedKnown
<1>10. NoItemForgotten'
  <2> SUFFICES ASSUME mishaps' \cap {"inactive", "overlap", "leaked", "deadlock"} = {},
                      NEW i \in hidden, item'[i] = "stored"
               PROVE  \/ \E d \in Connections :
                           \/ conn'[d].item = i
                           \/ /\ i \in Elements(waitQueue[d]) /\ d \in connected'
                              /\ \E n \in DOMAIN signals : signals[n].of = d
                      \/ \E p \in Elements(chain) : i \in Elements(instance[p].queue)
    BY <1>2 DEF NoItemForgotten
  <2>1. mishaps \cap {"inactive", "overlap", "leaked", "deadlock"} = {} /\ waitQueue[c] = <<>>
    BY <1>2
  <2>2. i \in Items /\ item[i] = "stored"
    BY <1>1, <1>4 DEF TypeOK
  <2>3. \/ \E d \in Connections :
             \/ conn[d].item = i
             \/ /\ i \in Elements(waitQueue[d]) /\ d \in connected
                /\ \E n \in DOMAIN signals : signals[n].of = d
        \/ \E p \in Elements(chain) : i \in Elements(instance[p].queue)
    BY <1>1, <2>1, <2>2 DEF NoItemForgotten
  <2>4. i \notin Elements(waitQueue[c])
    BY <2>1 DEF Elements
  <2> QED  BY <1>2, <1>4, <2>3, <2>4
<1> QED  BY <1>4, <1>6, <1>8, <1>9, <1>10 DEF PreprocessorInv

\* A stored item goes from where it is.
LEMMA RemoveItemKeeps ==
  ASSUME PreprocessorInv, NEW i \in Items, RemoveItem(i)
  PROVE  PreprocessorInv'
<1>1. /\ TypeOK /\ ConnSound /\ WaitSound /\ InsertedKnown /\ NoItemForgotten
      /\ connected \subseteq Connections /\ faults \in 0..MaxFaults
      /\ item \in [Items -> {"new", "inserted", "stored", "gone"}]
  BY DEF PreprocessorInv, TypeOK
<1>2. /\ item[i] = "stored" /\ faults < MaxFaults /\ faults' = faults + 1
      /\ item' = [item EXCEPT ![i] = "gone"]
      /\ UNCHANGED <<hidden, conn, waitQueue, connected, signals, chain, instance, main,
                     owed, mishaps>>
  BY DEF RemoveItem, Fault
<1>3. /\ item' \in [Items -> {"new", "inserted", "stored", "gone"}] /\ item'[i] = "gone"
      /\ \A j \in Items \ {i} : item'[j] = item[j]
  BY <1>1, <1>2
<1>4. /\ \A d \in Connections : /\ Elements(waitQueue[d]) \subseteq Items
                                /\ conn[d].inserted \subseteq Items
                                /\ conn[d].item \in Items \cup {NoItem}
      /\ \A j : Queued(j) => j \in Items
      /\ NoItem \notin Items
  BY <1>1, PartTypes
<1>5. PlacesApart' /\ ChainSound' /\ AskSound' /\ RestSound' /\ OwedSound'
  BY <1>2, <1>3, Settles
<1>6. TypeOK'
  <2>1. faults' \in 0..MaxFaults
    BY <1>1, <1>2, PreprocessorAssumption DEF PreprocessorAssumption
  <2> QED  BY <1>1, <1>2, <1>3, <2>1 DEF TypeOK
<1>7. ConnSound'
  <2>1. \A d \in Connections : \A j \in conn[d].inserted : item'[j] = "inserted"
    BY <1>1, <1>2, <1>3, <1>4 DEF ConnSound
  <2>2. \A j \in Items : item[j] \in {"stored", "gone"} => item'[j] \in {"stored", "gone"}
    BY <1>3
  <2>3. \A d \in Connections : conn[d].at = "committed" => conn[d].item \in Items
    BY <1>1, <1>4 DEF ConnSound
  <2> QED  BY <1>1, <1>2, <2>1, <2>2, <2>3 DEF ConnSound
<1>8. WaitSound'
  <2>1. ASSUME NEW d \in connected, Closed(d) PROVE Closed(d)'
    <3>1. \A j \in Elements(waitQueue[d]) :
            item[j] \in {"stored", "gone"} => item'[j] \in {item[j], "gone"}
      BY <1>1, <1>3, <1>4
    <3>2. \A n : First(d, n) => First(d, n)'
      BY <1>2 DEF First
    <3> QED  BY <1>2, <2>1, <3>1, <3>2, ClosedStays
  <2>2. \A d : Open(d) => Open(d)'
    BY <1>2 DEF Open, NoSignal
  <2>3. \A j \in Items : item[j] \in {"stored", "gone"} => item'[j] \in {"stored", "gone"}
    BY <1>3
  <2>4. \A j : Queued(j)' <=> Queued(j)
    BY <1>2 DEF Queued
  <2> QED  BY <1>1, <1>2, <2>1, <2>2, <2>3, <2>4 DEF WaitSound
<1>9. InsertedKnown'
  <2>1. \A d : NoSignal(d)' <=> NoSignal(d)
    BY <1>2 DEF NoSignal
  <2> QED  BY <1>1, <1>2, <2>1 DEF InsertedKnown
<1>10. NoItemForgotten'
  <2>1. \A j \in hidden : item'[j] = "stored" => item[j] = "stored"
    BY <1>1, <1>3 DEF TypeOK
  <2> QED  BY <1>1, <1>2, <2>1 DEF NoItemForgotten
<1> QED  BY <1>5, <1>6, <1>7, <1>8, <1>9, <1>10 DEF PreprocessorInv

-----------------------------------------------------------------------------
(* Steps between connections and the chain *)

\* Items enter the chain at its first instance; the main thread is not disturbed.
LEMMA ActivateAdds ==
  ASSUME PreprocessorInv, isActive, NEW list \in Seq(Items), Activate(list),
         UNCHANGED <<chain, main>>
  PROVE  /\ instance' \in [Preprocessors -> Instance]
         /\ owed' \in [Items -> SUBSET Preprocessors] /\ hidden' = hidden
         /\ mishaps \subseteq mishaps' /\ mishaps' \subseteq mishaps \cup {"deadlock"}
         /\ \A i : Queued(i)' <=> Queued(i) \/ i \in Elements(list)
         /\ \A r \in Elements(chain) : \A i \in Elements(instance'[r].queue) :
              i \in Elements(instance[r].queue) \/ (i \in Elements(list) /\ r = Head(chain))
         /\ \A i : (\E r \in Elements(chain) : i \in Elements(instance[r].queue)) \/ i \in Elements(list)
              => \E r \in Elements(chain) : i \in Elements(instance'[r].queue)
         /\ ChainSound' /\ AskSound' /\ RestSound'
<1>1. /\ TypeOK /\ instance \in [Preprocessors -> Instance]
      /\ owed \in [Items -> SUBSET Preprocessors]
      /\ Elements(chain) \subseteq Preprocessors
      /\ Nobody \notin Preprocessors
  BY ChainFacts, PreprocessorAssumption DEF PreprocessorInv, TypeOK, PreprocessorAssumption
<1>2. PICK p : p = Head(chain)
  OBVIOUS
<1>3. p \in Elements(chain) /\ p \in Preprocessors
  BY <1>1, <1>2, ChainFacts
<1>4. Enqueue(instance, p, list) /\ hidden' = hidden
  BY <1>2 DEF Activate
<1>5. /\ Added(instance, instance', p, list)
      /\ mishaps' = mishaps \/ mishaps' = mishaps \cup {"deadlock"}
      /\ "deadlock" \notin mishaps' /\ ~instance[p].busy =>
           instance'[p].busy \/ instance'[p].queue = instance[p].queue
  BY <1>1, <1>3, <1>4, EnqueueAdds
<1>6. owed' \in [Items -> SUBSET Preprocessors]
  BY <1>1 DEF Activate
<1>7. /\ instance' \in [Preprocessors -> Instance]
      /\ \A r \in Preprocessors \ {p} : instance'[r] = instance[r]
      /\ Elements(instance'[p].queue) = Elements(instance[p].queue) \cup Elements(list)
      /\ instance[p].queue # <<>> => instance'[p].queue # <<>>
  BY <1>5 DEF Added
<1>8. \A i : Queued(i)' <=> Queued(i) \/ i \in Elements(list)
  BY <1>3, <1>7 DEF Queued
<1>9. ChainSound'
  <2>1. \A r \in Preprocessors \ Elements(chain) : instance'[r] = instance[r]
    BY <1>3, <1>7
  <2>2. main.at = "head" => instance'[main.instance].queue # <<>>
    <3>1. main.at = "head" => main.instance \in Preprocessors /\ instance[main.instance].queue # <<>>
      BY <1>1 DEF PreprocessorInv, ChainSound
    <3> QED  BY <1>7, <3>1
  <2> QED  BY <1>1, <2>1, <2>2 DEF PreprocessorInv, ChainSound
<1>10. /\ RightlyAsked(instance[p]) => RightlyAsked(instance'[p])
       /\ instance[p].busy => instance'[p].busy /\ instance'[p].asked = instance[p].asked
       /\ RightlyAsked(instance[p]) /\ AtRest(instance[p])
            /\ (instance'[p].busy \/ instance'[p].queue = instance[p].queue) => AtRest(instance'[p])
  BY <1>1, <1>3, <1>5, AddedAsks
<1>11. main.at = "idle" => main.instance = Nobody
  BY DEF PreprocessorInv, ChainSound
<1>12. AskSound'
  <2> SUFFICES ASSUME "stale" \notin mishaps
               PROVE  /\ \A r \in Elements(chain) :
                           RightlyAsked(instance'[r]) /\ (r = main.instance => instance'[r].asked = <<>>)
                      /\ main.at # "idle" => instance'[main.instance].busy
    BY <1>5 DEF AskSound
  <2>1. /\ \A r \in Elements(chain) :
             RightlyAsked(instance[r]) /\ (r = main.instance => instance[r].asked = <<>>)
        /\ main.at # "idle" => instance[main.instance].busy /\ main.instance \in Elements(chain)
    BY DEF PreprocessorInv, AskSound, ChainSound
  <2>2. ASSUME NEW r \in Elements(chain)
        PROVE  RightlyAsked(instance'[r]) /\ (r = main.instance => instance'[r].asked = <<>>)
    <3>1. CASE r = p
      BY <1>1, <1>3, <1>10, <1>11, <2>1, <3>1
    <3>2. CASE r # p
      BY <1>1, <1>7, <2>1, <3>2
    <3> QED  BY <3>1, <3>2
  <2>3. main.at # "idle" => instance'[main.instance].busy
    BY <1>1, <1>7, <1>10, <2>1
  <2> QED  BY <2>2, <2>3
<1>13. RestSound'
  <2> SUFFICES ASSUME mishaps' \cap {"stalled", "stale", "deadlock"} = {},
                      NEW r \in Elements(chain), r # main.instance
               PROVE  AtRest(instance'[r])
    BY DEF RestSound
  <2>1. mishaps \cap {"stalled", "stale", "deadlock"} = {} /\ "deadlock" \notin mishaps'
    BY <1>5
  <2>2. AtRest(instance[r]) /\ RightlyAsked(instance[r])
    BY <2>1 DEF PreprocessorInv, RestSound, AskSound
  <2>3. CASE r = p
    <3>1. instance'[p].busy \/ instance'[p].queue = instance[p].queue
      BY <1>5, <1>10, <2>1
    <3> QED  BY <1>10, <2>2, <2>3, <3>1
  <2>4. CASE r # p
    BY <1>1, <1>7, <2>2, <2>4
  <2> QED  BY <2>3, <2>4
<1>14. /\ \A r \in Elements(chain) : \A i \in Elements(instance'[r].queue) :
            i \in Elements(instance[r].queue) \/ (i \in Elements(list) /\ r = p)
       /\ \A i : (\E r \in Elements(chain) : i \in Elements(instance[r].queue)) \/ i \in Elements(list)
            => \E r \in Elements(chain) : i \in Elements(instance'[r].queue)
  BY <1>1, <1>3, <1>7
<1> QED  BY <1>2, <1>4, <1>5, <1>6, <1>7, <1>8, <1>9, <1>12, <1>13, <1>14

\* Those that are hidden owe the whole chain then.
LEMMA ActivateOwes ==
  ASSUME PreprocessorInv, isActive, NEW list \in Seq(Items), Activate(list),
         UNCHANGED <<item, chain, main>>,
         \A i \in Elements(list) : ~Queued(i),
         mishaps \cap {"stale", "overlap"} = {} =>
           \A i \in Elements(list) : item[i] \in {"stored", "gone"},
         \A i \in Elements(list) : \A d \in Connections :
           conn'[d].item # i /\ i \notin Elements(waitQueue'[d]),
         \A i \in Items \ Elements(list) : Outside(i)' => Outside(i)
  PROVE  OwedSound'
<1>1. /\ TypeOK /\ Elements(chain) \subseteq Preprocessors
      /\ From(Head(chain)) = Elements(chain) /\ Head(chain) \in Elements(chain)
      /\ Elements(list) \subseteq Items
  <2>1. Elements(list) \subseteq Items
    BY ElementOfSeq DEF Elements
  <2> QED  BY <2>1, ChainFacts DEF PreprocessorInv
<1>2. /\ hidden' = hidden
      /\ mishaps \subseteq mishaps' /\ mishaps' \subseteq mishaps \cup {"deadlock"}
      /\ \A r \in Elements(chain) : \A i \in Elements(instance'[r].queue) :
           i \in Elements(instance[r].queue) \/ (i \in Elements(list) /\ r = Head(chain))
  BY ActivateAdds
<1>3. \A i \in Items : owed'[i] = IF i \in Elements(list) /\ i \in hidden
                                  THEN Elements(chain) ELSE owed[i]
  BY DEF Activate
<1>4. SUFFICES ASSUME mishaps \cap {"stale", "overlap"} = {}
               PROVE  /\ \A r \in Elements(chain) : \A i \in Elements(instance'[r].queue) :
                           item[i] = "stored" => owed'[i] \subseteq From(r)
                      /\ \A i \in Items : Outside(i)' => owed'[i] = {}
  <2>1. mishaps' \cap {"stale", "overlap"} = mishaps \cap {"stale", "overlap"}
    BY <1>2
  <2>2. \A r : From(r)' = From(r)
    BY DEF From
  <2> QED  BY <2>1, <2>2 DEF OwedSound
<1>5. /\ \A r \in Elements(chain) : \A i \in Elements(instance[r].queue) :
           i \in Items /\ Queued(i) /\ (item[i] = "stored" => owed[i] \subseteq From(r))
      /\ \A i \in Items : Outside(i) => owed[i] = {}
  <2>1. \A r \in Preprocessors : Elements(instance[r].queue) \subseteq Items
    BY <1>1, PartTypes
  <2> QED  BY <1>1, <1>4, <2>1 DEF PreprocessorInv, OwedSound, Queued
<1>6. ASSUME NEW r \in Elements(chain), NEW i \in Elements(instance'[r].queue),
             item[i] = "stored"
      PROVE  owed'[i] \subseteq From(r)
  <2>1. CASE i \in Elements(list)
    <3>1. r = Head(chain) /\ i \in Items
      BY <1>1, <1>2, <1>5, <1>6, <2>1
    <3>2. i \notin hidden => owed[i] = {}
      BY <1>5, <3>1 DEF Outside
    <3>3. From(r) = Elements(chain)
      BY <1>1, <3>1
    <3>4. owed'[i] = Elements(chain) \/ owed'[i] = {}
      BY <1>3, <2>1, <3>1, <3>2
    <3> QED  BY <3>3, <3>4
  <2>2. CASE i \notin Elements(list)
    BY <1>2, <1>3, <1>5, <1>6, <2>2
  <2> QED  BY <2>1, <2>2
<1>7. ASSUME NEW i \in Items, Outside(i)' PROVE owed'[i] = {}
  <2>1. CASE i \in Elements(list)
    <3>1. i \notin hidden
      BY <1>2, <1>4, <1>7, <2>1 DEF Outside
    <3> QED  BY <1>3, <1>5, <3>1 DEF Outside
  <2>2. CASE i \notin Elements(list)
    BY <1>3, <1>5, <1>7, <2>2
  <2> QED  BY <2>1, <2>2
<1> QED  BY <1>6, <1>7

\* The first signal is taken: the others are what they were.
LEMMA TailSignals ==
  ASSUME TypeOK, signals # <<>>, signals' = Tail(signals)
  PROVE  LET c == Head(signals).of IN
         /\ signals' \in Seq(Signal) /\ c \in Connections /\ ~NoSignal(c)
         /\ Head(signals).is \in {"transactionCommitted", "transactionRolledBack"}
         /\ \A d : NoSignal(d) => NoSignal(d)'
         /\ \A d : d # c => \A n : First(d, n) =>
              \E m \in DOMAIN signals' : First(d, m)' /\ signals'[m] = signals[n]
         /\ \A d : d # c /\ (\E n \in DOMAIN signals : signals[n].of = d)
              => \E n \in DOMAIN signals' : signals'[n].of = d
         /\ \A n : First(c, n) => signals[n] = Head(signals)
<1>0. PICK c : c = Head(signals).of
  OBVIOUS
<1>1. signals \in Seq(Signal) /\ Len(signals) \in Nat \ {0} /\ DOMAIN signals = 1..Len(signals)
      /\ Head(signals) = signals[1] /\ signals[1] \in Signal
  BY DEF TypeOK
<1>2. /\ signals' \in Seq(Signal) /\ DOMAIN signals' = 1..(Len(signals) - 1)
      /\ \A n \in 1..(Len(signals) - 1) : signals'[n] = signals[n + 1]
  BY <1>1
<1>3. signals[1].of = c /\ 1 \in DOMAIN signals
  BY <1>0, <1>1
<1>4. /\ \A n \in DOMAIN signals' : n \in Nat /\ n + 1 \in DOMAIN signals /\ signals'[n] = signals[n + 1]
      /\ \A n \in DOMAIN signals : n = 1 \/ (n - 1 \in DOMAIN signals' /\ signals'[n - 1] = signals[n])
  <2>1. \A n \in DOMAIN signals' : n \in Nat /\ n + 1 \in DOMAIN signals /\ signals'[n] = signals[n + 1]
    BY <1>1, <1>2
  <2>2. ASSUME NEW n \in DOMAIN signals, n # 1
        PROVE  n - 1 \in DOMAIN signals' /\ signals'[n - 1] = signals[n]
    <3>1. n - 1 \in 1..(Len(signals) - 1) /\ (n - 1) + 1 = n
      BY <1>1, <2>2
    <3> QED  BY <1>2, <3>1
  <2> QED  BY <2>1, <2>2
<1>5. ~NoSignal(c) /\ \A d : NoSignal(d) => NoSignal(d)'
  BY <1>3, <1>4 DEF NoSignal
<1>6. ASSUME NEW d, d # c, NEW n, First(d, n)
      PROVE  \E m \in DOMAIN signals' : First(d, m)' /\ signals'[m] = signals[n]
  <2>1. n \in DOMAIN signals /\ signals[n].of = d /\ \A m \in DOMAIN signals : m < n => signals[m].of # d
    BY <1>6 DEF First
  <2>2. n # 1
    BY <1>3, <1>6, <2>1
  <2>3. n - 1 \in DOMAIN signals' /\ signals'[n - 1] = signals[n]
    BY <1>4, <2>1, <2>2
  <2>4. \A m \in DOMAIN signals' : m < n - 1 => m + 1 < n
    BY <1>1, <1>4, <2>1
  <2>5. \A m \in DOMAIN signals' : m < n - 1 => signals'[m].of # d
    BY <1>4, <2>1, <2>4
  <2>6. First(d, n - 1)'
    BY <2>1, <2>3, <2>5 DEF First
  <2> QED  BY <2>3, <2>6
<1>7. \A d : d # c /\ (\E n \in DOMAIN signals : signals[n].of = d)
        => \E n \in DOMAIN signals' : signals'[n].of = d
  <2> SUFFICES ASSUME NEW d, d # c, NEW n \in DOMAIN signals, signals[n].of = d
               PROVE  \E m \in DOMAIN signals' : signals'[m].of = d
    OBVIOUS
  <2>1. n # 1
    BY <1>3
  <2>2. n - 1 \in DOMAIN signals' /\ signals'[n - 1] = signals[n]
    BY <1>4, <2>1
  <2> QED  BY <2>2
<1>8. ASSUME NEW n, First(c, n) PROVE signals[n] = Head(signals)
  <2>1. n \in DOMAIN signals /\ ~(1 < n)
    BY <1>3, <1>8 DEF First
  <2>2. n = 1
    BY <1>1, <2>1
  <2> QED  BY <1>1, <2>2
<1>9. c \in Connections /\ Head(signals).is \in {"transactionCommitted", "transactionRolledBack"}
  BY <1>0, <1>1 DEF Signal
<1> QED  BY <1>0, <1>2, <1>5, <1>6, <1>7, <1>8, <1>9

\* A connection lets go of its item.
LEMMA NotifyConnections ==
  ASSUME PreprocessorInv, NEW c \in Connections, Notify(c)
  PROVE  /\ conn' \in [Connections -> Conn] /\ conn[c].item \in Items
         /\ conn'[c].item = NoItem /\ \A d \in Connections \ {c} : conn'[d] = conn[d]
         /\ \A d \in Connections : /\ conn'[d].inserted = conn[d].inserted
                                   /\ conn'[d].transaction = conn[d].transaction
         /\ item[conn[c].item] # "new"
         /\ IF conn[c].transaction THEN conn[c].item \in conn[c].inserted
            ELSE item[conn[c].item] \in {"stored", "gone"}
         /\ ConnSound'
<1>1. /\ TypeOK /\ ConnSound /\ PlacesApart /\ conn \in [Connections -> Conn] /\ conn[c].at = "committed"
      /\ conn' = [conn EXCEPT ![c].at = "idle", ![c].item = NoItem] /\ item' = item
  BY DEF PreprocessorInv, TypeOK, Notify
<1>2. /\ conn' \in [Connections -> Conn] /\ conn'[c].at = "idle"
      /\ conn'[c].item = NoItem /\ \A d \in Connections \ {c} : conn'[d] = conn[d]
      /\ \A d \in Connections : /\ conn'[d].inserted = conn[d].inserted
                                /\ conn'[d].transaction = conn[d].transaction
  BY <1>1 DEF Conn
<1>3. /\ conn[c].item \in Items
      /\ IF conn[c].transaction THEN conn[c].item \in conn[c].inserted
         ELSE item[conn[c].item] \in {"stored", "gone"} /\ conn[c].inserted = {}
  BY <1>1, PartTypes DEF ConnSound
<1>4. item[conn[c].item] # "new"
  BY <1>1, <1>3 DEF PlacesApart
<1>5. ConnSound'
  <2> SUFFICES ASSUME NEW d \in Connections
               PROVE  /\ conn'[d].at = "idle" <=> conn'[d].item = NoItem
                      /\ \A j \in conn'[d].inserted : item'[j] = "inserted"
                      /\ \A e \in Connections \ {d} : conn'[d].inserted \cap conn'[e].inserted = {}
                      /\ IF conn'[d].transaction
                         THEN conn'[d].at # "idle" => conn'[d].item \in conn'[d].inserted
                         ELSE /\ conn'[d].inserted
                                   = IF conn'[d].at = "inserted" THEN {conn'[d].item} ELSE {}
                              /\ conn'[d].at = "committed" => item'[conn'[d].item] \in {"stored", "gone"}
    BY ZenonT(30) DEF ConnSound
  <2>0. item' = item
    BY <1>1
  <2>1. /\ conn[d].at = "idle" <=> conn[d].item = NoItem
        /\ \A j \in conn[d].inserted : item[j] = "inserted"
        /\ \A e \in Connections \ {d} : conn[d].inserted \cap conn[e].inserted = {}
        /\ IF conn[d].transaction
           THEN conn[d].at # "idle" => conn[d].item \in conn[d].inserted
           ELSE /\ conn[d].inserted = IF conn[d].at = "inserted" THEN {conn[d].item} ELSE {}
                /\ conn[d].at = "committed" => item[conn[d].item] \in {"stored", "gone"}
    BY <1>1 DEF ConnSound
  <2>4. \A e \in Connections \ {d} : conn'[d].inserted \cap conn'[e].inserted = {}
    BY <1>2, <2>1
  <2>5. \A j \in conn'[d].inserted : item'[j] = "inserted"
    BY <1>2, <2>0, <2>1
  <2>2. CASE d = c
    BY <1>2, <1>3, <2>2, <2>4, <2>5
  <2>3. CASE d # c
    <3>1. conn'[d] = conn[d]
      BY <1>2, <2>3
    <3> QED  BY <2>0, <2>1, <2>4, <2>5, <3>1
  <2> QED  BY <2>2, <2>3
<1> QED  BY <1>2, <1>3, <1>4, <1>5

\* The item is shown, waits for the transaction, or enters the chain.
LEMMA NotifyKeeps ==
  ASSUME PreprocessorInv, NEW c \in Connections, Notify(c)
  PROVE  PreprocessorInv'
<1>1. /\ TypeOK /\ ConnSound /\ PlacesApart /\ WaitSound /\ InsertedKnown /\ NoItemForgotten
      /\ connected \subseteq Connections /\ hidden \subseteq Items
      /\ waitQueue \in [Connections -> Seq(Items)]
      /\ UNCHANGED <<item, signals, chain, main, faults>>
  BY DEF PreprocessorInv, TypeOK, Notify
<1>2. PICK i : i = conn[c].item
  OBVIOUS
<1>3. /\ conn' \in [Connections -> Conn] /\ i \in Items
      /\ conn'[c].item = NoItem /\ \A d \in Connections \ {c} : conn'[d] = conn[d]
      /\ \A d \in Connections : /\ conn'[d].inserted = conn[d].inserted
                                /\ conn'[d].transaction = conn[d].transaction
      /\ item[i] # "new"
      /\ IF conn[c].transaction THEN i \in conn[c].inserted ELSE item[i] \in {"stored", "gone"}
      /\ ConnSound'
  BY <1>2, NotifyConnections
<1>4. /\ \A d \in Connections :
           /\ waitQueue[d] \in Seq(Items) /\ Elements(waitQueue[d]) \subseteq Items
           /\ conn[d].inserted \subseteq Items
      /\ \A j : Queued(j) => j \in Items
      /\ NoItem \notin Items
  BY <1>1, PartTypes
<1>5. /\ \A d \in Connections \ {c} : conn[d].item # i
      /\ \A d \in Connections : i \notin Elements(waitQueue[d])
      /\ ~Queued(i)
  BY <1>1, <1>2, <1>3, <1>4 DEF PlacesApart
<1>6. \A d : (NoSignal(d)' <=> NoSignal(d)) /\ \A n : First(d, n)' <=> First(d, n)
  BY <1>1 DEF NoSignal, First
<1>7. ASSUME hidden' \subseteq hidden,
             \A j \in hidden : j \notin hidden' => j = i,
             UNCHANGED <<waitQueue, connected, instance, owed>>, mishaps \subseteq mishaps',
             mishaps' \subseteq Mishap,
             \/ i \in hidden' => item[i] \notin {"stored", "inserted"}
             \/ "inactive" \in mishaps',
             "overlap" \in mishaps' => "overlap" \in mishaps
      PROVE  PreprocessorInv'
  <2>1. ChainSound' /\ AskSound' /\ RestSound' /\ \A j : Queued(j)' <=> Queued(j)
    BY <1>1, <1>7, ChainAlone
  <2>2. TypeOK'
    BY <1>1, <1>3, <1>7 DEF TypeOK
  <2>3. PlacesApart'
    <3>1. \A d \in Connections : conn'[d].item = conn[d].item \/ conn'[d].item = NoItem
      BY <1>3
    <3>2. ~Queued(NoItem) /\ \A d \in Connections : NoItem \notin Elements(waitQueue[d])
      BY <1>4
    <3>3. \A d, e \in Connections :
            /\ d # e => conn'[d].item = NoItem \/ conn'[d].item # conn'[e].item
            /\ d # e => Elements(waitQueue[d]) \cap Elements(waitQueue[e]) = {}
            /\ conn'[d].item \notin Elements(waitQueue[e])
      BY <1>1, <3>1, <3>2 DEF PlacesApart
    <3>4. \A d \in Connections :
            ~Queued(conn'[d].item) /\ \A j \in Elements(waitQueue[d]) : ~Queued(j)
      BY <1>1, <3>1, <3>2 DEF PlacesApart
    <3>5. \A j \in Items : item[j] = "new" =>
            /\ ~Queued(j)
            /\ \A d \in Connections : conn'[d].item # j /\ j \notin Elements(waitQueue[d])
      BY <1>1, <1>4, <3>1 DEF PlacesApart
    <3> QED  BY <1>1, <1>7, <2>1, <3>3, <3>4, <3>5 DEF PlacesApart
  <2>4. WaitSound'
    <3>1. \A d \in Connections : (Open(d) => Open(d)') /\ (Closed(d) => Closed(d)')
      BY <1>1, <1>3, <1>6, <1>7 DEF Open, Closed
    <3> QED  BY <1>1, <1>7, <2>1, <3>1 DEF WaitSound
  <2>5. InsertedKnown'
    <3> SUFFICES ASSUME mishaps' \cap {"inactive", "overlap", "leaked"} = {},
                        NEW d \in Connections, conn[d].transaction,
                        NEW j \in conn[d].inserted, j \in hidden', conn'[d].item # j
                 PROVE  j \in Elements(waitQueue[d]) /\ NoSignal(d)
      BY <1>3, <1>6, <1>7 DEF InsertedKnown
    <3>1. mishaps \cap {"inactive", "overlap", "leaked"} = {} /\ "inactive" \notin mishaps'
      BY <1>7
    <3>2. item[j] = "inserted"
      BY <1>1 DEF ConnSound
    <3>3. conn[d].item # j
      BY <1>2, <1>3, <1>7, <3>1, <3>2
    <3> QED  BY <1>1, <1>7, <3>1, <3>3 DEF InsertedKnown
  <2>6. NoItemForgotten'
    <3> SUFFICES ASSUME mishaps' \cap {"inactive", "overlap", "leaked", "deadlock"} = {},
                        NEW j \in hidden', item[j] = "stored"
                 PROVE  \/ \E d \in Connections :
                             \/ conn'[d].item = j
                             \/ /\ j \in Elements(waitQueue[d]) /\ d \in connected
                                /\ \E n \in DOMAIN signals : signals[n].of = d
                        \/ \E p \in Elements(chain) : j \in Elements(instance[p].queue)
      BY <1>1, <1>7 DEF NoItemForgotten
    <3>1. /\ mishaps \cap {"inactive", "overlap", "leaked", "deadlock"} = {}
          /\ "inactive" \notin mishaps'
      BY <1>7
    <3>2. j # i /\ j \in hidden
      BY <1>7, <3>1
    <3>3. \/ \E d \in Connections :
               \/ conn[d].item = j
               \/ /\ j \in Elements(waitQueue[d]) /\ d \in connected
                  /\ \E n \in DOMAIN signals : signals[n].of = d
          \/ \E p \in Elements(chain) : j \in Elements(instance[p].queue)
      BY <1>1, <3>1, <3>2 DEF NoItemForgotten
    <3>4. ASSUME NEW d \in Connections, conn[d].item = j PROVE conn'[d].item = j
      BY <1>2, <1>3, <3>2, <3>4
    <3> QED  BY <3>3, <3>4
  <2>7. OwedSound'
    <3>1. ASSUME NEW j \in Items, Outside(j)' PROVE Outside(j)
      <4>1. CASE j = i
        BY <1>2, <4>1 DEF Outside
      <4>2. CASE j # i
        BY <1>1, <1>3, <1>4, <1>7, <3>1, <4>2 DEF Outside
      <4> QED  BY <4>1, <4>2
    <3>2. \A j \in Items : Queued(j) /\ item'[j] = "stored" => item[j] \in {"inserted", "stored"}
      BY <1>1
    <3> QED  BY <1>1, <1>7, <3>1, <3>2, OwedAlone
  <2> QED  BY <1>3, <2>1, <2>2, <2>3, <2>4, <2>5, <2>6, <2>7 DEF PreprocessorInv
<1>8. CASE /\ EndHandle(<<i>>, {"stored", "inserted"})
           /\ UNCHANGED <<waitQueue, connected, instance, owed, mishaps>>
  <2>1. Elements(<<i>>) = {i}
    BY DEF Elements
  <2>2. hidden' = hidden \ {j \in {i} : item[j] \in {"stored", "inserted"}}
    BY <1>8, <2>1 DEF EndHandle
  <2>3. mishaps \subseteq Mishap
    BY <1>1 DEF TypeOK
  <2> QED  BY <1>7, <1>8, <2>2, <2>3
<1>9. CASE /\ i \notin hidden
           /\ UNCHANGED <<hidden, waitQueue, connected, instance, owed, mishaps>>
  <2>1. mishaps \subseteq Mishap
    BY <1>1 DEF TypeOK
  <2> QED  BY <1>7, <1>9, <2>1
<1>10. CASE /\ mishaps' = mishaps \cup {"inactive"}
            /\ UNCHANGED <<hidden, waitQueue, connected, instance, owed>>
  <2>1. mishaps' \subseteq Mishap
    BY <1>1, <1>10 DEF TypeOK, Mishap
  <2> QED  BY <1>7, <1>10, <2>1
<1>11. CASE /\ conn[c].transaction
            /\ waitQueue' = [waitQueue EXCEPT ![c] = Append(@, i)]
            /\ connected' = IF waitQueue[c] = <<>> THEN connected \cup {c} ELSE connected
            /\ mishaps' = mishaps \cup
                 (IF \E n \in DOMAIN signals : signals[n].of = c THEN {"overlap"} ELSE {})
            /\ UNCHANGED <<hidden, instance, owed>>
  <2>1. /\ waitQueue' \in [Connections -> Seq(Items)]
        /\ Elements(waitQueue'[c]) = Elements(waitQueue[c]) \cup {i}
        /\ \A d \in Connections \ {c} : waitQueue'[d] = waitQueue[d]
    <3>1. /\ Append(waitQueue[c], i) \in Seq(Items)
          /\ Elements(Append(waitQueue[c], i)) = Elements(waitQueue[c]) \cup {i}
      BY <1>3, <1>4, AppendElements
    <3> QED  BY <1>1, <1>11, <3>1
  <2>2. mishaps \subseteq mishaps' /\ mishaps' \subseteq mishaps \cup {"overlap"}
        /\ ("overlap" \notin mishaps' => NoSignal(c))
    BY <1>11 DEF NoSignal
  <2>3. ChainSound' /\ AskSound' /\ RestSound' /\ \A j : Queued(j)' <=> Queued(j)
    BY <1>1, <1>11, <2>2, ChainAlone
  <2>4. TypeOK'
    <3>1. mishaps' \subseteq Mishap /\ connected' \subseteq Connections
      BY <1>1, <1>11, <2>2 DEF TypeOK, Mishap
    <3> QED  BY <1>1, <1>3, <1>11, <2>1, <3>1 DEF TypeOK
  <2>5. PlacesApart'
    <3>1. \A d \in Connections :
            conn'[d].item # i /\ (conn'[d].item = conn[d].item \/ conn'[d].item = NoItem)
      BY <1>3, <1>4, <1>5
    <3>2. ~Queued(NoItem) /\ \A d \in Connections : NoItem \notin Elements(waitQueue'[d])
      BY <1>3, <1>4, <2>1
    <3>3. ASSUME NEW d \in Connections, NEW e \in Connections
          PROVE  /\ d # e => conn'[d].item = NoItem \/ conn'[d].item # conn'[e].item
                 /\ d # e => Elements(waitQueue'[d]) \cap Elements(waitQueue'[e]) = {}
                 /\ conn'[d].item \notin Elements(waitQueue'[e])
      <4>1. /\ d # e => conn[d].item = NoItem \/ conn[d].item # conn[e].item
            /\ d # e => Elements(waitQueue[d]) \cap Elements(waitQueue[e]) = {}
            /\ conn[d].item \notin Elements(waitQueue[e])
        BY <1>1 DEF PlacesApart
      <4>2. d # e => conn'[d].item = NoItem \/ conn'[d].item # conn'[e].item
        BY <3>1, <4>1
      <4>3. ASSUME d # e
            PROVE  Elements(waitQueue'[d]) \cap Elements(waitQueue'[e]) = {}
        <5>1. CASE d = c
          BY <1>5, <2>1, <4>1, <4>3, <5>1
        <5>2. CASE e = c
          BY <1>5, <2>1, <4>1, <4>3, <5>2
        <5>3. CASE d # c /\ e # c
          BY <2>1, <4>1, <4>3, <5>3
        <5> QED  BY <5>1, <5>2, <5>3
      <4>4. conn'[d].item \notin Elements(waitQueue'[e])
        BY <2>1, <3>1, <3>2, <4>1
      <4> QED  BY <4>2, <4>3, <4>4
    <3>4. \A d \in Connections :
            ~Queued(conn'[d].item) /\ \A j \in Elements(waitQueue'[d]) : ~Queued(j)
      <4>1. \A d \in Connections : ~Queued(conn[d].item) /\ \A j \in Elements(waitQueue[d]) : ~Queued(j)
        BY <1>1 DEF PlacesApart
      <4>2. ASSUME NEW d \in Connections PROVE ~Queued(conn'[d].item)
        <5>1. CASE conn'[d].item = conn[d].item
          BY <4>1, <5>1
        <5>2. CASE conn'[d].item = NoItem
          BY <3>2, <5>2
        <5> QED  BY <3>1, <5>1, <5>2
      <4>3. ASSUME NEW d \in Connections, NEW j \in Elements(waitQueue'[d]) PROVE ~Queued(j)
        <5>1. j = i \/ j \in Elements(waitQueue[d])
          BY <2>1, <4>3
        <5> QED  BY <1>5, <4>1, <5>1
      <4> QED  BY <4>2, <4>3
    <3>5. \A j \in Items : item[j] = "new" =>
            /\ ~Queued(j)
            /\ \A d \in Connections : conn'[d].item # j /\ j \notin Elements(waitQueue'[d])
      <4> SUFFICES ASSUME NEW j \in Items, item[j] = "new"
                   PROVE  /\ ~Queued(j)
                          /\ \A d \in Connections :
                               conn'[d].item # j /\ j \notin Elements(waitQueue'[d])
        OBVIOUS
      <4>1. /\ ~Queued(j)
            /\ \A d \in Connections : conn[d].item # j /\ j \notin Elements(waitQueue[d])
        BY <1>1 DEF PlacesApart
      <4>2. j # i /\ j # NoItem
        BY <1>3, <1>4
      <4>3. ASSUME NEW d \in Connections PROVE conn'[d].item # j
        BY <3>1, <4>1, <4>2
      <4>4. ASSUME NEW d \in Connections PROVE j \notin Elements(waitQueue'[d])
        <5>1. CASE d = c
          BY <2>1, <4>1, <4>2, <5>1
        <5>2. CASE d # c
          BY <2>1, <4>1, <5>2
        <5> QED  BY <5>1, <5>2
      <4> QED  BY <4>1, <4>3, <4>4
    <3> QED  BY <1>1, <2>3, <3>3, <3>4, <3>5 DEF PlacesApart
  <2>6. WaitSound'
    <3>1. ASSUME NEW d \in Connections, waitQueue'[d] # <<>>
          PROVE  d \in connected' \/ "leaked" \in mishaps'
      BY <1>1, <1>11, <2>1, <2>2, <3>1 DEF WaitSound
    <3>2. ASSUME "overlap" \notin mishaps', NEW d \in connected'
          PROVE  Open(d)' \/ Closed(d)'
      <4>1. "overlap" \notin mishaps
        BY <2>2, <3>2
      <4>2. CASE d # c
        <5>1. d \in connected /\ waitQueue'[d] = waitQueue[d] /\ d \in Connections
          BY <1>1, <1>11, <2>1, <3>2, <4>2
        <5>2. Open(d) \/ Closed(d)
          BY <1>1, <4>1, <5>1 DEF WaitSound
        <5>3. Open(d) => Open(d)'
          BY <1>3, <1>6, <5>1 DEF Open
        <5>4. Closed(d) => Closed(d)'
          BY <1>1, <1>6, <5>1 DEF Closed
        <5> QED  BY <5>2, <5>3, <5>4
      <4>3. CASE d = c
        <5>1. NoSignal(c) /\ i \in conn[c].inserted
          BY <1>3, <1>11, <2>2, <3>2
        <5>2. Elements(waitQueue[c]) \subseteq conn[c].inserted
          <6>1. CASE waitQueue[c] = <<>>
            BY <6>1 DEF Elements
          <6>2. CASE waitQueue[c] # <<>>
            <7>1. c \in connected
              BY <1>11, <3>2, <4>3, <6>2
            <7>2. ~Closed(c)
              BY <5>1 DEF Closed, First, NoSignal
            <7> QED  BY <1>1, <4>1, <7>1, <7>2 DEF WaitSound, Open
          <6> QED  BY <6>1, <6>2
        <5> QED  BY <1>3, <1>6, <1>11, <2>1, <4>3, <5>1, <5>2 DEF Open
      <4> QED  BY <4>2, <4>3
    <3>3. "overlap" \notin mishaps' => \A j \in Items : Queued(j)' => item'[j] \in {"stored", "gone"}
      BY <1>1, <2>2, <2>3 DEF WaitSound
    <3> QED  BY <3>1, <3>2, <3>3 DEF WaitSound
  <2>7. InsertedKnown'
    <3> SUFFICES ASSUME mishaps' \cap {"inactive", "overlap", "leaked"} = {},
                        NEW d \in Connections, conn[d].transaction,
                        NEW j \in conn[d].inserted, j \in hidden, conn'[d].item # j
                 PROVE  j \in Elements(waitQueue'[d]) /\ NoSignal(d)
      BY <1>3, <1>6, <1>11 DEF InsertedKnown
    <3>1. mishaps \cap {"inactive", "overlap", "leaked"} = {} /\ NoSignal(c)
      BY <2>2
    <3>2. CASE d = c /\ j = i
      BY <2>1, <3>1, <3>2
    <3>3. CASE ~(d = c /\ j = i)
      <4>1. conn[d].item # j
        BY <1>2, <1>3, <3>3
      <4>2. j \in Elements(waitQueue[d]) /\ NoSignal(d)
        BY <1>1, <3>1, <4>1 DEF InsertedKnown
      <4> QED  BY <2>1, <4>2
    <3> QED  BY <3>2, <3>3
  <2>8. NoItemForgotten'
    <3> SUFFICES ASSUME mishaps' \cap {"inactive", "overlap", "leaked", "deadlock"} = {},
                        NEW j \in hidden, item[j] = "stored"
                 PROVE  \/ \E d \in Connections :
                             \/ conn'[d].item = j
                             \/ /\ j \in Elements(waitQueue'[d]) /\ d \in connected'
                                /\ \E n \in DOMAIN signals : signals[n].of = d
                        \/ \E p \in Elements(chain) : j \in Elements(instance[p].queue)
      BY <1>1, <1>11 DEF NoItemForgotten
    <3>1. mishaps \cap {"inactive", "overlap", "leaked", "deadlock"} = {}
      BY <2>2
    <3>2. item[i] = "inserted"
      <4>1. \A k \in conn[c].inserted : item[k] = "inserted"
        BY <1>1 DEF ConnSound
      <4> QED  BY <1>3, <1>11, <4>1
    <3>3. \/ \E d \in Connections :
               \/ conn[d].item = j
               \/ /\ j \in Elements(waitQueue[d]) /\ d \in connected
                  /\ \E n \in DOMAIN signals : signals[n].of = d
          \/ \E p \in Elements(chain) : j \in Elements(instance[p].queue)
      BY <1>1, <3>1 DEF NoItemForgotten
    <3>4. \A d \in Connections : conn[d].item = j => conn'[d].item = j
      BY <1>2, <1>3, <3>2
    <3>5. \A d \in Connections : Elements(waitQueue[d]) \subseteq Elements(waitQueue'[d])
      BY <2>1
    <3>6. connected \subseteq connected'
      BY <1>11
    <3> QED  BY <3>3, <3>4, <3>5, <3>6
  <2>9. OwedSound'
    <3>1. ASSUME NEW j \in Items, Outside(j)' PROVE Outside(j)
      <4>1. CASE j = i
        BY <1>2, <4>1 DEF Outside
      <4>2. CASE j # i
        BY <1>1, <1>3, <1>4, <1>11, <2>1, <3>1, <4>2 DEF Outside
      <4> QED  BY <4>1, <4>2
    <3>2. \A j \in Items : Queued(j) /\ item'[j] = "stored" => item[j] \in {"inserted", "stored"}
      BY <1>1
    <3> QED  BY <1>1, <1>11, <2>2, <3>1, <3>2, OwedAlone
  <2> QED  BY <1>3, <2>3, <2>4, <2>5, <2>6, <2>7, <2>8, <2>9 DEF PreprocessorInv
<1>12. CASE /\ isActive /\ ~conn[c].transaction /\ Activate(<<i>>)
            /\ UNCHANGED <<waitQueue, connected>>
  <2> DEFINE list == <<i>>
  <2>1. list \in Seq(Items) /\ Elements(list) = {i} /\ Activate(list)
    BY <1>3, <1>12 DEF Elements
  <2> HIDE DEF list
  <2>2. /\ instance' \in [Preprocessors -> Instance]
        /\ owed' \in [Items -> SUBSET Preprocessors] /\ hidden' = hidden
        /\ mishaps \subseteq mishaps' /\ mishaps' \subseteq mishaps \cup {"deadlock"}
        /\ \A j : Queued(j)' <=> Queued(j) \/ j = i
        /\ \A j : (\E r \in Elements(chain) : j \in Elements(instance[r].queue)) \/ j = i
             => \E r \in Elements(chain) : j \in Elements(instance'[r].queue)
        /\ ChainSound' /\ AskSound' /\ RestSound'
    BY <1>1, <1>12, <2>1, ActivateAdds
  <2>3. TypeOK'
    <3>1. mishaps' \subseteq Mishap
      BY <1>1, <2>2 DEF TypeOK, Mishap
    <3> QED  BY <1>1, <1>3, <1>12, <2>2, <3>1 DEF TypeOK
  <2>4. PlacesApart'
    <3>1. \A d \in Connections :
            conn'[d].item # i /\ (conn'[d].item = conn[d].item \/ conn'[d].item = NoItem)
      BY <1>3, <1>4, <1>5
    <3>2. ~Queued(NoItem) /\ \A d \in Connections : NoItem \notin Elements(waitQueue[d])
      BY <1>4
    <3>3. \A d, e \in Connections :
            /\ d # e => conn'[d].item = NoItem \/ conn'[d].item # conn'[e].item
            /\ d # e => Elements(waitQueue[d]) \cap Elements(waitQueue[e]) = {}
            /\ conn'[d].item \notin Elements(waitQueue[e])
      BY <1>1, <3>1, <3>2 DEF PlacesApart
    <3>4. ASSUME NEW d \in Connections
          PROVE  /\ \A j : j = conn'[d].item => ~Queued(j)'
                 /\ \A j \in Elements(waitQueue[d]) : ~Queued(j)'
      <4>1. ~Queued(conn[d].item) /\ \A j \in Elements(waitQueue[d]) : ~Queued(j) /\ j # i
        BY <1>1, <1>5 DEF PlacesApart
      <4>2. \A j : j = conn'[d].item => ~Queued(j) /\ j # i
        BY <3>1, <3>2, <4>1
      <4> QED  BY <2>2, <4>1, <4>2
    <3>5. \A j \in Items : item[j] = "new" =>
            /\ ~Queued(j)'
            /\ \A d \in Connections : conn'[d].item # j /\ j \notin Elements(waitQueue[d])
      <4>1. \A j \in Items : item[j] = "new" =>
              /\ ~Queued(j) /\ j # i
              /\ \A d \in Connections : conn[d].item # j /\ j \notin Elements(waitQueue[d])
        BY <1>1, <1>3 DEF PlacesApart
      <4> QED  BY <1>4, <2>2, <3>1, <4>1
    <3>6. \A d \in Connections : ~\E p \in Preprocessors : conn'[d].item \in Elements(instance'[p].queue)
      BY <3>4 DEF Queued
    <3>7. /\ \A d \in Connections : \A j \in Elements(waitQueue[d]) :
               ~\E p \in Preprocessors : j \in Elements(instance'[p].queue)
          /\ \A j \in Items : item[j] = "new" =>
               ~\E p \in Preprocessors : j \in Elements(instance'[p].queue)
      BY <3>4, <3>5 DEF Queued
    <3> QED  BY <1>1, <1>12, <3>3, <3>5, <3>6, <3>7 DEF PlacesApart, Queued
  <2>5. WaitSound'
    <3>1. \A d \in Connections : (Open(d) => Open(d)') /\ (Closed(d) => Closed(d)')
      BY <1>1, <1>3, <1>6, <1>12 DEF Open, Closed
    <3>2. item[i] \in {"stored", "gone"}
      BY <1>3, <1>12
    <3>3. "overlap" \notin mishaps' => "overlap" \notin mishaps
      BY <2>2
    <3> QED  BY <1>1, <1>12, <2>2, <3>1, <3>2, <3>3 DEF WaitSound
  <2>6. InsertedKnown'
    <3>1. mishaps' \cap {"inactive", "overlap", "leaked"} = mishaps \cap {"inactive", "overlap", "leaked"}
      BY <2>2
    <3> QED  BY <1>1, <1>3, <1>6, <1>12, <2>2, <3>1 DEF InsertedKnown
  <2>7. NoItemForgotten'
    <3>1. mishaps' \cap {"inactive", "overlap", "leaked", "deadlock"} = {}
            => mishaps \cap {"inactive", "overlap", "leaked", "deadlock"} = {}
      BY <2>2
    <3>2. \A d \in Connections : \A j : conn[d].item = j => conn'[d].item = j \/ j = i
      BY <1>2, <1>3
    <3> QED  BY <1>1, <1>12, <2>2, <3>1, <3>2 DEF NoItemForgotten
  <2>8. OwedSound'
    <3>1. ASSUME NEW j \in Items \ {i}, Outside(j)' PROVE Outside(j)
      BY <1>1, <1>3, <1>4, <1>12, <2>2, <3>1 DEF Outside
    <3>2. \A d \in Connections : conn'[d].item # i /\ i \notin Elements(waitQueue'[d])
      BY <1>3, <1>4, <1>5, <1>12
    <3>3. item[i] \in {"stored", "gone"}
      BY <1>3, <1>12
    <3> QED  BY <1>1, <1>5, <1>12, <2>1, <3>1, <3>2, <3>3, ActivateOwes
  <2> QED  BY <1>3, <2>2, <2>3, <2>4, <2>5, <2>6, <2>7, <2>8 DEF PreprocessorInv
<1> QED  BY <1>2, <1>8, <1>9, <1>10, <1>11, <1>12 DEF Notify, BeginHandleItem

\* The wait queue of a transaction that is over enters the chain, is shown, or goes.
LEMMA HandleSignalKeeps ==
  ASSUME PreprocessorInv, HandleSignal
  PROVE  PreprocessorInv'
<1>1. /\ TypeOK /\ ConnSound /\ PlacesApart /\ WaitSound /\ InsertedKnown /\ NoItemForgotten
      /\ connected \subseteq Connections /\ hidden \subseteq Items /\ mishaps \subseteq Mishap
      /\ waitQueue \in [Connections -> Seq(Items)]
      /\ UNCHANGED <<item, conn, chain, main, faults>>
      /\ signals # <<>> /\ signals' = Tail(signals)
  BY DEF PreprocessorInv, TypeOK, HandleSignal
<1>2. PICK c : c = Head(signals).of
  OBVIOUS
<1>3. /\ signals' \in Seq(Signal) /\ c \in Connections /\ ~NoSignal(c)
      /\ Head(signals).is \in {"transactionCommitted", "transactionRolledBack"}
      /\ \A d : NoSignal(d) => NoSignal(d)'
      /\ \A d : d # c => \A n : First(d, n) =>
           \E m \in DOMAIN signals' : First(d, m)' /\ signals'[m] = signals[n]
      /\ \A d : d # c /\ (\E n \in DOMAIN signals : signals[n].of = d)
           => \E n \in DOMAIN signals' : signals'[n].of = d
      /\ \A n : First(c, n) => signals[n] = Head(signals)
  BY <1>1, <1>2, TailSignals
<1>4. /\ \A d \in Connections :
           /\ waitQueue[d] \in Seq(Items) /\ Elements(waitQueue[d]) \subseteq Items
           /\ conn[d].item \in Items \cup {NoItem}
      /\ \A j : Queued(j) => j \in Items
      /\ NoItem \notin Items
  BY <1>1, PartTypes
<1>5. ASSUME c \notin connected, UNCHANGED <<hidden, waitQueue, connected, instance, owed, mishaps>>
      PROVE  PreprocessorInv'
  <2>1. PlacesApart' /\ ChainSound' /\ AskSound' /\ RestSound' /\ OwedSound'
    BY <1>1, <1>5, Settles DEF TypeOK
  <2>2. TypeOK'
    BY <1>1, <1>3, <1>5 DEF TypeOK
  <2>3. ConnSound'
    BY <1>1 DEF ConnSound
  <2>4. WaitSound'
    <3>1. \A d : Open(d) => Open(d)'
      BY <1>1, <1>3, <1>5 DEF Open
    <3>2. ASSUME NEW d \in connected, Closed(d) PROVE Closed(d)'
      <4>1. PICK n \in DOMAIN signals :
              /\ First(d, n)
              /\ signals[n].is = "transactionRolledBack" =>
                   \A i \in Elements(waitQueue[d]) : item[i] = "gone"
        BY <3>2 DEF Closed
      <4>2. PICK m \in DOMAIN signals' : First(d, m)' /\ signals'[m] = signals[n]
        BY <1>3, <1>5, <4>1
      <4>3. \A i \in Elements(waitQueue[d]) : item[i] \in {"stored", "gone"}
        BY <3>2 DEF Closed
      <4> QED  BY <1>1, <1>5, <4>1, <4>2, <4>3 DEF Closed
    <3>3. \A i : Queued(i)' <=> Queued(i)
      BY <1>5 DEF Queued
    <3> QED  BY <1>1, <1>5, <3>1, <3>2, <3>3 DEF WaitSound
  <2>5. InsertedKnown'
    BY <1>1, <1>3, <1>5 DEF InsertedKnown
  <2>6. NoItemForgotten'
    <3> SUFFICES ASSUME mishaps \cap {"inactive", "overlap", "leaked", "deadlock"} = {},
                        NEW j \in hidden, item[j] = "stored"
                 PROVE  \/ \E d \in Connections :
                             \/ conn[d].item = j
                             \/ /\ j \in Elements(waitQueue[d]) /\ d \in connected
                                /\ \E n \in DOMAIN signals' : signals'[n].of = d
                        \/ \E p \in Elements(chain) : j \in Elements(instance[p].queue)
      BY <1>1, <1>5 DEF NoItemForgotten
    <3>1. \/ \E d \in Connections :
               \/ conn[d].item = j
               \/ /\ j \in Elements(waitQueue[d]) /\ d \in connected
                  /\ \E n \in DOMAIN signals : signals[n].of = d
          \/ \E p \in Elements(chain) : j \in Elements(instance[p].queue)
      BY <1>1 DEF NoItemForgotten
    <3> QED  BY <1>3, <1>5, <3>1
  <2> QED  BY <2>1, <2>2, <2>3, <2>4, <2>5, <2>6 DEF PreprocessorInv
<1> DEFINE list == waitQueue[c]
<1>6. ASSUME c \in connected, waitQueue' = [waitQueue EXCEPT ![c] = <<>>],
             connected' = connected \ {c}
      PROVE  /\ waitQueue' \in [Connections -> Seq(Items)] /\ connected' \subseteq Connections
             /\ waitQueue'[c] = <<>> /\ Elements(waitQueue'[c]) = {}
             /\ \A d \in Connections \ {c} : waitQueue'[d] = waitQueue[d]
             /\ \A d \in Connections : Elements(waitQueue'[d]) \subseteq Elements(waitQueue[d])
             /\ "overlap" \notin mishaps => Closed(c)
             /\ \A d \in connected' : (Open(d) => Open(d)') /\ (Closed(d) => Closed(d)')
             /\ mishaps \subseteq mishaps' => \A d \in Connections :
                  waitQueue'[d] # <<>> => d \in connected' \/ "leaked" \in mishaps'
  <2>1. /\ waitQueue' \in [Connections -> Seq(Items)] /\ connected' \subseteq Connections
        /\ waitQueue'[c] = <<>> /\ \A d \in Connections \ {c} : waitQueue'[d] = waitQueue[d]
    <3>1. <<>> \in Seq(Items)
      OBVIOUS
    <3> QED  BY <1>1, <1>3, <1>6, <3>1
  <2>2. Elements(waitQueue'[c]) = {}
    BY <2>1 DEF Elements
  <2>3. "overlap" \notin mishaps => Closed(c)
    BY <1>1, <1>3, <1>6 DEF WaitSound, Open
  <2>4. ASSUME NEW d \in connected' PROVE (Open(d) => Open(d)') /\ (Closed(d) => Closed(d)')
    <3>1. d # c /\ d \in Connections /\ waitQueue'[d] = waitQueue[d]
      BY <1>6, <2>1, <2>4
    <3>2. Open(d) => Open(d)'
      BY <1>1, <1>3, <3>1 DEF Open
    <3>3. ASSUME Closed(d) PROVE Closed(d)'
      <4>1. PICK n \in DOMAIN signals :
              /\ First(d, n)
              /\ signals[n].is = "transactionRolledBack" =>
                   \A i \in Elements(waitQueue[d]) : item[i] = "gone"
        BY <3>3 DEF Closed
      <4>2. PICK m \in DOMAIN signals' : First(d, m)' /\ signals'[m] = signals[n]
        BY <1>3, <3>1, <4>1
      <4>3. \A i \in Elements(waitQueue[d]) : item[i] \in {"stored", "gone"}
        BY <3>3 DEF Closed
      <4> QED  BY <1>1, <3>1, <4>1, <4>2, <4>3 DEF Closed
    <3> QED  BY <3>2, <3>3
  <2>5. mishaps \subseteq mishaps' => \A d \in Connections :
          waitQueue'[d] # <<>> => d \in connected' \/ "leaked" \in mishaps'
    BY <1>1, <1>6, <2>1 DEF WaitSound
  <2> QED  BY <2>1, <2>2, <2>3, <2>4, <2>5
<1>7. ASSUME c \in connected, waitQueue' = [waitQueue EXCEPT ![c] = <<>>],
             connected' = connected \ {c}, hidden' \subseteq hidden,
             \A j \in hidden : j \notin hidden' => j \in Elements(list),
             "overlap" \notin mishaps =>
               \A j \in hidden' : j \in Elements(list) => item[j] # "stored",
             UNCHANGED <<instance, owed, mishaps>>
      PROVE  PreprocessorInv'
  <2>1. /\ waitQueue' \in [Connections -> Seq(Items)] /\ connected' \subseteq Connections
        /\ waitQueue'[c] = <<>> /\ Elements(waitQueue'[c]) = {}
        /\ \A d \in Connections \ {c} : waitQueue'[d] = waitQueue[d]
        /\ \A d \in Connections : Elements(waitQueue'[d]) \subseteq Elements(waitQueue[d])
        /\ \A d \in connected' : (Open(d) => Open(d)') /\ (Closed(d) => Closed(d)')
        /\ \A d \in Connections : waitQueue'[d] # <<>> => d \in connected' \/ "leaked" \in mishaps'
    BY <1>6, <1>7
  <2>2. ChainSound' /\ AskSound' /\ RestSound' /\ \A j : Queued(j)' <=> Queued(j)
    BY <1>1, <1>7, ChainAlone
  <2>3. TypeOK'
    BY <1>1, <1>3, <1>7, <2>1 DEF TypeOK
  <2>4. ConnSound'
    BY <1>1 DEF ConnSound
  <2>5. PlacesApart'
    BY <1>1, <2>1, <2>2 DEF PlacesApart
  <2>6. WaitSound'
    <3>1. connected' \subseteq connected
      BY <1>7
    <3> QED  BY <1>1, <1>7, <2>1, <2>2, <3>1 DEF WaitSound
  <2>7. InsertedKnown'
    <3> SUFFICES ASSUME mishaps \cap {"inactive", "overlap", "leaked"} = {},
                        NEW d \in Connections, conn[d].transaction,
                        NEW j \in conn[d].inserted, j \in hidden, conn[d].item # j
                 PROVE  j \in Elements(waitQueue'[d]) /\ NoSignal(d)'
      BY <1>1, <1>7 DEF InsertedKnown
    <3>1. j \in Elements(waitQueue[d]) /\ NoSignal(d)
      BY <1>1 DEF InsertedKnown
    <3> QED  BY <1>3, <2>1, <3>1
  <2>8. NoItemForgotten'
    <3> SUFFICES ASSUME mishaps \cap {"inactive", "overlap", "leaked", "deadlock"} = {},
                        NEW j \in hidden', item[j] = "stored"
                 PROVE  \/ \E d \in Connections :
                             \/ conn[d].item = j
                             \/ /\ j \in Elements(waitQueue'[d]) /\ d \in connected'
                                /\ \E n \in DOMAIN signals' : signals'[n].of = d
                        \/ \E p \in Elements(chain) : j \in Elements(instance[p].queue)
      BY <1>1, <1>7 DEF NoItemForgotten
    <3>1. j \notin Elements(list) /\ j \in hidden
      BY <1>7
    <3>2. \/ \E d \in Connections :
               \/ conn[d].item = j
               \/ /\ j \in Elements(waitQueue[d]) /\ d \in connected
                  /\ \E n \in DOMAIN signals : signals[n].of = d
          \/ \E p \in Elements(chain) : j \in Elements(instance[p].queue)
      BY <1>1, <3>1 DEF NoItemForgotten
    <3> QED  BY <1>3, <1>7, <2>1, <3>1, <3>2
  <2>9. OwedSound'
    <3>1. ASSUME NEW j \in Items, Outside(j)' PROVE Outside(j)
      BY <1>1, <1>3, <1>7, <2>1, <3>1 DEF Outside
    <3>2. \A j \in Items : Queued(j) /\ item'[j] = "stored" => item[j] \in {"inserted", "stored"}
      BY <1>1
    <3> QED  BY <1>1, <1>7, <3>1, <3>2, OwedAlone
  <2> QED  BY <2>2, <2>3, <2>4, <2>5, <2>6, <2>7, <2>8, <2>9 DEF PreprocessorInv
<1>8. ASSUME c \in connected, waitQueue' = [waitQueue EXCEPT ![c] = <<>>],
             connected' = connected \ {c}, isActive, Activate(list)
      PROVE  PreprocessorInv'
  <2>1. /\ list \in Seq(Items) /\ \A j \in Elements(list) : j \in Items /\ ~Queued(j)
        /\ \A j \in Elements(list) : \A d \in Connections :
             conn[d].item # j /\ (d # c => j \notin Elements(waitQueue[d])) /\ item[j] # "new"
    <3>1. list \in Seq(Items) /\ \A j \in Elements(list) : j \in Items
      BY <1>3, <1>4
    <3> QED  BY <1>1, <1>3, <3>1 DEF PlacesApart
  <2>2. /\ instance' \in [Preprocessors -> Instance]
        /\ owed' \in [Items -> SUBSET Preprocessors] /\ hidden' = hidden
        /\ mishaps \subseteq mishaps' /\ mishaps' \subseteq mishaps \cup {"deadlock"}
        /\ \A j : Queued(j)' <=> Queued(j) \/ j \in Elements(list)
        /\ \A j : (\E r \in Elements(chain) : j \in Elements(instance[r].queue)) \/ j \in Elements(list)
             => \E r \in Elements(chain) : j \in Elements(instance'[r].queue)
        /\ ChainSound' /\ AskSound' /\ RestSound'
    BY <1>1, <1>8, <2>1, ActivateAdds
  <2>3. /\ waitQueue' \in [Connections -> Seq(Items)] /\ connected' \subseteq Connections
        /\ Elements(waitQueue'[c]) = {}
        /\ \A d \in Connections \ {c} : waitQueue'[d] = waitQueue[d]
        /\ \A d \in Connections : Elements(waitQueue'[d]) \subseteq Elements(waitQueue[d])
        /\ "overlap" \notin mishaps => Closed(c)
        /\ \A d \in connected' : (Open(d) => Open(d)') /\ (Closed(d) => Closed(d)')
        /\ \A d \in Connections : waitQueue'[d] # <<>> => d \in connected' \/ "leaked" \in mishaps'
    BY <1>6, <1>8, <2>2
  <2> HIDE DEF list
  <2>4. "overlap" \notin mishaps => \A j \in Elements(list) : item[j] \in {"stored", "gone"}
    BY <2>3 DEF Closed, list
  <2>5. TypeOK'
    <3>1. mishaps' \subseteq Mishap
      BY <1>1, <2>2 DEF Mishap
    <3> QED  BY <1>1, <1>3, <2>2, <2>3, <3>1 DEF TypeOK
  <2>6. ConnSound'
    BY <1>1 DEF ConnSound
  <2>7. PlacesApart'
    <3>1. \A d, e \in Connections :
            /\ d # e => conn[d].item = NoItem \/ conn[d].item # conn[e].item
            /\ d # e => Elements(waitQueue'[d]) \cap Elements(waitQueue'[e]) = {}
            /\ conn[d].item \notin Elements(waitQueue'[e])
      BY <1>1, <2>3 DEF PlacesApart
    <3>2. \A d \in Connections : \A j : j = conn[d].item => ~Queued(j)'
      BY <1>1, <2>1, <2>2 DEF PlacesApart
    <3>3. \A d \in Connections : \A j \in Elements(waitQueue'[d]) : ~Queued(j)'
      <4> SUFFICES ASSUME NEW d \in Connections, NEW j \in Elements(waitQueue'[d]) PROVE ~Queued(j)'
        OBVIOUS
      <4>1. d # c /\ j \in Elements(waitQueue[d])
        BY <2>3
      <4>2. ~Queued(j)
        BY <1>1, <4>1 DEF PlacesApart
      <4> QED  BY <2>1, <2>2, <4>1, <4>2
    <3>4. \A j \in Items : item[j] = "new" =>
            /\ ~Queued(j)'
            /\ \A d \in Connections : conn[d].item # j /\ j \notin Elements(waitQueue'[d])
      BY <1>1, <1>3, <2>1, <2>2, <2>3 DEF PlacesApart
    <3> QED  BY <1>1, <3>1, <3>2, <3>3, <3>4 DEF PlacesApart
  <2>8. WaitSound'
    <3>1. connected' \subseteq connected /\ ("overlap" \notin mishaps' => "overlap" \notin mishaps)
      BY <1>8, <2>2
    <3> QED  BY <1>1, <2>2, <2>3, <2>4, <3>1 DEF WaitSound
  <2>9. InsertedKnown'
    <3> SUFFICES ASSUME mishaps' \cap {"inactive", "overlap", "leaked"} = {},
                        NEW d \in Connections, conn[d].transaction,
                        NEW j \in conn[d].inserted, j \in hidden, conn[d].item # j
                 PROVE  j \in Elements(waitQueue'[d]) /\ NoSignal(d)'
      BY <1>1, <2>2 DEF InsertedKnown
    <3>1. mishaps \cap {"inactive", "overlap", "leaked"} = {}
      BY <2>2
    <3>2. j \in Elements(waitQueue[d]) /\ NoSignal(d)
      BY <1>1, <3>1 DEF InsertedKnown
    <3> QED  BY <1>3, <2>3, <3>2
  <2>10. NoItemForgotten'
    <3> SUFFICES ASSUME mishaps' \cap {"inactive", "overlap", "leaked", "deadlock"} = {},
                        NEW j \in hidden, item[j] = "stored"
                 PROVE  \/ \E d \in Connections :
                             \/ conn[d].item = j
                             \/ /\ j \in Elements(waitQueue'[d]) /\ d \in connected'
                                /\ \E n \in DOMAIN signals' : signals'[n].of = d
                        \/ \E p \in Elements(chain) : j \in Elements(instance'[p].queue)
      BY <1>1, <2>2 DEF NoItemForgotten
    <3>1. mishaps \cap {"inactive", "overlap", "leaked", "deadlock"} = {}
      BY <2>2
    <3>2. \/ \E d \in Connections :
               \/ conn[d].item = j
               \/ /\ j \in Elements(waitQueue[d]) /\ d \in connected
                  /\ \E n \in DOMAIN signals : signals[n].of = d
          \/ \E p \in Elements(chain) : j \in Elements(instance[p].queue)
      BY <1>1, <3>1 DEF NoItemForgotten
    <3>3. CASE j \in Elements(list)
      BY <2>2, <3>3
    <3>4. CASE j \notin Elements(list)
      BY <1>3, <1>8, <2>2, <2>3, <3>2, <3>4 DEF list
    <3> QED  BY <3>3, <3>4
  <2>11. OwedSound'
    <3>1. ASSUME NEW j \in Items \ Elements(list), Outside(j)' PROVE Outside(j)
      BY <1>1, <2>2, <2>3, <3>1 DEF Outside
    <3>2. ASSUME NEW j \in Elements(list), NEW d \in Connections
          PROVE  conn'[d].item # j /\ j \notin Elements(waitQueue'[d])
      BY <1>1, <2>1, <2>3
    <3>3. mishaps \cap {"stale", "overlap"} = {} =>
            \A j \in Elements(list) : item[j] \in {"stored", "gone"}
      BY <2>4
    <3> QED  BY <1>1, <1>8, <2>1, <3>1, <3>2, <3>3, ActivateOwes
  <2> QED  BY <2>2, <2>5, <2>6, <2>7, <2>8, <2>9, <2>10, <2>11 DEF PreprocessorInv
<1>9. ASSUME c \in connected, waitQueue' = [waitQueue EXCEPT ![c] = <<>>],
             connected' = connected \ {c}, Head(signals).is = "transactionCommitted", Flushed(c)
      PROVE  PreprocessorInv'
  <2>1. CASE isActive
    <3>1. Activate(list)
      BY <1>9, <2>1 DEF Flushed
    <3> QED  BY <1>8, <1>9, <2>1, <3>1
  <2>2. CASE ~isActive
    <3>1. /\ hidden' = hidden \ {j \in Elements(list) : item[j] = "stored"}
          /\ UNCHANGED <<instance, owed, mishaps>>
      BY <1>9, <2>2 DEF Flushed, EndHandle
    <3> QED  BY <1>7, <1>9, <3>1
  <2> QED  BY <2>1, <2>2
<1>10. ASSUME c \in connected, waitQueue' = [waitQueue EXCEPT ![c] = <<>>],
              connected' = connected \ {c}, Head(signals).is # "transactionCommitted",
              UNCHANGED <<hidden, instance, owed, mishaps>>
       PROVE  PreprocessorInv'
  <2>1. "overlap" \notin mishaps => \A j \in Elements(list) : item[j] = "gone"
    <3> SUFFICES ASSUME "overlap" \notin mishaps
                 PROVE  \A j \in Elements(list) : item[j] = "gone"
      OBVIOUS
    <3>1. Closed(c)
      BY <1>6, <1>10
    <3> QED  BY <1>3, <1>10, <3>1 DEF Closed
  <2> QED  BY <1>7, <1>10, <2>1
<1> QED  BY <1>2, <1>5, <1>9, <1>10 DEF HandleSignal

-----------------------------------------------------------------------------
(* The theorems *)

LEMMA InitSound == Init => PreprocessorInv
<1> SUFFICES ASSUME Init PROVE PreprocessorInv
  OBVIOUS
<1>1. /\ <<>> \in Seq(Items) /\ <<>> \in Seq(Signal) /\ Elements(<<>>) = {}
  BY DEF Elements
<1>2. chain \in Seq(Preprocessors) /\ \A m, n \in DOMAIN chain : chain[m] = chain[n] => m = n
  <2>1. chain \in Chains
    BY DEF Init
  <2>2. CASE chain = <<>>
    BY <2>2
  <2>3. ASSUME NEW p \in Preprocessors, chain = <<p>>
        PROVE  chain \in Seq(Preprocessors) /\ \A m, n \in DOMAIN chain : chain[m] = chain[n] => m = n
    BY <2>3
  <2>4. CASE chain \in Preprocessors \X Preprocessors /\ chain[1] # chain[2]
    <3>1. PICK p \in Preprocessors, q \in Preprocessors : chain = <<p, q>> /\ p # q
      BY <2>4
    <3>2. DOMAIN chain = 1..2 /\ chain[1] = p /\ chain[2] = q /\ chain \in Seq(Preprocessors)
      BY <3>1
    <3> QED  BY <3>1, <3>2
  <2> QED  BY <2>1, <2>2, <2>3, <2>4 DEF Chains
<1>3. /\ instance \in [Preprocessors -> Instance]
      /\ \A p \in Preprocessors : /\ instance[p].queue = <<>> /\ ~instance[p].busy
                                  /\ instance[p].asked = <<>>
  <2>1. [queue |-> <<>>, busy |-> FALSE, asked |-> <<>>] \in Instance
    BY <1>1 DEF Instance
  <2> QED  BY <2>1 DEF Init
<1>4. /\ conn \in [Connections -> Conn]
      /\ \A c \in Connections : /\ conn[c].at = "idle" /\ conn[c].item = NoItem
                                /\ ~conn[c].transaction /\ conn[c].inserted = {}
  BY DEF Init, Conn
<1>5. /\ item = [i \in Items |-> "new"] /\ hidden = {} /\ waitQueue = [c \in Connections |-> <<>>]
      /\ connected = {} /\ signals = <<>> /\ main = Idle /\ owed = [i \in Items |-> {}]
      /\ faults = 0 /\ mishaps = {}
  BY DEF Init
<1>6. TypeOK
  <2>1. main \in [at : {"idle", "checking", "emptied", "head"},
                 instance : Preprocessors \cup {Nobody}]
    BY <1>5 DEF Idle
  <2>2. faults \in 0..MaxFaults
    BY <1>5, PreprocessorAssumption DEF PreprocessorAssumption
  <2> QED  BY <1>1, <1>2, <1>3, <1>4, <1>5, <2>1, <2>2 DEF TypeOK
<1>7. \A i : ~Queued(i)
  BY <1>1, <1>3 DEF Queued
<1>8. ConnSound /\ PlacesApart
  BY <1>1, <1>4, <1>5, <1>7, PreprocessorAssumption
     DEF ConnSound, PlacesApart, PreprocessorAssumption
<1>9. ChainSound /\ AskSound /\ RestSound
  <2>1. Elements(chain) \subseteq Preprocessors
    BY <1>6, ChainFacts
  <2> QED  BY <1>3, <1>5, <2>1 DEF ChainSound, AskSound, RestSound, RightlyAsked, AtRest, Idle
<1>10. WaitSound /\ InsertedKnown /\ NoItemForgotten
  BY <1>4, <1>5, <1>7 DEF WaitSound, InsertedKnown, NoItemForgotten
<1>11. OwedSound
  <2>1. Elements(chain) \subseteq Preprocessors
    BY <1>6, ChainFacts
  <2> QED  BY <1>1, <1>3, <1>5, <2>1 DEF OwedSound
<1> QED  BY <1>6, <1>8, <1>9, <1>10, <1>11 DEF PreprocessorInv

LEMMA StepSound == PreprocessorInv /\ [Next]_vars => PreprocessorInv'
<1> SUFFICES ASSUME PreprocessorInv, [Next]_vars PROVE PreprocessorInv'
  OBVIOUS
<1>1. CASE MainThread
  BY <1>1, HandleSignalKeeps, LooksKeep, ProcessHeadItemKeeps DEF MainThread
<1>2. ASSUME NEW p \in Preprocessors,
             \/ ItemProcessed(p) \/ Unheard(p)
             \/ RegisterInstance(p) \/ UnregisterInstance(p) \/ Heartbeat(p)
      PROVE  PreprocessorInv'
  <2>1. CASE UnregisterInstance(p) \/ Heartbeat(p)
    <3>1. Unregistered(p) /\ (faults' = faults \/ (faults < MaxFaults /\ faults' = faults + 1))
      BY <2>1 DEF UnregisterInstance, Heartbeat, Fault
    <3>2. faults' \in 0..MaxFaults
      BY <3>1, PreprocessorAssumption DEF PreprocessorInv, TypeOK, PreprocessorAssumption
    <3> QED  BY <3>1, <3>2, UnregisteredKeeps
  <2> QED  BY <1>2, <2>1, ItemProcessedKeeps, UnheardKeeps, RegisterInstanceKeeps
<1>3. ASSUME NEW c \in Connections, Connection(c) PROVE PreprocessorInv'
  BY <1>3, AppendItemKeeps, CommitAppendKeeps, NotifyKeeps, BeginKeeps, EndKeeps, CloseKeeps
     DEF Connection
<1>4. ASSUME NEW i \in Items, RemoveItem(i) PROVE PreprocessorInv'
  BY <1>4, RemoveItemKeeps
<1>5. CASE UNCHANGED vars
  <2>1. UNCHANGED <<item, hidden, conn, waitQueue, connected, signals, chain, instance,
                    main, owed, faults, mishaps>>
    BY <1>5 DEF vars
  <2>2. /\ \A i : Queued(i)' <=> Queued(i)
        /\ \A p : From(p)' = From(p)
        /\ \A c : (Open(c)' <=> Open(c)) /\ (Closed(c)' <=> Closed(c)) /\ (NoSignal(c)' <=> NoSignal(c))
        /\ \A i : Outside(i)' <=> Outside(i)
    BY <2>1 DEF Queued, From, Open, Closed, First, NoSignal, Outside
  <2>3. TypeOK' /\ ConnSound' /\ PlacesApart'
    BY <2>1, <2>2 DEF PreprocessorInv, TypeOK, ConnSound, PlacesApart
  <2>4. ChainSound' /\ AskSound' /\ RestSound'
    BY <2>1 DEF PreprocessorInv, ChainSound, AskSound, RestSound
  <2>5. WaitSound' /\ InsertedKnown' /\ NoItemForgotten' /\ OwedSound'
    BY <2>1, <2>2 DEF PreprocessorInv, WaitSound, InsertedKnown, NoItemForgotten, OwedSound
  <2> QED  BY <2>3, <2>4, <2>5 DEF PreprocessorInv
<1> QED  BY <1>1, <1>2, <1>3, <1>4, <1>5 DEF Next, Agents

LEMMA AlwaysSound == Spec => []PreprocessorInv
<1>1. Init => PreprocessorInv
  BY InitSound
<1>2. PreprocessorInv /\ [Next]_vars => PreprocessorInv'
  BY StepSound
<1> QED  BY <1>1, <1>2, PTL DEF Spec

\* Every variable keeps its type: in particular no preprocessor is in the chain
\* twice, however agents come and go.
THEOREM PreprocessorTypes == Spec => []TypeOK
<1>1. PreprocessorInv => TypeOK
  BY DEF PreprocessorInv
<1> QED  BY <1>1, AlwaysSound, PTL

\* No stored item stays hidden where nobody will come by: endHandleItem() is owed to
\* it by its connection, a wait queue or an instance, but for the mishaps named.
THEOREM NothingStaysBehind == Spec => []NoItemForgotten
<1>1. PreprocessorInv => NoItemForgotten
  BY DEF PreprocessorInv
<1> QED  BY <1>1, AlwaysSound, PTL

\* itemProcessed() takes the head of the queue without looking at the item the
\* agent names; it is right to, as long as agents are not registered anew.
THEOREM AnswersForHead == Spec => []AskedForHead
<1>1. ASSUME PreprocessorInv PROVE AskedForHead
  <2> SUFFICES ASSUME mishaps \cap {"stalled", "stale", "deadlock"} = {},
                      NEW p \in Elements(chain), p # main.instance
               PROVE  IF instance[p].busy
                      THEN instance[p].queue # <<>> /\ instance[p].asked = <<Head(instance[p].queue)>>
                      ELSE instance[p].queue = <<>> /\ instance[p].asked = <<>>
    BY DEF AskedForHead
  <2>1. RightlyAsked(instance[p]) /\ AtRest(instance[p])
    BY <1>1 DEF PreprocessorInv, AskSound, RestSound
  <2> QED  BY <2>1 DEF RightlyAsked, AtRest
<1> QED  BY <1>1, AlwaysSound, PTL

\* No hidden item is shown before every preprocessor that is still in the chain has
\* answered for it, whichever of them come, go or are given up on the way.
THEOREM ShownLast == Spec => []ShownProcessed
<1>1. ASSUME PreprocessorInv PROVE ShownProcessed
  BY <1>1 DEF PreprocessorInv, OwedSound, Outside, ShownProcessed
<1> QED  BY <1>1, AlwaysSound, PTL
=============================================================================
