----------------------- MODULE ChangeRecorder_proofs -----------------------
(***************************************************************************)
(* The change recorder keeps its types, it always knows how many changes   *)
(* it holds, and as long as its file can be written the file holds them:   *)
(* for any entities, messages and bounds.                                  *)
(*                                                                         *)
(* The argument goes method by method.  Sound(r) is what the assertions of *)
(* the code ask of a recorder; Kept(r) is what makes the three ways to     *)
(* write the file interchangeable.  Each method keeps both, whatever the   *)
(* agent does in between; the theorems about the specification follow.     *)
(* Then, the recorder implements ChangeLog, in the circumstances that      *)
(* Undisturbed names.  Last, the replay on the server: the record accounts *)
(* for every difference between the cache and the server, so that nothing  *)
(* differs when nothing is recorded any more; and the messages on the      *)
(* server are counted, upload by upload.                                   *)
(***************************************************************************)
EXTENDS ChangeReplay, ListFacts, FiniteSetTheorems

-----------------------------------------------------------------------------
(* What the operators of Notifications and Monitor return: lists of        *)
(* messages and counts, and counts that add up                             *)

\* What appending to a list of messages results in.
Outcomes == [list : Seq(Message), appended : Nat]

LEMMA OutcomeType ==
  ASSUME NEW list \in Seq(Message), NEW n \in Nat
  PROVE  Outcome(list, n) \in Outcomes
BY DEF Outcome, Outcomes

LEMMA WithoutType ==
  ASSUME NEW T, NEW q \in Seq(T), NEW i \in DOMAIN q
  PROVE  Without(q, i) \in Seq(T)
<1>1. i \in 1..Len(q)
  OBVIOUS
<1>2. SubSeq(q, 1, i - 1) \in Seq(T) /\ SubSeq(q, i + 1, Len(q)) \in Seq(T)
  BY <1>1, SubSeqProperties
<1> QED  BY <1>2 DEF Without

\* Whatever is first in a list is one of its positions.
LEMMA FirstInType ==
  ASSUME NEW T, NEW q \in Seq(T), NEW S
  PROVE  FirstIn(q, S) = 0 \/ FirstIn(q, S) \in DOMAIN q
<1>1. CASE \E i \in DOMAIN q : q[i] \in S
  <2>1. PICK i \in 1..Len(q) : q[i] \in S
    BY <1>1
  <2>2. \E j \in 1..Len(q) : q[j] \in S /\ \A k \in 1..Len(q) : q[k] \in S => j <= k
    <3>1. Len(q) \in Nat
      OBVIOUS
    <3> QED  BY <2>1, <3>1, SmallestIndex, Zenon
  <2>3. \E j \in DOMAIN q : q[j] \in S /\ \A k \in DOMAIN q : q[k] \in S => j <= k
    BY <2>2
  <2> QED  BY <1>1, <2>3 DEF FirstIn
<1>2. CASE ~ \E i \in DOMAIN q : q[i] \in S
  BY <1>2 DEF FirstIn
<1> QED  BY <1>1, <1>2

LEMMA MergedType ==
  ASSUME NEW msg \in Message, NEW old \in Message
  PROVE  Merged(msg, old) \in Message
BY DEF Merged, Message

LEMMA MergeAtType ==
  ASSUME NEW list \in Seq(Message), NEW i \in DOMAIN list, NEW msg \in Message
  PROVE  MergeAt(list, i, msg) \in Outcomes
<1> DEFINE m == Merged(msg, list[i])
<1>1. m \in Message
  BY MergedType
<1> HIDE DEF m
<1>2. Outcome(Without(list, i), 0) \in Outcomes
  BY WithoutType, OutcomeType
<1>3. Outcome([list EXCEPT ![i] = m], 0) \in Outcomes
  <2>1. [list EXCEPT ![i] = m] \in Seq(Message)
    BY <1>1
  <2> QED  BY <2>1 DEF Outcome, Outcomes
<1> QED  BY <1>2, <1>3 DEF MergeAt, m

\* Compression makes a list of messages from a list of messages.
LEMMA appendAndCompressType ==
  ASSUME NEW list \in Seq(Message), NEW msg \in Message
  PROVE  appendAndCompress(list, msg) \in Outcomes
<1> DEFINE i == FirstIn(list, Stops(list, msg))
<1>1. i = 0 \/ i \in DOMAIN list
  BY FirstInType
<1> HIDE DEF i
<1>2. Purged(list, msg) \in Seq(Message)
  BY KeepType DEF Purged
<1>3. Outcome(Append(Purged(list, msg), msg), 1) \in Outcomes
  <2>1. Append(Purged(list, msg), msg) \in Seq(Message)
    BY <1>2
  <2> QED  BY <2>1 DEF Outcome, Outcomes
<1>4. Outcome(Append(list, msg), 1) \in Outcomes
  <2>1. Append(list, msg) \in Seq(Message)
    OBVIOUS
  <2> QED  BY <2>1 DEF Outcome, Outcomes
<1>5. i # 0 => MergeAt(list, i, msg) \in Outcomes
  BY <1>1, MergeAtType
<1>6. Outcome(list, 0) \in Outcomes
  BY OutcomeType
<1> QED  BY <1>3, <1>4, <1>5, <1>6 DEF appendAndCompress, i

\* The order of the entities of a message names each of them.
LEMMA InOrderType ==
  ASSUME NEW S, IsFiniteSet(S)
  PROVE  Cardinality(S) \in Nat /\ InOrder(S) \in [1..Cardinality(S) -> S]
<1> DEFINE n == Cardinality(S)
<1>1. n \in Nat /\ ExistsBijection(1..n, S)
  BY FS_CardinalityType
<1>2. \E q \in [1..n -> S] : \A e \in S : \E i \in DOMAIN q : q[i] = e
  <2>1. PICK q : q \in Bijection(1..n, S)
    BY <1>1 DEF ExistsBijection
  <2>2. q \in [1..n -> S] /\ \A e \in S : \E i \in 1..n : q[i] = e
    BY <2>1 DEF Bijection, Injection, Surjection
  <2> QED  BY <2>2
<1> HIDE DEF n
<1>3. InOrder(S) = CHOOSE q \in [1..n -> S] : \A e \in S : \E i \in DOMAIN q : q[i] = e
  BY DEF InOrder, n
<1>4. InOrder(S) \in [1..n -> S]
  BY <1>2, <1>3
<1> QED  BY <1>1, <1>4 DEF n

\* A message is split into as many messages as it has entities.
LEMMA splitMessageType ==
  ASSUME IsFiniteSet(Entities), NEW msg \in Message, NEW legacy
  PROVE  splitMessage(msg, legacy) \in Seq(Message)
<1> DEFINE ids == InOrder(msg.entities)
           n == Cardinality(msg.entities)
<1>1. msg.entities \subseteq Entities
  BY DEF Message
<1>2. n \in Nat /\ ids \in [1..n -> msg.entities]
  BY <1>1, FS_Subset, InOrderType
<1> HIDE DEF n, ids
<1>3. \A i \in 1..n : Piece(msg, legacy, ids[i]) \in Message
  <2> SUFFICES ASSUME NEW i \in 1..n PROVE Piece(msg, legacy, ids[i]) \in Message
    OBVIOUS
  <2>1. ids[i] \in Entities
    BY <1>1, <1>2
  <2> QED  BY <2>1 DEF Piece, Message, Operation, Modifications
<1>4. splitMessage(msg, legacy) = [i \in 1..n |-> Piece(msg, legacy, ids[i])]
  BY DEF splitMessage, n, ids
<1> QED  BY <1>2, <1>3, <1>4

LEMMA translateAndCompressType ==
  ASSUME IsFiniteSet(Entities), NEW list \in Seq(Message), NEW msg \in Message
  PROVE  translateAndCompress(list, msg) \in Outcomes
<1> DEFINE removal   == [msg EXCEPT !.op = "Remove", !.dest = None]
           insertion == [msg EXCEPT !.op = "Add", !.parent = msg.dest, !.dest = None]
           added == splitMessage(insertion, FALSE)
<1>1. removal \in Message /\ insertion \in Message
  BY DEF Message, Operation, FastPath
<1> HIDE DEF removal, insertion
<1>2. added \in Seq(Message)
  BY <1>1, splitMessageType
<1> HIDE DEF added
<1>3. Outcome(list \o added, Len(added)) \in Outcomes
  <2>1. list \o added \in Seq(Message) /\ Len(added) \in Nat
    BY <1>2
  <2> QED  BY <2>1 DEF Outcome, Outcomes
<1>4. Outcome(list, 0) \in Outcomes
  BY OutcomeType
<1>5. appendAndCompress(list, msg) \in Outcomes /\ appendAndCompress(list, removal) \in Outcomes
  BY <1>1, appendAndCompressType
<1> QED
  BY <1>3, <1>4, <1>5 DEF translateAndCompress, removal, insertion, added

-----------------------------------------------------------------------------

\* The states of the loop in slotNotify() that started from a list: as long as
\* nothing was erased, the list grew by what was appended.
Counted(list, i) ==
  {d \in [list : Seq(Message), appended : Nat, erased : BOOLEAN, next : Nat] :
     /\ d.next = i + 1
     /\ ~d.erased => Len(d.list) = Len(list) + d.appended}

LEMMA RoundCounts ==
  ASSUME IsFiniteSet(Entities), NEW sig, NEW list \in Seq(Message), NEW i \in Nat,
         NEW d \in Counted(list, i), NEW msg \in Message
  PROVE  LET r == Round(sig, d, msg)
         IN [list |-> r.list, appended |-> r.appended, erased |-> r.erased,
             next |-> d.next + 1] \in Counted(list, i + 1)
<1> DEFINE whole == IF QueuesWhole(sig, msg)
                    THEN translateAndCompress(d.list, msg) ELSE Outcome(d.list, 0)
           pieces == IF QueuesPieces(sig, msg)
                     THEN splitMessage(msg, ~BatchSupported(sig, msg)) ELSE <<>>
           r == Round(sig, d, msg)
<1>1. d.list \in Seq(Message) /\ d.appended \in Nat /\ d.erased \in BOOLEAN /\ d.next = i + 1
  BY DEF Counted
<1>2. whole \in Outcomes
  BY <1>1, translateAndCompressType, OutcomeType
<1>3. pieces \in Seq(Message)
  BY splitMessageType
<1>4. r = [list |-> whole.list \o pieces,
           appended |-> d.appended + whole.appended + Len(pieces),
           erased |-> \/ d.erased
                      \/ Len(whole.list) # Len(d.list) + whole.appended]
  BY DEF Round
<1> HIDE DEF whole, pieces, r
<1>5. whole.list \in Seq(Message) /\ whole.appended \in Nat
  BY <1>2 DEF Outcomes
<1>6. /\ r.list \in Seq(Message) /\ r.appended \in Nat /\ r.erased \in BOOLEAN
      /\ Len(r.list) = Len(whole.list) + Len(pieces)
  BY <1>1, <1>3, <1>4, <1>5
<1>7. ~r.erased => Len(r.list) = Len(list) + r.appended
  <2>1. SUFFICES ASSUME ~r.erased PROVE Len(r.list) = Len(list) + r.appended
    OBVIOUS
  <2>2. ~d.erased /\ Len(whole.list) = Len(d.list) + whole.appended
    BY <2>1, <1>4
  <2>3. Len(d.list) = Len(list) + d.appended
    BY <2>2 DEF Counted
  <2>4. /\ Len(r.list) = Len(list) + d.appended + whole.appended + Len(pieces)
        /\ Len(list) \in Nat /\ Len(pieces) \in Nat
    BY <1>1, <1>3, <1>5, <1>6, <2>2, <2>3, SMTT(30)
  <2>5. r.appended = d.appended + whole.appended + Len(pieces)
    BY <1>4
  <2> QED  BY <1>1, <1>5, <2>4, <2>5
<1>8. [list |-> r.list, appended |-> r.appended, erased |-> r.erased,
       next |-> d.next + 1] \in Counted(list, i + 1)
  BY <1>1, <1>6, <1>7 DEF Counted
<1> QED  BY <1>8 DEF r

\* The counts slotNotify() reports are right: if it does not report that
\* messages were erased, the list has grown by the messages it says it appended.
THEOREM EnqueuedCounts ==
  ASSUME IsFiniteSet(Entities), NEW sig, NEW list \in Seq(Message),
         NEW msgs \in Seq(Message)
  PROVE  LET done == Enqueued(sig, list, msgs)
         IN /\ done.list \in Seq(Message)
            /\ done.appended \in Nat
            /\ ~done.erased => Len(done.list) = Len(list) + done.appended
<1> DEFINE D == [list : Seq(Message), appended : Nat, erased : BOOLEAN, next : Nat]
           step == [d \in D |->
                      LET msg == msgs[d.next]
                          r == Round(sig, d, msg)
                      IN [list |-> r.list, appended |-> r.appended,
                          erased |-> r.erased, next |-> d.next + 1]]
           s == [list |-> list, appended |-> 0, erased |-> FALSE, next |-> 1]
           n == Len(msgs)
           Holds == [i \in 0..n |-> Counted(list, i)]
           done == Enqueued(sig, list, msgs)
<1>1. done = Iterate(step, s, n)
  BY DEF Enqueued
<1>2. n \in Nat /\ s \in Holds[0]
  <2>1. n \in Nat /\ Len(list) \in Nat
    OBVIOUS
  <2>2. s \in Counted(list, 0)
    BY <2>1 DEF Counted
  <2>3. 0 \in 0..n
    BY <2>1
  <2> HIDE DEF s, n
  <2> QED  BY <2>1, <2>2, <2>3
<1>3. ASSUME NEW i \in 0..(n-1), NEW d \in Holds[i] PROVE step[d] \in Holds[i+1]
  <2>1. i \in Nat /\ i \in 0..n /\ i + 1 \in 0..n /\ n \in Nat
    BY <1>2
  <2>2. d \in Counted(list, i)
    BY <2>1
  <2>3. d \in D /\ d.next = i + 1
    BY <2>2 DEF Counted
  <2>4. msgs[d.next] \in Message
    BY <2>1, <2>3
  <2> DEFINE r == Round(sig, d, msgs[d.next])
             e == [list |-> r.list, appended |-> r.appended,
                   erased |-> r.erased, next |-> d.next + 1]
  <2>5. e \in Counted(list, i + 1)
    BY <2>1, <2>2, <2>4, RoundCounts
  <2>6. step[d] = e
    BY <2>3
  <2> HIDE DEF step, e
  <2> QED  BY <2>1, <2>5, <2>6
<1> HIDE DEF step, s, Holds
<1>4. Iterate(step, s, n) \in Holds[n]
  BY <1>2, <1>3, IterateHolds
<1>5. done \in Counted(list, n)
  BY <1>1, <1>2, <1>4 DEF Holds
<1> HIDE DEF done
<1> QED  BY <1>5 DEF Counted, done

-----------------------------------------------------------------------------
(* The recorder *)

Sound(r) == r \in Recorder /\ r.lastKnown = Len(r.pending)

\* The file holds the list; and unless it is to be rewritten, its start offset
\* is the one that would be counted up.
Kept(r) ==
  /\ Loaded(r.file) = r.pending
  /\ ~r.needFullSave => r.startOffset = r.file.offset

\* A recorder before and after a method that could write the file, or not.
Keeps(r, after, w) ==
  Sound(after) /\ (w /\ Kept(r) => Kept(after))

LEMMA KeepsTransitive ==
  ASSUME NEW r, NEW s, NEW t, NEW w, Keeps(r, s, w), Keeps(s, t, w)
  PROVE  Keeps(r, t, w)
BY DEF Keeps

-----------------------------------------------------------------------------
(* Reading and writing *)

LEMMA LoadedType ==
  ASSUME NEW file \in File
  PROVE  Loaded(file) \in Seq(Message)
<1>1. file.entries \in Seq(Message) /\ file.offset \in Nat
  BY DEF File
<1>2. SubSeq(file.entries, file.offset + 1, Len(file.entries)) \in Seq(Message)
  BY <1>1, SubSeqProperties
<1> QED  BY <1>2 DEF Loaded

\* What was saved whole is read back.
LEMMA SavedIsLoaded ==
  ASSUME NEW pending \in Seq(Message)
  PROVE  SavedFile(pending) \in File /\ Loaded(SavedFile(pending)) = pending
<1>1. SavedFile(pending) \in File
  BY DEF SavedFile, File
<1>2. Loaded(SavedFile(pending)) = SubSeq(pending, 1, Len(pending))
  BY DEF SavedFile, Loaded
<1>3. SubSeq(pending, 1, Len(pending)) = pending
  OBVIOUS
<1> QED  BY <1>1, <1>2, <1>3

\* Raising the start offset by one drops the first of the changes that are read.
LEMMA OffsetDropsFirst ==
  ASSUME NEW file \in File, Loaded(file) # <<>>
  PROVE  Loaded([file EXCEPT !.offset = file.offset + 1]) = Tail(Loaded(file))
<1> DEFINE e == file.entries
           o == file.offset
           next == [file EXCEPT !.offset = o + 1]
<1>1. e \in Seq(Message) /\ o \in Nat /\ Len(e) \in Nat
  BY DEF File
<1>2. /\ file.version \in {2, 3}
      /\ Loaded(file) = SubSeq(e, o + 1, Len(e))
      /\ Loaded(next) = SubSeq(e, o + 2, Len(e))
  <2>1. file.version \in {2, 3}
    BY DEF Loaded
  <2>2. next.version = file.version /\ next.entries = e /\ next.offset = o + 1
    BY DEF File
  <2>3. (o + 1) + 1 = o + 2
    BY <1>1
  <2> HIDE DEF next
  <2> QED  BY <2>1, <2>2, <2>3 DEF Loaded
<1> HIDE DEF e, o, next
<1>3. SubSeq(e, o + 2, Len(e)) = Tail(SubSeq(e, o + 1, Len(e)))
  <2> DEFINE a == SubSeq(e, o + 1, Len(e))
             b == SubSeq(e, o + 2, Len(e))
  <2>1. o + 1 <= Len(e)
    BY <1>1, <1>2
  <2>2. /\ a \in Seq(Message) /\ Len(a) = Len(e) - o
        /\ \A i \in 1..(Len(e) - o) : a[i] = e[o + i]
    BY <1>1, <2>1, SubSeqProperties
  <2>3. /\ b \in Seq(Message) /\ Len(b) = Len(e) - o - 1
        /\ \A i \in 1..(Len(e) - o - 1) : b[i] = e[o + 1 + i]
    BY <1>1, <2>1, SubSeqProperties
  <2> HIDE DEF a, b
  <2>4. a # <<>>
    BY <1>1, <2>1, <2>2
  <2>5. /\ Tail(a) \in Seq(Message) /\ Len(Tail(a)) = Len(a) - 1
        /\ \A i \in 1..Len(Tail(a)) : Tail(a)[i] = a[i+1]
    BY <2>2, <2>4, HeadTailProperties
  <2>6. ASSUME NEW i \in 1..Len(Tail(a)) PROVE Tail(a)[i] = b[i]
    <3>1. i \in 1..(Len(e) - o - 1) /\ i + 1 \in 1..(Len(e) - o) /\ o + (i + 1) = o + 1 + i
      BY <1>1, <2>1, <2>2, <2>5
    <3>2. Tail(a)[i] = a[i+1] /\ a[i+1] = e[o + (i + 1)] /\ b[i] = e[o + 1 + i]
      BY <3>1, <2>2, <2>3, <2>5
    <3> QED  BY <3>1, <3>2
  <2>7. Len(Tail(a)) = Len(b)
    BY <1>1, <2>2, <2>3, <2>5
  <2>8. Tail(a) = b
    BY <2>3, <2>5, <2>6, <2>7, SeqEqual
  <2> QED  BY <2>8 DEF a, b
<1> QED  BY <1>2, <1>3 DEF e, o, next

LEMMA saveNotificationsKeeps ==
  ASSUME NEW r, Sound(r), NEW w
  PROVE  /\ Sound(saveNotifications(r, w))
         /\ w => Kept(saveNotifications(r, w))
<1>1. r.pending \in Seq(Message)
  BY DEF Sound, Recorder
<1>2. SavedFile(r.pending) \in File /\ Loaded(SavedFile(r.pending)) = r.pending
  BY <1>1, SavedIsLoaded
<1>3. SavedFile(r.pending).offset = 0
  BY DEF SavedFile
<1> QED
  BY <1>1, <1>2, <1>3 DEF saveNotifications, Sound, Kept, Recorder

LEMMA notificationsErasedKeeps ==
  ASSUME NEW r \in Recorder, NEW w
  PROVE  /\ Sound(notificationsErased(r, w))
         /\ w => Kept(notificationsErased(r, w))
<1> DEFINE s == [r EXCEPT !.lastKnown = Len(r.pending), !.needFullSave = TRUE]
<1>1. Sound(s)
  <2>1. r.pending \in Seq(Message) /\ Len(r.pending) \in Int
    BY DEF Recorder
  <2> QED  BY <2>1 DEF Sound, Recorder
<1>2. notificationsErased(r, w) = saveNotifications(s, w)
  BY DEF notificationsErased
<1> HIDE DEF s
<1> QED  BY <1>1, <1>2, saveNotificationsKeeps

LEMMA dequeueNotificationKeeps ==
  ASSUME NEW r, Sound(r), r.pending # <<>>, NEW w
  PROVE  /\ Keeps(r, dequeueNotification(r, w), w)
         /\ dequeueNotification(r, w).pending = Tail(r.pending)
<1> DEFINE d == [r EXCEPT !.pending = Tail(r.pending), !.lastKnown = r.lastKnown - 1]
           e == [d EXCEPT !.startOffset = d.startOffset + 1]
<1>1. r \in Recorder /\ r.pending \in Seq(Message) /\ r.lastKnown = Len(r.pending)
  BY DEF Sound, Recorder
<1>2. Tail(r.pending) \in Seq(Message) /\ Len(Tail(r.pending)) = Len(r.pending) - 1
  BY <1>1
<1>3. Sound(d) /\ d.pending = Tail(r.pending)
  <2>1. r.lastKnown - 1 \in Int /\ r.lastKnown - 1 = Len(Tail(r.pending))
    BY <1>1, <1>2
  <2> QED  BY <1>1, <1>2, <2>1 DEF Sound, Recorder
<1>4. dequeueNotification(r, w) =
        IF d.needFullSave \/ d.pending = <<>> THEN saveNotifications(d, w)
        ELSE writeStartOffset(e, w)
  BY DEF dequeueNotification
<1>5. CASE d.needFullSave \/ d.pending = <<>>
  <2>1. dequeueNotification(r, w) = saveNotifications(d, w)
    BY <1>4, <1>5
  <2>2. saveNotifications(d, w).pending = d.pending
    BY <1>3 DEF saveNotifications, Sound, Recorder
  <2> HIDE DEF d
  <2> QED  BY <1>3, <2>1, <2>2, saveNotificationsKeeps DEF Keeps
<1>6. CASE ~(d.needFullSave \/ d.pending = <<>>)
  <2>1. dequeueNotification(r, w) = writeStartOffset(e, w)
    BY <1>4, <1>6
  <2>2. r.startOffset \in Nat /\ r.file \in File /\ ~r.needFullSave
    BY <1>1, <1>6 DEF Recorder
  <2> DEFINE f == [e EXCEPT !.file.offset = e.startOffset]
  <2>3. /\ Sound(e) /\ e.pending = Tail(r.pending)
        /\ e.startOffset = r.startOffset + 1 /\ e.file = r.file
    <3>1. d.startOffset = r.startOffset /\ d.file = r.file
      BY <1>1 DEF Recorder
    <3> HIDE DEF d
    <3>2. d.startOffset + 1 \in Nat
      BY <2>2, <3>1
    <3> QED  BY <1>3, <2>2, <3>1, <3>2 DEF Sound, Recorder
  <2>4. /\ Sound(f) /\ f.pending = Tail(r.pending)
        /\ f.startOffset = r.startOffset + 1
        /\ f.file = [r.file EXCEPT !.offset = r.startOffset + 1]
    <3> HIDE DEF e
    <3> QED  BY <2>2, <2>3 DEF Sound, Recorder, File
  <2>5. Kept(r) => Kept(f)
    <3>1. SUFFICES ASSUME Kept(r) PROVE Kept(f)
      OBVIOUS
    <3>2. Loaded(r.file) = r.pending /\ r.startOffset = r.file.offset
      BY <2>2, <3>1 DEF Kept
    <3>3. Loaded([r.file EXCEPT !.offset = r.file.offset + 1]) = Tail(r.pending)
      BY <2>2, <3>2, OffsetDropsFirst
    <3>4. f.file.offset = r.startOffset + 1
      BY <2>2, <2>4 DEF File
    <3> HIDE DEF f
    <3> QED  BY <2>4, <3>2, <3>3, <3>4 DEF Kept
  <2>6. writeStartOffset(e, w) = IF ~w THEN e ELSE f
    BY DEF writeStartOffset
  <2> HIDE DEF e, f
  <2> QED  BY <2>1, <2>3, <2>4, <2>5, <2>6 DEF Keeps
<1> QED  BY <1>5, <1>6

LEMMA loadNotificationsKeeps ==
  ASSUME NEW file \in File
  PROVE  Sound(loadNotifications(file)) /\ Kept(loadNotifications(file))
<1>1. Loaded(file) \in Seq(Message)
  BY LoadedType
<1>2. file.offset \in Nat
  BY DEF File
<1>3. Len(Loaded(file)) \in Int
  BY <1>1
<1> DEFINE r == loadNotifications(file)
<1>4. /\ r.pending = Loaded(file) /\ r.pipeline = <<>> /\ r.lastKnown = Len(Loaded(file))
      /\ r.startOffset = 0 /\ r.file = file
  BY DEF loadNotifications
<1>5. r \in Recorder
  BY <1>1, <1>3 DEF loadNotifications, Recorder
<1>6. r.needFullSave <=> file.offset > 0 \/ file.version = 0
  BY DEF loadNotifications
<1> HIDE DEF r
<1>7. Sound(r) /\ Kept(r)
  BY <1>2, <1>4, <1>5, <1>6 DEF Sound, Kept
<1> QED  BY <1>7 DEF r

LEMMA EmptyRecorderSound ==
  ASSUME NEW file \in File
  PROVE  Sound(EmptyRecorder(file))
BY DEF EmptyRecorder, Sound, Recorder

-----------------------------------------------------------------------------
(* The methods *)

LEMMA slotNotifyKeeps ==
  ASSUME NEW r, Sound(r), NEW sig, NEW msgs \in Seq(Message), NEW w \in BOOLEAN
  PROVE  Keeps(r, slotNotify(r, sig, msgs, w), w)
<1> DEFINE wanted == Wanted(sig, msgs)
           done == Enqueued(sig, r.pending, wanted)
           n == [r EXCEPT !.pending = done.list]
           m == [n EXCEPT !.lastKnown = n.lastKnown + done.appended]
<1>1. r \in Recorder /\ r.pending \in Seq(Message) /\ r.lastKnown = Len(r.pending)
  BY DEF Sound, Recorder
<1>2. wanted \in Seq(Message)
  BY KeepType DEF Wanted
<1>3. slotNotify(r, sig, msgs, w) =
        IF wanted = <<>> THEN r
        ELSE IF done.erased THEN notificationsErased(n, w)
        ELSE saveNotifications(m, w)
  BY DEF slotNotify, notificationsEnqueued
<1> HIDE DEF wanted
<1>4. /\ done.list \in Seq(Message) /\ done.appended \in Nat
      /\ ~done.erased => Len(done.list) = Len(r.pending) + done.appended
  BY <1>1, <1>2, EnqueuedCounts, RecorderAssumption
<1> HIDE DEF done
<1>5. n \in Recorder
  BY <1>1, <1>4 DEF Recorder
<1>6. ~done.erased => Sound(m)
  <2>1. SUFFICES ASSUME ~done.erased PROVE Sound(m)
    OBVIOUS
  <2>2. n.pending = done.list /\ n.lastKnown = r.lastKnown
    BY <1>1 DEF Recorder
  <2>3. n.lastKnown + done.appended \in Int /\ n.lastKnown + done.appended = Len(done.list)
    BY <1>1, <1>4, <2>1, <2>2
  <2> HIDE DEF n
  <2> QED  BY <1>5, <2>2, <2>3 DEF Sound, Recorder
<1> HIDE DEF n, m
<1>7. CASE wanted = <<>>
  BY <1>3, <1>7 DEF Keeps
<1>8. CASE wanted # <<>> /\ done.erased
  BY <1>3, <1>5, <1>8, notificationsErasedKeeps DEF Keeps
<1>9. CASE wanted # <<>> /\ ~done.erased
  BY <1>3, <1>6, <1>9, saveNotificationsKeeps DEF Keeps
<1> QED  BY <1>7, <1>8, <1>9

LEMMA StillHeardType ==
  ASSUME NEW list \in Seq(Message), NEW sig
  PROVE  StillHeard(sig, list) \in Seq(Message)
BY KeepType DEF StillHeard

LEMMA cleanOldNotificationsKeeps ==
  ASSUME NEW r, Sound(r), NEW sig, NEW w \in BOOLEAN
  PROVE  Keeps(r, cleanOldNotifications(r, sig, w), w)
<1> DEFINE c == [r EXCEPT !.pipeline = StillHeard(sig, r.pipeline),
                          !.pending = StillHeard(sig, r.pending)]
<1>1. r \in Recorder /\ r.pending \in Seq(Message) /\ r.pipeline \in Seq(Message)
  BY DEF Sound, Recorder
<1>2. StillHeard(sig, r.pipeline) \in Seq(Message) /\ StillHeard(sig, r.pending) \in Seq(Message)
  BY <1>1, StillHeardType
<1>3. c \in Recorder
  BY <1>1, <1>2 DEF Recorder
<1>4. cleanOldNotifications(r, sig, w) =
        IF c.pipeline = r.pipeline /\ c.pending = r.pending THEN r
        ELSE notificationsErased(c, w)
  BY DEF cleanOldNotifications
<1> HIDE DEF c
<1>5. Keeps(r, r, w)
  BY DEF Keeps
<1>6. Keeps(r, notificationsErased(c, w), w)
  BY <1>3, notificationsErasedKeeps DEF Keeps
<1> QED  BY <1>4, <1>5, <1>6

LEMMA changeProcessedKeeps ==
  ASSUME NEW r, Sound(r), NEW w \in BOOLEAN
  PROVE  Keeps(r, changeProcessed(r, w), w)
BY dequeueNotificationKeeps DEF changeProcessed, Keeps

\* Where replayNext() can stand: only a change that is there is emitted.
Stand(r, w) ==
  {x \in [r : Recorder, said : Said] :
     /\ Keeps(r, x.r, w)
     /\ x.said = "emitted" => x.r.pending # <<>>}

LEMMA AtStands ==
  ASSUME NEW r, NEW s, NEW w, Keeps(r, s, w), NEW said \in Said,
         said = "emitted" => s.pending # <<>>
  PROVE  At(s, said) \in Stand(r, w)
BY DEF At, Stand, Keeps, Sound

LEMMA SkipHeadStands ==
  ASSUME NEW r, NEW s, NEW w, Keeps(r, s, w)
  PROVE  SkipHead(s, w) \in Stand(r, w)
<1>1. CASE s.pending = <<>>
  <2>1. At(s, "fault") \in Stand(r, w)
    BY AtStands DEF Said
  <2> QED  BY <1>1, <2>1 DEF SkipHead
<1>2. CASE s.pending # <<>>
  <2>1. Keeps(s, dequeueNotification(s, w), w)
    BY <1>2, dequeueNotificationKeeps DEF Keeps
  <2>2. Keeps(r, dequeueNotification(s, w), w)
    BY <2>1, KeepsTransitive
  <2>3. At(dequeueNotification(s, w), "again") \in Stand(r, w)
    BY <2>2, AtStands DEF Said
  <2> QED  BY <1>2, <2>3 DEF SkipHead
<1> QED  BY <1>1, <1>2

LEMMA ReplayOneStands ==
  ASSUME NEW r, NEW s, NEW w \in BOOLEAN, Keeps(r, s, w), NEW sig, NEW cached
  PROVE  ReplayOne(s, sig, cached, w) \in Stand(r, w)
<1> DEFINE msg == Head(s.pending)
           filled == translateAndCompress(s.pipeline, msg)
           p == [s EXCEPT !.pipeline = filled.list]
           clean == cleanOldNotifications(s, sig, w)
<1>1. Sound(s) /\ s \in Recorder /\ s.pending \in Seq(Message) /\ s.pipeline \in Seq(Message)
  BY DEF Keeps, Sound, Recorder
<1>2. CASE s.pending = <<>>
  <2>1. At(s, "nothing") \in Stand(r, w)
    BY AtStands DEF Said
  <2> QED  BY <1>2, <2>1 DEF ReplayOne
<1>3. CASE s.pending # <<>>
  <2>1. msg \in Message
    BY <1>1, <1>3
  <2>2. At(s, "emitted") \in Stand(r, w)
    BY <1>3, AtStands DEF Said
  <2>3. SkipHead(clean, w) \in Stand(r, w)
    <3>1. Keeps(s, clean, w)
      BY <1>1, cleanOldNotificationsKeeps
    <3>2. Keeps(r, clean, w)
      BY <3>1, KeepsTransitive
    <3> QED  BY <3>2, SkipHeadStands
  <2>4. Keeps(r, p, w)
    <3>1. filled \in Outcomes
      BY <1>1, <2>1, translateAndCompressType, RecorderAssumption
    <3>2. filled.list \in Seq(Message)
      BY <3>1 DEF Outcomes
    <3> HIDE DEF filled
    <3>3. /\ p \in Recorder /\ p.pending = s.pending /\ p.lastKnown = s.lastKnown
          /\ p.file = s.file /\ p.startOffset = s.startOffset
          /\ p.needFullSave = s.needFullSave
      BY <1>1, <3>2 DEF Recorder
    <3> HIDE DEF p
    <3>4. Keeps(s, p, w)
      BY <1>1, <3>3 DEF Keeps, Sound, Kept
    <3> QED  BY <3>4, KeepsTransitive
  <2>5. At(p, "waiting") \in Stand(r, w) /\ SkipHead(p, w) \in Stand(r, w)
    BY <2>4, AtStands, SkipHeadStands DEF Said
  <2> QED  BY <1>3, <2>2, <2>3, <2>5 DEF ReplayOne
<1> QED  BY <1>2, <1>3

LEMMA replayNextStands ==
  ASSUME NEW r, Sound(r), NEW sig, NEW cached, NEW w \in BOOLEAN
  PROVE  replayNext(r, sig, cached, w) \in Stand(r, w)
<1> DEFINE step == [x \in [r : Recorder, said : Said] |->
                      IF x.said = "again" THEN ReplayOne(x.r, sig, cached, w) ELSE x]
           n == Len(r.pending) + 1
           Holds == [i \in 0..n |-> Stand(r, w)]
<1>1. replayNext(r, sig, cached, w) = Iterate(step, At(r, "again"), n)
  BY DEF replayNext
<1>2. n \in Nat
  BY DEF Sound, Recorder
<1>3. At(r, "again") \in Stand(r, w)
  BY AtStands DEF Keeps, Said
<1>4. ASSUME NEW x \in Stand(r, w) PROVE step[x] \in Stand(r, w)
  <2>1. x \in [r : Recorder, said : Said] /\ Keeps(r, x.r, w)
    BY DEF Stand
  <2>2. ReplayOne(x.r, sig, cached, w) \in Stand(r, w)
    BY <2>1, ReplayOneStands
  <2>3. step[x] = IF x.said = "again" THEN ReplayOne(x.r, sig, cached, w) ELSE x
    BY <2>1
  <2> HIDE DEF step
  <2> QED  BY <2>2, <2>3
<1> HIDE DEF step, n
<1>5. At(r, "again") \in Holds[0] /\ Holds[n] = Stand(r, w)
  BY <1>2, <1>3
<1>6. \A i \in 0..(n-1) : \A x \in Holds[i] : step[x] \in Holds[i+1]
  BY <1>2, <1>4
<1> HIDE DEF Holds
<1>7. Iterate(step, At(r, "again"), n) \in Holds[n]
  BY <1>2, <1>5, <1>6, IterateHolds
<1> QED  BY <1>1, <1>5, <1>7

\* Where flushPipeline() can stand.
Flushed(r, w) ==
  {x \in [r : Recorder, emitted : Seq(Message)] : Keeps(r, x.r, w)}

LEMMA FlushOneStands ==
  ASSUME NEW r, NEW w \in BOOLEAN, NEW x \in Flushed(r, w), NEW sig
  PROVE  FlushOne(x, sig, w) \in Flushed(r, w)
<1> DEFINE msg == Head(x.r.pipeline)
           taken == [x.r EXCEPT !.pipeline = Tail(x.r.pipeline)]
           clean == cleanOldNotifications(taken, sig, w)
<1>1. /\ x \in [r : Recorder, emitted : Seq(Message)]
      /\ Keeps(r, x.r, w) /\ Sound(x.r) /\ x.r \in Recorder
      /\ x.r.pipeline \in Seq(Message) /\ x.emitted \in Seq(Message)
  BY DEF Flushed, Keeps, Recorder
<1>2. CASE x.r.pipeline = <<>>
  BY <1>2 DEF FlushOne
<1>3. CASE x.r.pipeline # <<>>
  <2>1. msg \in Message /\ Tail(x.r.pipeline) \in Seq(Message)
    BY <1>1, <1>3
  <2>2. /\ taken \in Recorder /\ taken.pending = x.r.pending
        /\ taken.lastKnown = x.r.lastKnown /\ taken.file = x.r.file
        /\ taken.startOffset = x.r.startOffset /\ taken.needFullSave = x.r.needFullSave
    BY <1>1, <2>1 DEF Recorder
  <2>3. FlushOne(x, sig, w) =
          IF Hears(sig, msg) THEN [r |-> taken, emitted |-> Append(x.emitted, msg)]
          ELSE [x EXCEPT !.r = clean]
    BY <1>3 DEF FlushOne
  <2> HIDE DEF taken, msg
  <2>4. Keeps(x.r, taken, w) /\ Sound(taken)
    BY <1>1, <2>2 DEF Keeps, Sound, Kept
  <2>5. Keeps(r, taken, w)
    BY <1>1, <2>4, KeepsTransitive
  <2>6. [r |-> taken, emitted |-> Append(x.emitted, msg)] \in Flushed(r, w)
    BY <1>1, <2>1, <2>2, <2>5 DEF Flushed
  <2>7. Keeps(taken, clean, w)
    BY <2>4, cleanOldNotificationsKeeps
  <2>8. Keeps(r, clean, w) /\ clean \in Recorder
    BY <2>5, <2>7, KeepsTransitive DEF Keeps, Sound
  <2> HIDE DEF clean
  <2>9. [x EXCEPT !.r = clean] \in Flushed(r, w)
    BY <1>1, <2>8 DEF Flushed
  <2> QED  BY <2>3, <2>6, <2>9
<1> QED  BY <1>2, <1>3

LEMMA flushPipelineKeeps ==
  ASSUME NEW r, Sound(r), NEW sig, NEW n \in Nat, NEW w \in BOOLEAN
  PROVE  flushPipeline(r, sig, n, w) \in Flushed(r, w)
<1> DEFINE step == [x \in [r : Recorder, emitted : Seq(Message)] |-> FlushOne(x, sig, w)]
           s == [r |-> r, emitted |-> <<>>]
           Holds == [i \in 0..n |-> Flushed(r, w)]
<1>1. flushPipeline(r, sig, n, w) = Iterate(step, s, n)
  BY DEF flushPipeline
<1>2. s \in Flushed(r, w)
  BY DEF Flushed, Keeps, Sound
<1>3. ASSUME NEW x \in Flushed(r, w) PROVE step[x] \in Flushed(r, w)
  <2>1. x \in [r : Recorder, emitted : Seq(Message)]
    BY DEF Flushed
  <2>2. step[x] = FlushOne(x, sig, w)
    BY <2>1
  <2> HIDE DEF step
  <2> QED  BY <2>2, FlushOneStands
<1> HIDE DEF step, s
<1>4. s \in Holds[0] /\ Holds[n] = Flushed(r, w)
  BY <1>2
<1>5. \A i \in 0..(n-1) : \A x \in Holds[i] : step[x] \in Holds[i+1]
  BY <1>3
<1> HIDE DEF Holds
<1>6. Iterate(step, s, n) \in Holds[n]
  BY <1>4, <1>5, IterateHolds
<1> QED  BY <1>1, <1>4, <1>6

-----------------------------------------------------------------------------
(* The specification *)

\* The inductive invariant: the recorder is sound, also in the image of it an
\* agent that does not run stands for; and it is kept while the agent runs and
\* the file could be written so far.
RecorderInv ==
  /\ TypeOK
  /\ Sound(rec)
  /\ up /\ spent.failures = 0 => Kept(rec)

LEMMA BoundsAreNumbers == DOMAIN Bound = {"notices", "crashes", "failures", "aborts", "defers"}
BY DEF Bound

\* A call that could not write the file is counted.
LEMMA WritingCounts ==
  ASSUME spent \in [DOMAIN Bound -> Nat], NEW w \in BOOLEAN, Writing(w)
  PROVE  /\ spent' \in [DOMAIN Bound -> Nat]
         /\ spent'.failures = 0 => w /\ spent.failures = 0
BY BoundsAreNumbers DEF Writing, Spend

LEMMA SpendCounts ==
  ASSUME spent \in [DOMAIN Bound -> Nat], NEW b \in {"crashes", "aborts", "defers"},
         Spend(b, 1)
  PROVE  /\ spent' \in [DOMAIN Bound -> Nat]
         /\ spent'.failures = spent.failures
BY BoundsAreNumbers DEF Spend

LEMMA InitRecorderInv == Init => RecorderInv
<1> SUFFICES ASSUME Init PROVE RecorderInv
  OBVIOUS
<1>1. PICK file \in OldFiles : rec = loadNotifications(file)
  BY DEF Init
<1>2. file \in File
  BY RecorderAssumption
<1>3. Sound(rec) /\ Kept(rec)
  BY <1>1, <1>2, loadNotificationsKeeps
<1>4. TypeOK
  <2>1. rec \in Recorder
    BY <1>3 DEF Sound
  <2>2. heard \in SUBSET Signal
    BY RecorderAssumption DEF Init
  <2>3. spent \in [DOMAIN Bound -> Nat]
    BY DEF Init
  <2>4. up \in BOOLEAN /\ replaying \in BOOLEAN /\ handlers \in Seq(Message)
    <3>1. up = TRUE /\ replaying = FALSE /\ handlers = <<>>
      BY DEF Init
    <3>2. <<>> \in Seq(Message)
      OBVIOUS
    <3> QED  BY <3>1, <3>2, Zenon
  <2> QED  BY <2>1, <2>2, <2>3, <2>4 DEF TypeOK
<1> QED  BY <1>3, <1>4 DEF RecorderInv

\* A method that could write the file, or not, keeps the recorder's part of the
\* invariant.
LEMMA MethodKeepsInv ==
  ASSUME RecorderInv, up, NEW w \in BOOLEAN, Keeps(rec, rec', w),
         spent'.failures = 0 => w /\ spent.failures = 0
  PROVE  /\ Sound(rec') /\ rec' \in Recorder
         /\ up' /\ spent'.failures = 0 => Kept(rec')
BY DEF RecorderInv, Keeps, Sound

\* A batch is a list of messages.
LEMMA BatchIsList ==
  ASSUME NEW msgs \in Batches
  PROVE  msgs \in Seq(Message)
<1>1. PICK n \in 1..MaxBatch : msgs \in [1..n -> Notices]
  BY DEF Batches
<1>2. n \in Nat /\ Notices \subseteq Message
  BY RecorderAssumption
<1> QED  BY <1>1, <1>2

LEMMA NotifyKeepsInv ==
  ASSUME RecorderInv, NEW msgs \in Seq(Message), NEW w \in BOOLEAN, Notify(msgs, w)
  PROVE  RecorderInv'
<1> USE DEF RecorderInv
<1>1. msgs \in Seq(Message) /\ Len(msgs) \in Nat
  OBVIOUS
<1>2. spent \in [DOMAIN Bound -> Nat]
  BY DEF TypeOK
<1>3. /\ spent' \in [DOMAIN Bound -> Nat]
      /\ spent'.failures = 0 => w /\ spent.failures = 0
  <2>1. spent' = [spent EXCEPT !.notices = spent.notices + Len(msgs),
                               !.failures = IF w THEN spent.failures ELSE spent.failures + 1]
    BY DEF Notify
  <2>2. spent.notices + Len(msgs) \in Nat /\ spent.failures \in Nat
    BY <1>1, <1>2, BoundsAreNumbers
  <2>3. CASE w
    BY <1>2, <2>1, <2>2, <2>3, BoundsAreNumbers
  <2>4. CASE ~w
    <3>1. spent' = [spent EXCEPT !.notices = spent.notices + Len(msgs),
                                 !.failures = spent.failures + 1]
      BY <2>1, <2>4
    <3>2. spent.failures + 1 \in Nat /\ spent.failures + 1 # 0
      BY <2>2
    <3>3. spent' \in [DOMAIN Bound -> Nat] /\ spent'.failures = spent.failures + 1
      BY <1>2, <2>2, <3>1, <3>2, BoundsAreNumbers
    <3> QED  BY <3>2, <3>3
  <2> QED  BY <2>3, <2>4
<1>4. Keeps(rec, rec', w)
  BY <1>1, slotNotifyKeeps DEF Notify
<1>5. /\ Sound(rec') /\ rec' \in Recorder
      /\ up' /\ spent'.failures = 0 => Kept(rec')
  BY <1>3, <1>4, MethodKeepsInv DEF Notify
<1> QED  BY <1>3, <1>5 DEF Notify, TypeOK

LEMMA ReplayNextKeepsInv ==
  ASSUME RecorderInv, NEW cached, NEW w \in BOOLEAN, ReplayNext(cached, w)
  PROVE  RecorderInv'
<1> USE DEF RecorderInv
<1> DEFINE x == replayNext(rec, heard, cached, w)
<1>1. x \in Stand(rec, w)
  BY replayNextStands
<1>2. /\ Keeps(rec, x.r, w) /\ x.r \in Recorder
      /\ x.said = "emitted" => x.r.pending # <<>>
  BY <1>1 DEF Stand
<1>3. /\ up /\ Writing(w) /\ heard' = heard
      /\ \/ x.said = "fault" /\ Died(x.r)
         \/ /\ rec' = x.r /\ up' = up /\ replaying' = (x.said # "nothing")
            /\ handlers' = IF x.said = "emitted" THEN Append(handlers, Head(x.r.pending))
                           ELSE handlers
  BY DEF ReplayNext
<1> HIDE DEF x
<1>4. /\ spent' \in [DOMAIN Bound -> Nat]
      /\ spent'.failures = 0 => w /\ spent.failures = 0
  BY <1>3, WritingCounts DEF TypeOK
<1>5. CASE x.said = "fault" /\ Died(x.r)
  <2>1. rec' = EmptyRecorder(x.r.file) /\ ~up' /\ replaying' = FALSE /\ handlers' = <<>>
    BY <1>5 DEF Died
  <2>2. x.r.file \in File
    BY <1>2 DEF Recorder
  <2>3. Sound(rec')
    BY <2>1, <2>2, EmptyRecorderSound
  <2>4. rec' \in Recorder
    BY <2>3 DEF Sound
  <2>5. up' \in BOOLEAN /\ handlers' \in Seq(Message)
    <3>1. up' = FALSE /\ handlers' = <<>>
      BY <1>5 DEF Died
    <3>2. <<>> \in Seq(Message)
      OBVIOUS
    <3> QED  BY <3>1, <3>2, Zenon
  <2> QED  BY <1>3, <1>4, <2>1, <2>3, <2>4, <2>5 DEF TypeOK
<1>6. CASE /\ rec' = x.r /\ up' = up /\ replaying' = (x.said # "nothing")
           /\ handlers' = IF x.said = "emitted" THEN Append(handlers, Head(x.r.pending))
                          ELSE handlers
  <2>1. /\ Sound(rec') /\ rec' \in Recorder
        /\ up' /\ spent'.failures = 0 => Kept(rec')
    BY <1>2, <1>3, <1>4, <1>6, MethodKeepsInv
  <2>2. x.r.pending \in Seq(Message) /\ handlers \in Seq(Message)
    BY <1>2 DEF Recorder, TypeOK
  <2>3. handlers' \in Seq(Message)
    BY <1>2, <1>6, <2>2
  <2> QED  BY <1>3, <1>4, <1>6, <2>1, <2>3 DEF TypeOK
<1> QED  BY <1>3, <1>5, <1>6

LEMMA DataAvailableKeepsInv ==
  ASSUME RecorderInv, NEW n \in 1..Len(rec.pipeline), NEW w \in BOOLEAN, DataAvailable(n, w)
  PROVE  RecorderInv'
<1> USE DEF RecorderInv
<1> DEFINE x == flushPipeline(rec, heard, n, w)
<1>1. n \in Nat
  OBVIOUS
<1>2. x \in Flushed(rec, w)
  BY <1>1, flushPipelineKeeps
<1>3. Keeps(rec, x.r, w) /\ x.emitted \in Seq(Message)
  BY <1>2 DEF Flushed
<1>4. /\ up /\ Writing(w) /\ rec' = x.r /\ handlers' = handlers \o x.emitted
      /\ up' = up /\ heard' = heard /\ replaying' = replaying
  BY DEF DataAvailable
<1> HIDE DEF x
<1>5. /\ spent' \in [DOMAIN Bound -> Nat]
      /\ spent'.failures = 0 => w /\ spent.failures = 0
  BY <1>4, WritingCounts DEF TypeOK
<1>6. /\ Sound(rec') /\ rec' \in Recorder
      /\ up' /\ spent'.failures = 0 => Kept(rec')
  BY <1>3, <1>4, <1>5, MethodKeepsInv
<1>7. handlers' \in Seq(Message)
  BY <1>3, <1>4 DEF TypeOK
<1> QED  BY <1>4, <1>5, <1>6, <1>7 DEF TypeOK

LEMMA ChangeProcessedKeepsInv ==
  ASSUME RecorderInv, NEW i \in DOMAIN handlers, NEW w \in BOOLEAN, ChangeProcessed(i, w)
  PROVE  RecorderInv'
<1> USE DEF RecorderInv
<1>1. Keeps(rec, rec', w)
  BY changeProcessedKeeps DEF ChangeProcessed
<1>2. /\ spent' \in [DOMAIN Bound -> Nat]
      /\ spent'.failures = 0 => w /\ spent.failures = 0
  BY WritingCounts DEF TypeOK, ChangeProcessed
<1>3. /\ Sound(rec') /\ rec' \in Recorder
      /\ up' /\ spent'.failures = 0 => Kept(rec')
  BY <1>1, <1>2, MethodKeepsInv DEF ChangeProcessed
<1>4. handlers' \in Seq(Message)
  BY WithoutType DEF TypeOK, ChangeProcessed
<1> QED  BY <1>2, <1>3, <1>4 DEF TypeOK, ChangeProcessed

LEMMA DeferKeepsInv ==
  ASSUME RecorderInv, NEW i \in DOMAIN handlers, Defer(i)
  PROVE  RecorderInv'
<1> USE DEF RecorderInv
<1>1. spent' \in [DOMAIN Bound -> Nat] /\ spent'.failures = spent.failures
  BY SpendCounts DEF TypeOK, Defer
<1>2. handlers' \in Seq(Message)
  BY WithoutType DEF TypeOK, Defer
<1>3. rec' = rec /\ up' = up /\ heard' = heard /\ replaying' = FALSE
  BY DEF Defer
<1> QED  BY <1>1, <1>2, <1>3 DEF TypeOK

LEMMA AbortKeepsInv ==
  ASSUME RecorderInv, Abort
  PROVE  RecorderInv'
<1> USE DEF RecorderInv
<1>1. spent' \in [DOMAIN Bound -> Nat] /\ spent'.failures = spent.failures
  BY SpendCounts DEF TypeOK, Abort
<1>2. /\ rec' = rec /\ up' = up /\ heard' = heard /\ handlers' = handlers
      /\ replaying' = FALSE
  BY DEF Abort
<1> QED  BY <1>1, <1>2 DEF TypeOK

LEMMA CrashKeepsInv ==
  ASSUME RecorderInv, Crash
  PROVE  RecorderInv'
<1> USE DEF RecorderInv
<1>1. spent' \in [DOMAIN Bound -> Nat]
  BY SpendCounts DEF TypeOK, Crash
<1>2. /\ rec' = EmptyRecorder(rec.file) /\ up' = FALSE /\ heard' = heard
      /\ replaying' = FALSE /\ handlers' = <<>>
  BY DEF Crash, Died
<1>3. Sound(rec')
  <2>1. rec.file \in File
    BY DEF TypeOK, Recorder
  <2> QED  BY <1>2, <2>1, EmptyRecorderSound
<1>4. rec' \in Recorder
  BY <1>3 DEF Sound
<1>5. handlers' \in Seq(Message)
  BY <1>2
<1> QED  BY <1>1, <1>2, <1>3, <1>4, <1>5 DEF TypeOK

LEMMA RestartKeepsInv ==
  ASSUME RecorderInv, Restart
  PROVE  RecorderInv'
<1> USE DEF RecorderInv
<1>1. /\ rec' = loadNotifications(rec.file) /\ up' = TRUE /\ replaying' = replaying
      /\ handlers' = handlers /\ spent' = spent
  BY DEF Restart
<1>2. Sound(rec') /\ Kept(rec')
  <2>1. rec.file \in File
    BY DEF TypeOK, Recorder
  <2> QED  BY <1>1, <2>1, loadNotificationsKeeps
<1>3. rec' \in Recorder
  BY <1>2 DEF Sound
<1>4. heard' \in SUBSET Signal
  <2>1. heard \in SUBSET Signal
    BY DEF TypeOK
  <2>2. CASE AllowUpgrade
    BY <2>2, RecorderAssumption DEF Restart
  <2>3. CASE ~AllowUpgrade
    BY <2>1, <2>3 DEF Restart
  <2> QED  BY <2>2, <2>3
<1> QED  BY <1>1, <1>2, <1>3, <1>4 DEF TypeOK

LEMMA StepKeepsInv == RecorderInv /\ [Next]_vars => RecorderInv'
<1> SUFFICES ASSUME RecorderInv, [Next]_vars PROVE RecorderInv'
  OBVIOUS
<1>1. CASE \E msgs \in Batches, w \in BOOLEAN : Notify(msgs, w)
  BY <1>1, BatchIsList, NotifyKeepsInv
<1>2. CASE \E cached \in SUBSET Elements(rec.pending), w \in BOOLEAN : ReplayNext(cached, w)
  BY <1>2, ReplayNextKeepsInv
<1>3. CASE \E n \in 1..Len(rec.pipeline), w \in BOOLEAN : DataAvailable(n, w)
  BY <1>3, DataAvailableKeepsInv
<1>4. CASE \E i \in DOMAIN handlers, w \in BOOLEAN : ChangeProcessed(i, w)
  BY <1>4, ChangeProcessedKeepsInv
<1>5. CASE \E i \in DOMAIN handlers : Defer(i)
  BY <1>5, DeferKeepsInv
<1>6. CASE Abort
  BY <1>6, AbortKeepsInv
<1>7. CASE Crash
  BY <1>7, CrashKeepsInv
<1>8. CASE Restart
  BY <1>8, RestartKeepsInv
<1>9. CASE UNCHANGED vars
  BY <1>9 DEF vars, RecorderInv, TypeOK
<1> QED  BY <1>1, <1>2, <1>3, <1>4, <1>5, <1>6, <1>7, <1>8, <1>9 DEF Next

\* The assertions of the recorder and what ties its file to its list, in any order
\* of calls.
THEOREM RecorderInvariant == Spec => []RecorderInv
BY InitRecorderInv, StepKeepsInv, PTL DEF Spec

\* Every variable keeps its type.
THEOREM RecorderTypes == Spec => []TypeOK
<1>1. RecorderInv => TypeOK
  BY DEF RecorderInv
<1> QED  BY <1>1, RecorderInvariant, PTL

\* The assertions of notificationsEnqueued() and dequeueNotification() hold:
\* whatever was merged, split, translated or erased, the recorder was told how
\* many changes that left.
THEOREM CountAssertionsHold == Spec => []CountIsKnown
<1>1. RecorderInv => CountIsKnown
  BY DEF RecorderInv, Sound, CountIsKnown
<1> QED  BY <1>1, RecorderInvariant, PTL

\* As long as the file could always be written, a start from it brings back
\* exactly the changes in memory: skipping a whole save in favour of the start
\* offset is right, and so is the decision to rewrite a file with an offset.
THEOREM FileIsEnough == Spec => []FileHoldsPending
<1>1. RecorderInv => FileHoldsPending
  BY DEF RecorderInv, Kept, FileHoldsPending
<1> QED  BY <1>1, RecorderInvariant, PTL

-----------------------------------------------------------------------------
(* The recorder is a log.  ChangeLog speaks of the same operators through  *)
(* Log; they are the same, one by one                                      *)

LEMMA LogAppends ==
  ASSUME NEW list, NEW msg
  PROVE  Log!appendAndCompress(list, msg) = appendAndCompress(list, msg)
BY DEF Log!appendAndCompress, appendAndCompress, Log!FirstIn, FirstIn, Log!Stops, Stops,
       Log!Purged, Purged, Log!Keep, Keep, Log!Elements, Elements, Log!MergeAt, MergeAt,
       Log!Merged, Merged, Log!NoChange, NoChange, Log!Outcome, Outcome, Log!Without, Without,
       Log!Merges, Merges, Log!Covers, Covers, Log!Supersedes, Supersedes,
       Log!SameSubject, SameSubject, Log!FastPath, FastPath, Log!Modifications, Modifications

LEMMA LogCounts ==
  ASSUME NEW S
  PROVE  Log!Cardinality(S) = Cardinality(S)
BY Zenon DEF Log!Cardinality, Cardinality

LEMMA LogSplits ==
  ASSUME NEW msg, NEW legacy
  PROVE  Log!splitMessage(msg, legacy) = splitMessage(msg, legacy)
<1>1. Log!InOrder(msg.entities) = InOrder(msg.entities)
  BY LogCounts DEF Log!InOrder, InOrder
<1>2. \A e : Log!Piece(msg, legacy, e) = Piece(msg, legacy, e)
  BY DEF Log!Piece, Piece
<1> QED  BY <1>1, <1>2, LogCounts DEF Log!splitMessage, splitMessage

LEMMA LogTranslates ==
  ASSUME NEW list, NEW msg
  PROVE  Log!translateAndCompress(list, msg) = translateAndCompress(list, msg)
BY LogAppends, LogSplits
   DEF Log!translateAndCompress, translateAndCompress, Log!None, None, Log!Outcome, Outcome

LEMMA LogHears ==
  ASSUME NEW sig, NEW msg
  PROVE  Log!Hears(sig, msg) = Hears(sig, msg)
BY DEF Log!Hears, Hears, Log!One, One, Log!Many, Many

LEMMA LogQueues ==
  ASSUME NEW sig, NEW msg
  PROVE  /\ Log!BatchSupported(sig, msg) <=> BatchSupported(sig, msg)
         /\ Log!QueuesWhole(sig, msg) <=> QueuesWhole(sig, msg)
         /\ Log!QueuesPieces(sig, msg) <=> QueuesPieces(sig, msg)
BY LogCounts DEF Log!BatchSupported, BatchSupported, Log!QueuesWhole, QueuesWhole, Log!QueuesPieces,
       QueuesPieces, Log!NeedsSplit, NeedsSplit, Log!ItemChanged, ItemChanged,
       Log!One, One, Log!Many, Many

LEMMA LogRound ==
  ASSUME NEW sig, NEW done, NEW msg
  PROVE  Log!Round(sig, done, msg) = Round(sig, done, msg)
BY LogTranslates, LogSplits, LogQueues DEF Log!Round, Round, Log!Outcome, Outcome

LEMMA LogMessage == Log!Message = Message
BY DEF Log!Message, Message, Log!Operation, Operation, Log!FastPath, FastPath,
       Log!Modifications, Modifications, Log!None, None

LEMMA LogEnqueued ==
  ASSUME NEW sig, NEW list, NEW msgs
  PROVE  Log!Enqueued(sig, list, msgs) = Enqueued(sig, list, msgs)
<1> DEFINE D == [list : Seq(Message), appended : Nat, erased : BOOLEAN, next : Nat]
           step == [d \in D |->
                      LET msg == msgs[d.next]
                          r == Round(sig, d, msg)
                      IN [list |-> r.list, appended |-> r.appended,
                          erased |-> r.erased, next |-> d.next + 1]]
           same == [d \in D |->
                      LET msg == msgs[d.next]
                          r == Log!Round(sig, d, msg)
                      IN [list |-> r.list, appended |-> r.appended,
                          erased |-> r.erased, next |-> d.next + 1]]
           s == [list |-> list, appended |-> 0, erased |-> FALSE, next |-> 1]
<1>1. same = step
  BY LogRound
<1>2. Enqueued(sig, list, msgs) = Iterate(step, s, Len(msgs))
  BY DEF Enqueued
<1>3. Log!Enqueued(sig, list, msgs) = Log!Iterate(same, s, Len(msgs))
  BY LogMessage DEF Log!Enqueued
<1> HIDE DEF step, same, s
<1>4. Log!Iterate(step, s, Len(msgs)) = Iterate(step, s, Len(msgs))
  BY DEF Log!Iterate, Iterate
<1> QED  BY <1>1, <1>2, <1>3, <1>4

LEMMA LogWanted ==
  ASSUME NEW sig, NEW msgs
  PROVE  Log!Wanted(sig, msgs) = Wanted(sig, msgs)
BY DEF Log!Wanted, Wanted, Log!Keep, Keep, Log!Elements, Elements,
       Log!isLazilyIgnored, isLazilyIgnored, Log!Hears, Hears, Log!One, One, Log!Many, Many,
       Log!ItemChanged, ItemChanged

-----------------------------------------------------------------------------
(* What is recorded is heard, and given out one at a time                  *)

HeardOf(sig, op) == \E n \in {One, Many} : <<"Items", op, n>> \in sig

\* An agent that hears of a move hears of the addition or removal it may become;
\* one that hears of changed flags takes them in batches or as modifications.
Complete(sig) ==
  /\ HeardOf(sig, "Move") => HeardOf(sig, "Add") /\ HeardOf(sig, "Remove")
  /\ HeardOf(sig, "ModifyFlags") =>
       <<"Items", "ModifyFlags", Many>> \in sig \/ HeardOf(sig, "Modify")

\* Items that are moved to where the agent watches.
Enters(msg) ==
  msg.type = "Items" /\ msg.op = "Move" /\ msg.parent \notin Watched /\ msg.dest \in Watched

IsHeard(sig, msg) == msg.type = "Items" => HeardOf(sig, msg.op)

\* The changes an agent records: it hears of them, and each is given out as one.
Fit(sig) ==
  {m \in Message : IsHeard(sig, m) /\ (Enters(m) => \E e \in Entities : m.entities = {e})}

LEMMA FitIsMessage ==
  ASSUME NEW sig
  PROVE  /\ Fit(sig) \subseteq Message
         /\ Seq(Fit(sig)) \subseteq Seq(Message)
BY DEF Fit

LEMMA HeardIsKept ==
  ASSUME NEW sig, NEW msg
  PROVE  /\ IsHeard(sig, msg) <=> ~isLazilyIgnored(sig, msg, FALSE)
         /\ msg.type = "Items" => (Hears(sig, msg) <=> HeardOf(sig, msg.op))
BY DEF IsHeard, isLazilyIgnored, Hears, HeardOf

LEMMA FitMerges ==
  ASSUME NEW sig, NEW msg \in Fit(sig), NEW old \in Fit(sig)
  PROVE  Merged(msg, old) \in Fit(sig)
<1> DEFINE m == Merged(msg, old)
<1>1. m \in Message
  BY MergedType, FitIsMessage
<1>2. m.type = old.type /\ m.op = old.op /\ m.entities = old.entities
      /\ m.parent = old.parent /\ m.dest = old.dest
  BY FitIsMessage DEF Merged, Message
<1> HIDE DEF m
<1>3. m \in Fit(sig)
  BY <1>1, <1>2 DEF Fit, IsHeard, Enters
<1> QED  BY <1>3 DEF m

LEMMA appendAndCompressFits ==
  ASSUME NEW sig, NEW list \in Seq(Fit(sig)), NEW msg \in Fit(sig)
  PROVE  appendAndCompress(list, msg).list \in Seq(Fit(sig))
<1> DEFINE i == FirstIn(list, Stops(list, msg))
           m == Merged(msg, list[i])
<1>1. i = 0 \/ i \in DOMAIN list
  BY FirstInType
<1> HIDE DEF i
<1>2. Append(Purged(list, msg), msg) \in Seq(Fit(sig))
  <2>1. Purged(list, msg) \in Seq(Fit(sig))
    BY KeepType DEF Purged
  <2> QED  BY <2>1
<1>3. Append(list, msg) \in Seq(Fit(sig))
  OBVIOUS
<1>4. i # 0 => MergeAt(list, i, msg).list \in Seq(Fit(sig))
  <2>1. SUFFICES ASSUME i # 0 PROVE MergeAt(list, i, msg).list \in Seq(Fit(sig))
    OBVIOUS
  <2>2. i \in DOMAIN list
    BY <1>1, <2>1
  <2>3. m \in Fit(sig)
    BY <2>2, FitMerges
  <2> HIDE DEF m
  <2>4. [list EXCEPT ![i] = m] \in Seq(Fit(sig))
    BY <2>2, <2>3
  <2>5. Without(list, i) \in Seq(Fit(sig))
    BY <2>2, WithoutType
  <2> QED  BY <2>4, <2>5 DEF MergeAt, Outcome, m
<1> QED  BY <1>2, <1>3, <1>4 DEF appendAndCompress, Outcome, i

\* The pieces of a message are about one entity each, and as heard as it is.
LEMMA splitMessageFits ==
  ASSUME IsFiniteSet(Entities), NEW sig, NEW msg \in Message, NEW legacy \in BOOLEAN,
         IF legacy /\ msg.op = "ModifyFlags"
         THEN msg.type = "Items" => HeardOf(sig, "Modify") ELSE IsHeard(sig, msg)
  PROVE  splitMessage(msg, legacy) \in Seq(Fit(sig))
<1> DEFINE ids == InOrder(msg.entities)
           n == Cardinality(msg.entities)
<1>1. msg.entities \subseteq Entities
  BY DEF Message
<1>2. n \in Nat /\ ids \in [1..n -> msg.entities]
  BY <1>1, FS_Subset, InOrderType
<1> HIDE DEF n, ids
<1>3. ASSUME NEW i \in 1..n PROVE Piece(msg, legacy, ids[i]) \in Fit(sig)
  <2> DEFINE p == Piece(msg, legacy, ids[i])
  <2>1. ids[i] \in Entities
    BY <1>1, <1>2
  <2>2. /\ p \in Message /\ p.type = msg.type /\ p.entities = {ids[i]}
        /\ p.op = IF legacy /\ msg.op = "ModifyFlags" THEN "Modify" ELSE msg.op
    BY <2>1 DEF Piece, Message, Operation, Modifications
  <2> HIDE DEF p
  <2>3. p \in Fit(sig)
    BY <2>1, <2>2 DEF Fit, IsHeard
  <2> QED  BY <2>3 DEF p
<1>4. splitMessage(msg, legacy) = [i \in 1..n |-> Piece(msg, legacy, ids[i])]
  BY DEF splitMessage, n, ids
<1> QED  BY <1>2, <1>3, <1>4

\* What slotNotify() queues whole is heard, also when the move it was has become
\* something else.
LEMMA translateAndCompressFits ==
  ASSUME IsFiniteSet(Entities), NEW sig, Complete(sig), NEW list \in Seq(Fit(sig)),
         NEW msg \in Message, IsHeard(sig, msg)
  PROVE  translateAndCompress(list, msg).list \in Seq(Fit(sig))
<1> DEFINE removal   == [msg EXCEPT !.op = "Remove", !.dest = None]
           insertion == [msg EXCEPT !.op = "Add", !.parent = msg.dest, !.dest = None]
           added == splitMessage(insertion, FALSE)
<1>1. CASE ~Enters(msg)
  <2>1. msg \in Fit(sig)
    BY <1>1 DEF Fit
  <2>2. appendAndCompress(list, msg).list \in Seq(Fit(sig))
    BY <2>1, appendAndCompressFits
  <2>3. msg.op = "Move" /\ msg.type = "Items" => removal \in Fit(sig)
    <3>1. SUFFICES ASSUME msg.op = "Move", msg.type = "Items" PROVE removal \in Fit(sig)
      OBVIOUS
    <3>2. removal \in Message /\ removal.op = "Remove" /\ removal.type = "Items"
      BY <3>1 DEF Message, Operation
    <3> HIDE DEF removal
    <3> QED  BY <3>1, <3>2 DEF Fit, IsHeard, Complete, Enters
  <2> HIDE DEF removal
  <2>4. msg.op = "Move" /\ msg.type = "Items" =>
          appendAndCompress(list, removal).list \in Seq(Fit(sig))
    BY <2>3, appendAndCompressFits
  <2>5. msg.type \in {"Items", "Collections"}
    BY DEF Message
  <2> QED
    BY <1>1, <2>2, <2>4, <2>5 DEF translateAndCompress, Enters, Outcome, removal
<1>2. CASE Enters(msg)
  <2>1. insertion \in Message /\ insertion.op = "Add" /\ insertion.type = "Items"
    BY <1>2 DEF Message, Operation, FastPath, Enters
  <2>2. IsHeard(sig, insertion)
    BY <1>2, <2>1 DEF IsHeard, Complete, Enters
  <2> HIDE DEF insertion
  <2>3. added \in Seq(Fit(sig))
    BY <2>1, <2>2, splitMessageFits
  <2> HIDE DEF added
  <2>4. list \o added \in Seq(Fit(sig))
    BY <2>3
  <2>5. translateAndCompress(list, msg) = Outcome(list \o added, Len(added))
    BY <1>2 DEF translateAndCompress, Enters, insertion, added
  <2> QED  BY <2>4, <2>5 DEF Outcome
<1> QED  BY <1>1, <1>2

LEMMA RoundFits ==
  ASSUME IsFiniteSet(Entities), NEW sig, Complete(sig), NEW done,
         done.list \in Seq(Fit(sig)), NEW msg \in Message,
         ~isLazilyIgnored(sig, msg, TRUE)
  PROVE  Round(sig, done, msg).list \in Seq(Fit(sig))
<1> DEFINE whole == IF QueuesWhole(sig, msg)
                    THEN translateAndCompress(done.list, msg) ELSE Outcome(done.list, 0)
           pieces == IF QueuesPieces(sig, msg)
                     THEN splitMessage(msg, ~BatchSupported(sig, msg)) ELSE <<>>
<1>1. msg.type \in {"Items", "Collections"}
  BY DEF Message
<1>2. IsHeard(sig, msg) \/ (msg.op = "ModifyFlags" /\ ItemChanged \in sig)
  <2>1. CASE msg.type = "Items"
    <3>1. Hears(sig, msg) \/ (msg.op = "ModifyFlags" /\ ItemChanged \in sig)
      BY <2>1 DEF isLazilyIgnored
    <3>2. Hears(sig, msg) <=> HeardOf(sig, msg.op)
      BY <2>1, HeardIsKept
    <3> QED  BY <3>1, <3>2 DEF IsHeard
  <2>2. CASE msg.type # "Items"
    BY <2>2 DEF IsHeard
  <2> QED  BY <2>1, <2>2
<1>3. whole.list \in Seq(Fit(sig))
  <2>1. CASE QueuesWhole(sig, msg)
    <3>1. IsHeard(sig, msg)
      BY <1>1, <1>2, <2>1 DEF QueuesWhole, BatchSupported, IsHeard, HeardOf
    <3> QED  BY <2>1, <3>1, translateAndCompressFits
  <2>2. CASE ~QueuesWhole(sig, msg)
    BY <2>2 DEF Outcome
  <2> QED  BY <2>1, <2>2
<1>4. pieces \in Seq(Fit(sig))
  <2>1. CASE QueuesPieces(sig, msg)
    <3> DEFINE legacy == ~BatchSupported(sig, msg)
    <3>1. legacy \in BOOLEAN
      OBVIOUS
    <3>2. legacy /\ msg.op = "ModifyFlags" /\ msg.type = "Items" => HeardOf(sig, "Modify")
      BY <1>2 DEF Complete, BatchSupported, IsHeard, HeardOf, ItemChanged
    <3>3. ~(legacy /\ msg.op = "ModifyFlags") => IsHeard(sig, msg)
      BY <1>2 DEF BatchSupported, IsHeard, HeardOf
    <3> HIDE DEF legacy
    <3>4. splitMessage(msg, legacy) \in Seq(Fit(sig))
      BY <3>1, <3>2, <3>3, splitMessageFits
    <3> QED  BY <2>1, <3>4 DEF legacy
  <2>2. CASE ~QueuesPieces(sig, msg)
    BY <2>2
  <2> QED  BY <2>1, <2>2
<1> HIDE DEF whole, pieces
<1>5. whole.list \o pieces \in Seq(Fit(sig))
  BY <1>3, <1>4
<1> QED  BY <1>5 DEF Round, whole, pieces

\* What slotNotify() makes of a list an agent can be given is such a list.
LEMMA EnqueuedFits ==
  ASSUME IsFiniteSet(Entities), NEW sig, Complete(sig), NEW list \in Seq(Fit(sig)),
         NEW msgs \in Seq(Message)
  PROVE  Enqueued(sig, list, Wanted(sig, msgs)).list \in Seq(Fit(sig))
<1> DEFINE D == [list : Seq(Message), appended : Nat, erased : BOOLEAN, next : Nat]
           wanted == Wanted(sig, msgs)
           step == [d \in D |->
                      LET msg == wanted[d.next]
                          r == Round(sig, d, msg)
                      IN [list |-> r.list, appended |-> r.appended,
                          erased |-> r.erased, next |-> d.next + 1]]
           s == [list |-> list, appended |-> 0, erased |-> FALSE, next |-> 1]
           n == Len(wanted)
           Holds == [i \in 0..n |-> {d \in Counted(list, i) : d.list \in Seq(Fit(sig))}]
<1>1. Enqueued(sig, list, wanted) = Iterate(step, s, n)
  BY DEF Enqueued
<1>2. /\ wanted \in Seq(Message)
      /\ \A i \in 1..n : ~isLazilyIgnored(sig, wanted[i], TRUE)
  <2>1. /\ wanted \in Seq(Message)
        /\ Elements(wanted) =
             Elements(msgs) \cap {m \in Elements(msgs) : ~isLazilyIgnored(sig, m, TRUE)}
    BY KeepType DEF Wanted
  <2> HIDE DEF wanted
  <2>2. \A i \in 1..n : wanted[i] \in Elements(wanted)
    BY <2>1 DEF Elements
  <2> QED  BY <2>1, <2>2
<1> HIDE DEF wanted
<1>3. n \in Nat /\ list \in Seq(Message)
  BY <1>2, FitIsMessage
<1>4. s \in Holds[0]
  <2>1. Len(list) \in Nat /\ 0 \in 0..n
    BY <1>3
  <2>2. s \in Counted(list, 0) /\ s.list = list
    BY <1>3, <2>1 DEF Counted
  <2> HIDE DEF s, n
  <2> QED  BY <2>1, <2>2
<1>5. ASSUME NEW i \in 0..(n-1), NEW d \in Holds[i] PROVE step[d] \in Holds[i+1]
  <2>1. i \in Nat /\ i \in 0..n /\ i + 1 \in 0..n /\ i + 1 \in 1..n
    BY <1>3
  <2>2. d \in Counted(list, i) /\ d.list \in Seq(Fit(sig))
    BY <2>1
  <2>3. d \in D /\ d.next = i + 1
    BY <2>2 DEF Counted
  <2>4. wanted[d.next] \in Message /\ ~isLazilyIgnored(sig, wanted[d.next], TRUE)
    <3>1. wanted[i+1] \in Message
      BY <1>2, <2>1
    <3>2. ~isLazilyIgnored(sig, wanted[i+1], TRUE)
      BY <1>2, <2>1
    <3> QED  BY <2>3, <3>1, <3>2
  <2> DEFINE r == Round(sig, d, wanted[d.next])
             e == [list |-> r.list, appended |-> r.appended,
                   erased |-> r.erased, next |-> d.next + 1]
  <2>5. e \in Counted(list, i + 1)
    BY <1>3, <2>1, <2>2, <2>4, RoundCounts
  <2>6. e.list \in Seq(Fit(sig))
    BY <2>2, <2>4, RoundFits
  <2>7. step[d] = e
    BY <2>3
  <2> HIDE DEF step, e
  <2> QED  BY <2>1, <2>5, <2>6, <2>7
<1> HIDE DEF step, s, Holds
<1>6. Iterate(step, s, n) \in Holds[n]
  BY <1>3, <1>4, <1>5, IterateHolds
<1>7. Enqueued(sig, list, wanted).list \in Seq(Fit(sig))
  BY <1>1, <1>3, <1>6 DEF Holds
<1> QED  BY <1>7 DEF wanted

\* Somebody is to be told of the change.
Concerns(sig, msg) ==
  Hears(sig, msg) /\ ~(msg.op = "Move" /\ msg.parent \notin Watched /\ msg.dest \notin Watched)

\* An empty pipeline takes one message, or none if the change concerns nobody.
LEMMA AloneInPipeline ==
  ASSUME NEW sig, NEW msg \in Fit(sig)
  PROVE  LET filled == translateAndCompress(<<>>, msg)
         IN IF filled.appended > 0 THEN Len(filled.list) = 1
            ELSE filled.list = <<>> /\ ~Concerns(sig, msg)
<1> DEFINE removal   == [msg EXCEPT !.op = "Remove", !.dest = None]
           insertion == [msg EXCEPT !.op = "Add", !.parent = msg.dest, !.dest = None]
           added == splitMessage(insertion, FALSE)
           Alone(x) == x.appended > 0 /\ Len(x.list) = 1
<1>1. ASSUME NEW m PROVE Alone(appendAndCompress(<<>>, m))
  <2>1. FirstIn(<<>>, Stops(<<>>, m)) = 0
    BY DEF FirstIn
  <2>2. Purged(<<>>, m) = <<>>
    <3> DEFINE p == Purged(<<>>, m)
    <3>1. <<>> \in Seq(Nat) /\ Len(<<>>) = 0
      OBVIOUS
    <3>2. p \in Seq(Nat)
      BY <3>1, KeepType DEF Purged
    <3>3. Len(p) <= Len(<<>>)
      BY <3>1, KeepShortens DEF Purged
    <3> HIDE DEF p
    <3>4. p = <<>>
      BY <3>1, <3>2, <3>3
    <3> QED  BY <3>4 DEF p
  <2>3. Len(Append(<<>>, m)) = 1 /\ 1 > 0
    OBVIOUS
  <2> QED  BY <2>1, <2>2, <2>3 DEF appendAndCompress, Outcome
<1>2. CASE msg.op = "Move" /\ Enters(msg)
  <2>1. PICK e \in Entities : msg.entities = {e}
    BY <1>2 DEF Fit
  <2>2. insertion.entities = {e} /\ Cardinality({e}) = 1
    <3>1. insertion.entities = {e}
      BY <2>1, FitIsMessage DEF Message
    <3>2. Cardinality({e}) = 1
      BY FS_Singleton, Zenon
    <3> QED  BY <3>1, <3>2
  <2> HIDE DEF insertion
  <2>3. added = [i \in 1..1 |-> Piece(insertion, FALSE, InOrder({e})[i])]
    BY <2>2 DEF splitMessage
  <2> HIDE DEF added
  <2>4. Len(added) = 1 /\ Len(<<>> \o added) = 1
    BY <2>3
  <2>5. translateAndCompress(<<>>, msg) = Outcome(<<>> \o added, Len(added))
    BY <1>2 DEF translateAndCompress, Enters, insertion, added
  <2> QED  BY <2>4, <2>5 DEF Outcome
<1>3. CASE msg.op = "Move" /\ ~Enters(msg)
  <2>1. msg.type \in {"Items", "Collections"}
    BY DEF Fit, Message
  <2>2. CASE msg.parent \notin Watched /\ msg.dest \notin Watched
    <3>1. translateAndCompress(<<>>, msg) = Outcome(<<>>, 0)
      BY <1>3, <2>2 DEF translateAndCompress
    <3>2. ~Concerns(sig, msg)
      BY <1>3, <2>2 DEF Concerns
    <3> QED  BY <3>1, <3>2 DEF Outcome
  <2>3. CASE ~(msg.parent \notin Watched /\ msg.dest \notin Watched)
    <3>1. \/ translateAndCompress(<<>>, msg) = appendAndCompress(<<>>, msg)
          \/ translateAndCompress(<<>>, msg) = appendAndCompress(<<>>, removal)
      BY <1>3, <2>1, <2>3 DEF translateAndCompress, Enters, removal
    <3> HIDE DEF removal
    <3> QED  BY <1>1, <3>1
  <2> QED  BY <2>2, <2>3
<1>4. CASE msg.op # "Move"
  BY <1>1, <1>4 DEF translateAndCompress
<1> QED  BY <1>2, <1>3, <1>4

-----------------------------------------------------------------------------
(* What the methods do to the list and to the pipeline *)

LEMMA SavingKeepsLists ==
  ASSUME NEW r \in Recorder, NEW w
  PROVE  /\ saveNotifications(r, w).pending = r.pending
         /\ saveNotifications(r, w).pipeline = r.pipeline
         /\ writeStartOffset(r, w).pending = r.pending
         /\ writeStartOffset(r, w).pipeline = r.pipeline
         /\ notificationsErased(r, w).pending = r.pending
         /\ notificationsErased(r, w).pipeline = r.pipeline
BY DEF saveNotifications, writeStartOffset, notificationsErased, Recorder

LEMMA DequeuesFirst ==
  ASSUME NEW r \in Recorder, NEW w, r.pending # <<>>
  PROVE  /\ dequeueNotification(r, w).pending = Tail(r.pending)
         /\ dequeueNotification(r, w).pipeline = r.pipeline
<1> DEFINE d == [r EXCEPT !.pending = Tail(r.pending), !.lastKnown = r.lastKnown - 1]
           o == [d EXCEPT !.startOffset = d.startOffset + 1]
<1>1. r.pending \in Seq(Message) /\ r.lastKnown \in Int /\ r.startOffset \in Nat
  BY DEF Recorder
<1>2. Tail(r.pending) \in Seq(Message) /\ r.lastKnown - 1 \in Int
  BY <1>1
<1>3. d \in Recorder /\ d.pending = Tail(r.pending) /\ d.pipeline = r.pipeline
  BY <1>2 DEF Recorder
<1>4. o \in Recorder /\ o.pending = d.pending /\ o.pipeline = d.pipeline
  <2> HIDE DEF d
  <2>1. d.startOffset + 1 \in Nat
    BY <1>3 DEF Recorder
  <2> QED  BY <1>3, <2>1 DEF Recorder
<1>5. dequeueNotification(r, w) =
        IF d.needFullSave \/ d.pending = <<>> THEN saveNotifications(d, w)
        ELSE writeStartOffset(o, w)
  BY DEF dequeueNotification
<1> HIDE DEF d, o
<1> QED  BY <1>3, <1>4, <1>5, SavingKeepsLists

LEMMA slotNotifyEnqueues ==
  ASSUME NEW r, Sound(r), NEW sig, NEW msgs \in Seq(Message), NEW w \in BOOLEAN
  PROVE  LET wanted == Wanted(sig, msgs)
         IN /\ slotNotify(r, sig, msgs, w).pipeline = r.pipeline
            /\ slotNotify(r, sig, msgs, w).pending =
                 IF wanted = <<>> THEN r.pending ELSE Enqueued(sig, r.pending, wanted).list
<1> DEFINE wanted == Wanted(sig, msgs)
           done == Enqueued(sig, r.pending, wanted)
           n == [r EXCEPT !.pending = done.list]
           m == [n EXCEPT !.lastKnown = n.lastKnown + done.appended]
<1>1. r \in Recorder /\ r.pending \in Seq(Message)
  BY DEF Sound, Recorder
<1>2. wanted \in Seq(Message)
  BY KeepType DEF Wanted
<1>3. slotNotify(r, sig, msgs, w) =
        IF wanted = <<>> THEN r
        ELSE IF done.erased THEN notificationsErased(n, w)
        ELSE saveNotifications(m, w)
  BY DEF slotNotify, notificationsEnqueued
<1> HIDE DEF wanted
<1>4. done.list \in Seq(Message) /\ done.appended \in Nat
  BY <1>1, <1>2, EnqueuedCounts, RecorderAssumption
<1> HIDE DEF done
<1>5. n \in Recorder /\ n.pending = done.list /\ n.pipeline = r.pipeline /\ n.lastKnown \in Int
  BY <1>1, <1>4 DEF Recorder
<1>6. n.lastKnown + done.appended \in Int
  BY <1>4, <1>5
<1> HIDE DEF n
<1>7. m \in Recorder /\ m.pending = done.list /\ m.pipeline = r.pipeline
  BY <1>5, <1>6 DEF Recorder
<1> HIDE DEF m
<1>8. CASE wanted = <<>>
  BY <1>3, <1>8 DEF wanted
<1>9. CASE wanted # <<>> /\ done.erased
  BY <1>3, <1>5, <1>9, SavingKeepsLists DEF wanted, done
<1>10. CASE wanted # <<>> /\ ~done.erased
  BY <1>3, <1>7, <1>10, SavingKeepsLists DEF wanted, done
<1> QED  BY <1>8, <1>9, <1>10

\* Nothing that is recorded is dropped for want of a listener.
LEMMA AllStillHeard ==
  ASSUME NEW sig, NEW list \in Seq(Fit(sig))
  PROVE  StillHeard(sig, list) = list
<1> DEFINE T == Elements(list)
           S == {m \in T : ~isLazilyIgnored(sig, m, FALSE)}
<1>1. list \in Seq(T) /\ T \subseteq Fit(sig)
  BY DEF Elements
<1>2. T \subseteq S
  BY <1>1, HeardIsKept DEF Fit
<1> HIDE DEF T
<1>3. StillHeard(sig, list) = Keep(list, S)
  BY DEF StillHeard, T
<1> HIDE DEF S
<1> QED  BY <1>1, <1>2, <1>3, KeepShortens

LEMMA NothingCleaned ==
  ASSUME NEW sig, NEW r \in Recorder, r.pending \in Seq(Fit(sig)), NEW w
  PROVE  LET clean == cleanOldNotifications(r, sig, w)
         IN /\ clean.pending = r.pending
            /\ clean.pipeline \in Seq(Message)
            /\ Len(clean.pipeline) <= Len(r.pipeline)
<1> DEFINE c == [r EXCEPT !.pipeline = StillHeard(sig, r.pipeline),
                          !.pending = StillHeard(sig, r.pending)]
           clean == cleanOldNotifications(r, sig, w)
<1>1. r.pipeline \in Seq(Message) /\ r.pending \in Seq(Message) /\ Len(r.pipeline) \in Nat
  BY DEF Recorder
<1>2. StillHeard(sig, r.pipeline) \in Seq(Message) /\ StillHeard(sig, r.pending) = r.pending
  BY <1>1, StillHeardType, AllStillHeard
<1>3. Len(StillHeard(sig, r.pipeline)) <= Len(r.pipeline)
  BY <1>1, KeepShortens DEF StillHeard
<1>4. /\ c \in Recorder /\ c.pending = r.pending
      /\ c.pipeline = StillHeard(sig, r.pipeline)
  BY <1>1, <1>2 DEF Recorder
<1>5. clean = IF c.pipeline = r.pipeline /\ c.pending = r.pending THEN r
              ELSE notificationsErased(c, w)
  BY DEF cleanOldNotifications
<1> HIDE DEF c, clean
<1>6. /\ notificationsErased(c, w).pending = r.pending
      /\ notificationsErased(c, w).pipeline = StillHeard(sig, r.pipeline)
  BY <1>4, SavingKeepsLists
<1>7. /\ clean.pending = r.pending /\ clean.pipeline \in Seq(Message)
      /\ Len(clean.pipeline) <= Len(r.pipeline)
  BY <1>1, <1>2, <1>3, <1>5, <1>6
<1> QED  BY <1>7 DEF clean

-----------------------------------------------------------------------------
(* The two loops *)

\* The list without the first changes, which concern nobody.
Skipped(sig, before, after) ==
  \E k \in 0..Len(before) :
    /\ \A i \in 1..k : ~Concerns(sig, before[i])
    /\ after = SubSeq(before, k + 1, Len(before))

LEMMA SkipOneMore ==
  ASSUME NEW sig, NEW before \in Seq(Message), NEW after, Skipped(sig, before, after),
         after # <<>>, ~Concerns(sig, Head(after))
  PROVE  Skipped(sig, before, Tail(after))
<1> DEFINE n == Len(before)
<1>1. n \in Nat
  OBVIOUS
<1>2. PICK k \in 0..n : /\ \A i \in 1..k : ~Concerns(sig, before[i])
                        /\ after = SubSeq(before, k + 1, n)
  BY DEF Skipped
<1>3. after \in Seq(Message) /\ k + 1 <= n /\ Len(after) = n - k
      /\ \A i \in 1..(n - k) : after[i] = before[k + i]
  <2>1. k + 1 <= n
    BY <1>1, <1>2
  <2> HIDE DEF n
  <2>2. k \in Nat
    BY <1>1
  <2> QED  BY <1>1, <1>2, <2>1, <2>2, SubSeqProperties DEF n
<1>4. Head(after) = before[k + 1]
  BY <1>1, <1>3
<1>5. \A i \in 1..(k + 1) : ~Concerns(sig, before[i])
  <2>1. \A i \in 1..(k + 1) : i \in 1..k \/ i = k + 1
    BY <1>1
  <2> QED  BY <1>2, <1>4, <2>1
<1>6. Tail(after) = SubSeq(before, (k + 1) + 1, n)
  <2> DEFINE b == SubSeq(before, (k + 1) + 1, n)
             t == Tail(after)
  <2>1. /\ t \in Seq(Message) /\ Len(t) = n - k - 1
        /\ \A i \in 1..(n - k - 1) : t[i] = after[i+1]
    BY <1>1, <1>3, HeadTailProperties
  <2>2. /\ b \in Seq(Message) /\ Len(b) = n - k - 1
        /\ \A i \in 1..(n - k - 1) : b[i] = before[k + 1 + i]
    BY <1>1, <1>3, SubSeqProperties
  <2> HIDE DEF b, t
  <2>3. ASSUME NEW i \in 1..(n - k - 1) PROVE t[i] = b[i]
    <3>1. i + 1 \in 1..(n - k) /\ k + (i + 1) = k + 1 + i
      BY <1>1, <1>3
    <3> QED  BY <1>3, <2>1, <2>2, <3>1
  <2>4. t = b
    BY <2>1, <2>2, <2>3, SeqEqual
  <2> QED  BY <2>4 DEF b, t
<1>7. k + 1 \in 0..n
  BY <1>1, <1>3
<1> QED  BY <1>5, <1>6, <1>7 DEF Skipped

\* Where replayNext() can stand that started with nothing in the pipeline.
Replaying(r, sig, w) ==
  {x \in Stand(r, w) :
     /\ Skipped(sig, r.pending, x.r.pending)
     /\ x.r.pending \in Seq(Fit(sig))
     /\ x.said # "fault"
     /\ Len(x.r.pipeline) <= 1
     /\ x.said # "waiting" => x.r.pipeline = <<>>}

LEMMA SkipHeadReplays ==
  ASSUME NEW r, NEW s, NEW sig, NEW w, Keeps(r, s, w), r.pending \in Seq(Message),
         Skipped(sig, r.pending, s.pending), s.pending \in Seq(Fit(sig)),
         s.pipeline = <<>>, s.pending # <<>>, ~Concerns(sig, Head(s.pending))
  PROVE  SkipHead(s, w) \in Replaying(r, sig, w)
<1> DEFINE d == dequeueNotification(s, w)
           x == SkipHead(s, w)
<1>1. x \in Stand(r, w)
  BY SkipHeadStands
<1>2. x = At(d, "again")
  BY DEF SkipHead
<1>3. d.pending = Tail(s.pending) /\ d.pipeline = <<>>
  BY DequeuesFirst DEF Keeps, Sound
<1>4. Skipped(sig, r.pending, Tail(s.pending))
  BY SkipOneMore
<1>5. Tail(s.pending) \in Seq(Fit(sig))
  OBVIOUS
<1> HIDE DEF d, x
<1>6. x.r = d /\ x.said = "again" /\ Len(<<>>) <= 1
  BY <1>2 DEF At
<1>7. x \in Replaying(r, sig, w)
  BY <1>1, <1>3, <1>4, <1>5, <1>6 DEF Replaying
<1> QED  BY <1>7 DEF x

LEMMA ReplayOneReplays ==
  ASSUME NEW r, Sound(r), NEW sig, NEW w \in BOOLEAN, NEW cached,
         NEW x \in Replaying(r, sig, w), x.said = "again"
  PROVE  ReplayOne(x.r, sig, cached, w) \in Replaying(r, sig, w)
<1> DEFINE s == x.r
           msg == Head(s.pending)
           filled == translateAndCompress(s.pipeline, msg)
           p == [s EXCEPT !.pipeline = filled.list]
           clean == cleanOldNotifications(s, sig, w)
           next == ReplayOne(s, sig, cached, w)
<1>1. /\ Keeps(r, s, w) /\ Skipped(sig, r.pending, s.pending)
      /\ s.pending \in Seq(Fit(sig)) /\ s.pipeline = <<>>
      /\ s \in Recorder /\ r.pending \in Seq(Message)
  BY DEF Replaying, Stand, Keeps, Sound, Recorder
<1> HIDE DEF s
<1>2. next \in Stand(r, w)
  BY <1>1, ReplayOneStands
<1>3. Len(<<>>) <= 1
  OBVIOUS
<1>4. CASE s.pending = <<>>
  <2>1. next = At(s, "nothing")
    BY <1>4 DEF ReplayOne
  <2>2. next.r = s /\ next.said = "nothing"
    BY <2>1 DEF At
  <2> HIDE DEF next
  <2>3. next \in Replaying(r, sig, w)
    BY <1>1, <1>2, <1>3, <2>2 DEF Replaying
  <2> QED  BY <2>3 DEF next, s
<1>5. CASE s.pending # <<>> /\ msg \in cached /\ Hears(sig, msg)
  <2>1. next = At(s, "emitted")
    BY <1>5 DEF ReplayOne
  <2>2. next.r = s /\ next.said = "emitted"
    BY <2>1 DEF At
  <2> HIDE DEF next
  <2>3. next \in Replaying(r, sig, w)
    BY <1>1, <1>2, <1>3, <2>2 DEF Replaying
  <2> QED  BY <2>3 DEF next, s
<1>6. CASE s.pending # <<>> /\ msg \in cached /\ ~Hears(sig, msg)
  <2>1. next = SkipHead(clean, w)
    BY <1>6 DEF ReplayOne
  <2>2. Keeps(r, clean, w)
    <3>1. Keeps(s, clean, w)
      BY <1>1, cleanOldNotificationsKeeps DEF Keeps
    <3> QED  BY <1>1, <3>1, KeepsTransitive
  <2>3. /\ clean.pending = s.pending /\ clean.pipeline \in Seq(Message)
        /\ Len(clean.pipeline) <= Len(s.pipeline)
    BY <1>1, NothingCleaned
  <2>4. clean.pipeline = <<>>
    <3> HIDE DEF clean
    <3> QED  BY <1>1, <2>3
  <2>5. ~Concerns(sig, Head(clean.pending))
    BY <1>6, <2>3 DEF Concerns
  <2> HIDE DEF clean, next, msg
  <2>6. SkipHead(clean, w) \in Replaying(r, sig, w)
    BY <1>1, <1>6, <2>2, <2>3, <2>4, <2>5, SkipHeadReplays
  <2> QED  BY <2>1, <2>6 DEF next, s
<1>7. CASE s.pending # <<>> /\ msg \notin cached
  <2>1. msg \in Fit(sig)
    BY <1>1, <1>7
  <2>2. IF filled.appended > 0 THEN Len(filled.list) = 1
        ELSE filled.list = <<>> /\ ~Concerns(sig, msg)
    BY <1>1, <2>1, AloneInPipeline
  <2>3. next = IF filled.appended > 0 THEN At(p, "waiting") ELSE SkipHead(p, w)
    BY <1>7 DEF ReplayOne
  <2> HIDE DEF filled
  <2>4. p.pending = s.pending /\ p.pipeline = filled.list
    BY <1>1 DEF Recorder
  <2>5. CASE filled.appended > 0
    <3>1. next.r = p /\ next.said = "waiting"
      BY <2>3, <2>5 DEF At
    <3>2. Len(filled.list) <= 1
      <4>1. Len(filled.list) = 1
        BY <2>2, <2>5, Zenon
      <4> QED  BY <4>1
    <3> HIDE DEF next, p
    <3>3. next.r.pending = s.pending /\ Len(next.r.pipeline) <= 1
      BY <2>4, <3>1, <3>2
    <3>4. next \in Replaying(r, sig, w)
      BY <1>1, <1>2, <3>1, <3>3 DEF Replaying
    <3> QED  BY <3>4 DEF next, s
  <2>6. CASE ~(filled.appended > 0)
    <3>1. p = s
      BY <1>1, <2>2, <2>6 DEF Recorder
    <3> HIDE DEF p, next
    <3>2. SkipHead(s, w) \in Replaying(r, sig, w)
      BY <1>1, <1>7, <2>2, <2>6, SkipHeadReplays
    <3> QED  BY <2>3, <2>6, <3>1, <3>2 DEF next, s
  <2> QED  BY <2>5, <2>6
<1> QED  BY <1>4, <1>5, <1>6, <1>7

LEMMA replayNextReplays ==
  ASSUME NEW r, Sound(r), NEW sig, NEW w \in BOOLEAN, NEW cached,
         r.pending \in Seq(Fit(sig)), r.pipeline = <<>>
  PROVE  replayNext(r, sig, cached, w) \in Replaying(r, sig, w)
<1> DEFINE step == [x \in [r : Recorder, said : Said] |->
                      IF x.said = "again" THEN ReplayOne(x.r, sig, cached, w) ELSE x]
           n == Len(r.pending) + 1
           Holds == [i \in 0..n |-> Replaying(r, sig, w)]
<1>1. replayNext(r, sig, cached, w) = Iterate(step, At(r, "again"), n)
  BY DEF replayNext
<1>2. n \in Nat /\ r.pending \in Seq(Message)
  BY DEF Sound, Recorder
<1>3. At(r, "again") \in Replaying(r, sig, w)
  <2>1. At(r, "again") \in Stand(r, w)
    BY AtStands DEF Keeps, Said
  <2>2. Skipped(sig, r.pending, r.pending)
    <3>1. Len(r.pending) \in Nat /\ SubSeq(r.pending, 0 + 1, Len(r.pending)) = r.pending
      BY <1>2
    <3> QED  BY <3>1 DEF Skipped
  <2>3. Len(<<>>) <= 1
    OBVIOUS
  <2> QED  BY <2>1, <2>2, <2>3 DEF Replaying, At
<1>4. ASSUME NEW x \in Replaying(r, sig, w) PROVE step[x] \in Replaying(r, sig, w)
  <2>1. x \in [r : Recorder, said : Said]
    BY DEF Replaying, Stand
  <2>2. x.said = "again" => ReplayOne(x.r, sig, cached, w) \in Replaying(r, sig, w)
    BY ReplayOneReplays
  <2>3. step[x] = IF x.said = "again" THEN ReplayOne(x.r, sig, cached, w) ELSE x
    BY <2>1
  <2> HIDE DEF step
  <2> QED  BY <2>2, <2>3
<1> HIDE DEF step, n
<1>5. At(r, "again") \in Holds[0] /\ Holds[n] = Replaying(r, sig, w)
  BY <1>2, <1>3
<1>6. \A i \in 0..(n-1) : \A x \in Holds[i] : step[x] \in Holds[i+1]
  BY <1>2, <1>4
<1> HIDE DEF Holds
<1>7. Iterate(step, At(r, "again"), n) \in Holds[n]
  BY <1>2, <1>5, <1>6, IterateHolds
<1> QED  BY <1>1, <1>5, <1>7

\* Where flushPipeline() can stand: the list is untouched, and no more is emitted
\* than was in the pipeline.
Emitting(r, w) ==
  {x \in Flushed(r, w) :
     /\ x.r.pending = r.pending
     /\ Len(x.r.pipeline) + Len(x.emitted) <= Len(r.pipeline)}

LEMMA FlushOneEmits ==
  ASSUME NEW r, NEW sig, r.pending \in Seq(Fit(sig)), Len(r.pipeline) \in Nat,
         NEW w \in BOOLEAN, NEW x \in Emitting(r, w)
  PROVE  FlushOne(x, sig, w) \in Emitting(r, w)
<1> DEFINE msg == Head(x.r.pipeline)
           taken == [x.r EXCEPT !.pipeline = Tail(x.r.pipeline)]
           clean == cleanOldNotifications(taken, sig, w)
           next == FlushOne(x, sig, w)
<1>1. /\ x \in [r : Recorder, emitted : Seq(Message)]
      /\ x.r \in Recorder /\ x.emitted \in Seq(Message) /\ Len(x.emitted) \in Nat
      /\ x.r.pipeline \in Seq(Message) /\ Len(x.r.pipeline) \in Nat
      /\ x.r.pending = r.pending
      /\ Len(x.r.pipeline) + Len(x.emitted) <= Len(r.pipeline)
  BY DEF Emitting, Flushed, Recorder
<1>2. next \in Flushed(r, w)
  BY FlushOneStands DEF Emitting
<1>3. CASE x.r.pipeline = <<>>
  BY <1>3 DEF FlushOne
<1>4. CASE x.r.pipeline # <<>>
  <2>1. /\ msg \in Message /\ Tail(x.r.pipeline) \in Seq(Message)
        /\ Len(Tail(x.r.pipeline)) = Len(x.r.pipeline) - 1
    BY <1>1, <1>4
  <2>2. /\ taken \in Recorder /\ taken.pending = r.pending
        /\ taken.pipeline = Tail(x.r.pipeline)
    BY <1>1, <2>1 DEF Recorder
  <2>3. next = IF Hears(sig, msg) THEN [r |-> taken, emitted |-> Append(x.emitted, msg)]
               ELSE [x EXCEPT !.r = clean]
    BY <1>4 DEF FlushOne
  <2> HIDE DEF taken, msg, next
  <2>4. CASE Hears(sig, msg)
    <3>1. next.r = taken /\ next.emitted = Append(x.emitted, msg)
      BY <2>3, <2>4
    <3>2. Len(Append(x.emitted, msg)) = Len(x.emitted) + 1
      BY <1>1, <2>1
    <3>3. Len(next.r.pipeline) + Len(next.emitted) <= Len(r.pipeline)
      <4>1. /\ Len(next.r.pipeline) = Len(x.r.pipeline) - 1
            /\ Len(next.emitted) = Len(x.emitted) + 1
        BY <2>1, <2>2, <3>1, <3>2
      <4>2. ASSUME NEW a \in Nat, NEW b \in Nat, NEW c \in Nat, a + b <= c
            PROVE  (a - 1) + (b + 1) <= c
        BY <4>2
      <4> HIDE DEF next
      <4> QED  BY <1>1, <4>1, <4>2
    <3> QED  BY <1>2, <2>2, <3>1, <3>3 DEF Emitting, next
  <2>5. CASE ~Hears(sig, msg)
    <3>1. /\ clean.pending = taken.pending /\ clean.pipeline \in Seq(Message)
          /\ Len(clean.pipeline) <= Len(taken.pipeline)
      BY <2>2, NothingCleaned
    <3> HIDE DEF clean
    <3>2. next.r = clean /\ next.emitted = x.emitted
      BY <1>1, <2>3, <2>5
    <3>3. Len(clean.pipeline) \in Nat
      BY <3>1
    <3>4. Len(next.r.pipeline) + Len(next.emitted) <= Len(r.pipeline)
      BY <1>1, <2>1, <2>2, <3>1, <3>2, <3>3
    <3> QED  BY <1>2, <2>2, <3>1, <3>2, <3>4 DEF Emitting, next
  <2> QED  BY <2>4, <2>5
<1> QED  BY <1>3, <1>4

LEMMA flushPipelineEmits ==
  ASSUME NEW r, Sound(r), NEW sig, r.pending \in Seq(Fit(sig)), NEW n \in Nat,
         NEW w \in BOOLEAN
  PROVE  flushPipeline(r, sig, n, w) \in Emitting(r, w)
<1> DEFINE step == [x \in [r : Recorder, emitted : Seq(Message)] |-> FlushOne(x, sig, w)]
           s == [r |-> r, emitted |-> <<>>]
           Holds == [i \in 0..n |-> Emitting(r, w)]
<1>1. flushPipeline(r, sig, n, w) = Iterate(step, s, n)
  BY DEF flushPipeline
<1>2. r.pipeline \in Seq(Message) /\ Len(r.pipeline) \in Nat
  BY DEF Sound, Recorder
<1>3. s \in Emitting(r, w)
  <2>1. s \in Flushed(r, w)
    BY DEF Flushed, Keeps, Sound
  <2>2. Len(<<>>) = 0 /\ Len(r.pipeline) + 0 <= Len(r.pipeline)
    BY <1>2
  <2> QED  BY <2>1, <2>2 DEF Emitting
<1>4. ASSUME NEW x \in Emitting(r, w) PROVE step[x] \in Emitting(r, w)
  <2>1. x \in [r : Recorder, emitted : Seq(Message)]
    BY DEF Emitting, Flushed
  <2>2. step[x] = FlushOne(x, sig, w)
    BY <2>1
  <2> HIDE DEF step
  <2> QED  BY <1>2, <2>2, FlushOneEmits
<1> HIDE DEF step, s
<1>5. s \in Holds[0] /\ Holds[n] = Emitting(r, w)
  BY <1>3
<1>6. \A i \in 0..(n-1) : \A x \in Holds[i] : step[x] \in Holds[i+1]
  BY <1>4
<1> HIDE DEF Holds
<1>7. Iterate(step, s, n) \in Holds[n]
  BY <1>5, <1>6, IterateHolds
<1> QED  BY <1>1, <1>5, <1>7

-----------------------------------------------------------------------------
(* The refinement *)

\* The circumstances in which the recorder is a log: its file can be written, the
\* agent stays the version it is, no replay is given up, and what is recorded is
\* heard, as is what the recorder found when it first started.
Undisturbed ==
  /\ MaxFailures = 0 /\ MaxAborts = 0 /\ ~AllowUpgrade
  /\ \A sig \in Listenings :
       Complete(sig) /\ \A file \in OldFiles : Loaded(file) \in Seq(Fit(sig))

\* The inductive invariant: the list in the file can be given out change by change,
\* and at most one change is out, while a replay runs.
LogInv ==
  /\ RecorderInv
  /\ spent.failures = 0
  /\ heard \in Listenings
  /\ Loaded(rec.file) \in Seq(Fit(heard))
  /\ Len(rec.pipeline) + Len(handlers) <= 1
  /\ ~replaying => rec.pipeline = <<>> /\ handlers = <<>>
  /\ up \/ ~replaying

\* What LogInv says of the recorder while the agent runs.
LEMMA RunningLog ==
  ASSUME LogInv, up
  PROVE  /\ Sound(rec) /\ Kept(rec) /\ rec \in Recorder
         /\ rec.pending \in Seq(Message) /\ rec.pipeline \in Seq(Message)
         /\ Loaded(rec.file) = rec.pending /\ rec.pending \in Seq(Fit(heard))
         /\ handlers \in Seq(Message)
         /\ Len(rec.pipeline) \in Nat /\ Len(handlers) \in Nat
BY DEF LogInv, RecorderInv, Sound, Kept, Recorder, TypeOK

\* A call can write the file.
LEMMA AlwaysWrites ==
  ASSUME Undisturbed, LogInv, NEW w \in BOOLEAN, Writing(w)
  PROVE  w /\ spent' = spent
<1>1. spent.failures = 0 /\ Bound["failures"] = 0
  BY DEF LogInv, Undisturbed, Bound
<1>2. ~Spend("failures", 1)
  BY <1>1 DEF Spend
<1> QED  BY <1>2 DEF Writing

\* A method that keeps the recorder keeps its file.
LEMMA LogAfter ==
  ASSUME LogInv, up, NEW r, Keeps(rec, r, TRUE)
  PROVE  Loaded(r.file) = r.pending /\ r \in Recorder
BY DEF LogInv, Keeps, Kept, RecorderInv, Sound

LEMMA InitLog ==
  ASSUME Undisturbed
  PROVE  Init => LogInv /\ Log!Init
<1> SUFFICES ASSUME Init PROVE LogInv /\ Log!Init
  OBVIOUS
<1>1. PICK file \in OldFiles : rec = loadNotifications(file)
  BY DEF Init
<1>2. /\ heard \in Listenings /\ up = TRUE /\ replaying = FALSE /\ handlers = <<>>
      /\ spent = [b \in DOMAIN Bound |-> 0]
  BY DEF Init
<1>3. RecorderInv
  BY InitRecorderInv
<1>4. rec.file = file /\ rec.pipeline = <<>>
  BY <1>1 DEF loadNotifications
<1>5. Loaded(rec.file) \in Seq(Fit(heard))
  BY <1>2, <1>4 DEF Undisturbed
<1>6. Len(<<>>) = 0 /\ 0 + 0 <= 1
  OBVIOUS
<1>7. spent.failures = 0
  BY <1>2, BoundsAreNumbers
<1>8. LogInv
  BY <1>2, <1>3, <1>4, <1>5, <1>6, <1>7 DEF LogInv
<1>9. Log!Init
  BY <1>2, <1>5, <1>6, FitIsMessage, LogMessage DEF Log!Init
<1> QED  BY <1>8, <1>9

\* What the list is after the server has notified of changes.
LEMMA NotifyKeepsLog ==
  ASSUME Undisturbed, LogInv, NEW msgs \in Seq(Message), NEW w \in BOOLEAN, Notify(msgs, w)
  PROVE  /\ LogInv'
         /\ rec'.pipeline = rec.pipeline /\ Loaded(rec'.file) = rec'.pending
         /\ rec'.pending = slotNotify(rec, heard, msgs, w).pending
<1> DEFINE next == slotNotify(rec, heard, msgs, w)
           wanted == Wanted(heard, msgs)
<1>1. /\ up /\ rec' = next /\ up' = up /\ heard' = heard
      /\ replaying' = replaying /\ handlers' = handlers
  BY DEF Notify
<1>2. w /\ spent'.failures = 0
  <2>1. spent.failures = 0 /\ MaxFailures = 0
    BY DEF LogInv, Undisturbed
  <2>2. w
    BY <2>1 DEF Notify
  <2>3. spent \in [DOMAIN Bound -> Nat]
    BY DEF LogInv, RecorderInv, TypeOK
  <2> QED  BY <2>1, <2>2, <2>3, BoundsAreNumbers DEF Notify
<1>3. /\ Sound(rec) /\ Loaded(rec.file) = rec.pending /\ rec.pending \in Seq(Fit(heard))
      /\ rec.pending \in Seq(Message)
  BY <1>1, RunningLog
<1>4. Keeps(rec, next, TRUE)
  <2>1. Keeps(rec, next, w)
    BY <1>3, slotNotifyKeeps
  <2> QED  BY <1>2, <2>1 DEF Keeps
<1>5. /\ next.pipeline = rec.pipeline
      /\ next.pending = IF wanted = <<>> THEN rec.pending
                        ELSE Enqueued(heard, rec.pending, wanted).list
  BY <1>3, slotNotifyEnqueues
<1>6. Enqueued(heard, rec.pending, wanted).list \in Seq(Fit(heard))
  BY <1>3, EnqueuedFits, RecorderAssumption DEF LogInv, Undisturbed
<1> HIDE DEF next, wanted
<1>7. Loaded(rec'.file) = next.pending
  BY <1>1, <1>4, LogAfter
<1>8. RecorderInv'
  BY NotifyKeepsInv DEF LogInv
<1>9. Loaded(rec'.file) \in Seq(Fit(heard'))
  BY <1>1, <1>3, <1>5, <1>6, <1>7
<1>10. LogInv'
  BY <1>1, <1>2, <1>5, <1>8, <1>9 DEF LogInv
<1> QED  BY <1>1, <1>5, <1>7, <1>10 DEF next

\* A change enters the log, or one that was skipped changes nothing.
LEMMA NotifyRecords ==
  ASSUME Undisturbed, LogInv, NEW msgs \in Batches, NEW w \in BOOLEAN, Notify(msgs, w)
  PROVE  LogInv' /\ [Log!Next]_(Log!vars)
<1> DEFINE next == slotNotify(rec, heard, msgs, w)
           wanted == Wanted(heard, msgs)
<1>1. /\ up /\ rec' = next /\ up' = up /\ heard' = heard
      /\ replaying' = replaying /\ handlers' = handlers
  BY DEF Notify
<1>2. PICK n \in 1..MaxBatch : msgs \in [1..n -> Notices]
  BY DEF Batches
<1>3. msgs \in Seq(Message)
  BY BatchIsList
<1>4. /\ LogInv' /\ Loaded(rec'.file) = next.pending /\ rec'.pipeline = rec.pipeline
  BY <1>3, NotifyKeepsLog
<1>5. /\ Sound(rec) /\ Loaded(rec.file) = rec.pending
  BY <1>1, RunningLog
<1>6. next.pending = IF wanted = <<>> THEN rec.pending
                     ELSE Enqueued(heard, rec.pending, wanted).list
  BY <1>3, <1>5, slotNotifyEnqueues
<1> HIDE DEF next, wanted
<1>7. CASE wanted = <<>>
  <2>1. Loaded(rec.file)' = Loaded(rec.file)
    BY <1>4, <1>5, <1>6, <1>7
  <2>2. UNCHANGED Log!vars
    BY <1>1, <1>4, <2>1 DEF Log!vars
  <2> QED  BY <1>4, <2>2
<1>8. CASE wanted # <<>>
  <2>1. Loaded(rec.file)' = Log!Enqueued(heard, Loaded(rec.file), Log!Wanted(heard, msgs)).list
    BY <1>4, <1>5, <1>6, <1>8, LogEnqueued, LogWanted DEF wanted
  <2>2. Log!Record
    BY <1>1, <1>2, <2>1 DEF Log!Record
  <2> QED  BY <1>4, <2>2 DEF Log!Next
<1> QED  BY <1>4, <1>7, <1>8

LEMMA LogConcerns ==
  ASSUME NEW msg, ~Concerns(heard, msg)
  PROVE  Log!Idle(msg)
BY LogHears DEF Concerns, Log!Idle

\* What is given out is the first change somebody is to be told of.
LEMMA ReplayNextGives ==
  ASSUME Undisturbed, LogInv, NEW cached, NEW w \in BOOLEAN, ReplayNext(cached, w)
  PROVE  LogInv' /\ [Log!Next]_(Log!vars)
<1> DEFINE x == replayNext(rec, heard, cached, w)
<1>1. /\ up /\ ~replaying /\ Writing(w) /\ heard' = heard
      /\ \/ x.said = "fault"
         \/ /\ rec' = x.r /\ up' = up /\ replaying' = (x.said # "nothing")
            /\ handlers' = IF x.said = "emitted" THEN Append(handlers, Head(x.r.pending))
                           ELSE handlers
  BY DEF ReplayNext
<1>2. w /\ spent' = spent
  BY <1>1, AlwaysWrites
<1>3. /\ Sound(rec) /\ Loaded(rec.file) = rec.pending /\ rec.pending \in Seq(Fit(heard))
      /\ rec.pending \in Seq(Message)
  BY <1>1, RunningLog
<1>4. rec.pipeline = <<>> /\ handlers = <<>>
  BY <1>1 DEF LogInv
<1>5. x \in Replaying(rec, heard, w)
  BY <1>3, <1>4, replayNextReplays
<1>6. /\ Keeps(rec, x.r, w) /\ Skipped(heard, rec.pending, x.r.pending)
      /\ x.r.pending \in Seq(Fit(heard)) /\ x.said # "fault"
      /\ Len(x.r.pipeline) <= 1 /\ x.r \in Recorder
      /\ x.said # "waiting" => x.r.pipeline = <<>>
  BY <1>5 DEF Replaying, Stand, Keeps, Sound
<1> HIDE DEF x
<1>7. /\ rec' = x.r /\ up' = up /\ replaying' = (x.said # "nothing")
      /\ handlers' = IF x.said = "emitted" THEN <<Head(x.r.pending)>> ELSE <<>>
  <2>1. \A e : Append(<<>>, e) = <<e>>
    OBVIOUS
  <2> QED  BY <1>1, <1>4, <1>6, <2>1, Zenon
<1>8. Loaded(rec'.file) = x.r.pending
  <2>1. Keeps(rec, x.r, TRUE)
    BY <1>2, <1>6 DEF Keeps
  <2> QED  BY <1>1, <1>7, <2>1, LogAfter
<1>9. /\ Len(handlers') \in Nat /\ Len(handlers') >= Len(handlers)
      /\ Len(rec'.pipeline) + Len(handlers') <= 1
  <2>1. Len(x.r.pipeline) \in Nat
    BY <1>6 DEF Recorder
  <2>2. Len(handlers) = 0
    BY <1>4
  <2>3. CASE x.said = "emitted"
    <3>1. x.r.pipeline = <<>> /\ handlers' = <<Head(x.r.pending)>>
      BY <1>6, <1>7, <2>3
    <3>2. Len(rec'.pipeline) = 0 /\ Len(handlers') = 1
      BY <1>7, <3>1
    <3> QED  BY <2>2, <3>2
  <2>4. CASE x.said # "emitted"
    <3>1. Len(handlers') = 0
      BY <1>7, <2>4
    <3>2. ASSUME NEW a \in Nat, a <= 1 PROVE a + 0 <= 1
      BY <3>2
    <3>3. Len(x.r.pipeline) + 0 <= 1
      BY <1>6, <2>1, <3>2
    <3>4. Len(rec'.pipeline) + Len(handlers') <= 1
      BY <1>7, <3>1, <3>3, Zenon
    <3> QED  BY <2>2, <3>1, <3>4
  <2> QED  BY <2>3, <2>4
<1>10. LogInv'
  <2>1. RecorderInv'
    BY ReplayNextKeepsInv DEF LogInv
  <2>2. ~replaying' => rec'.pipeline = <<>> /\ handlers' = <<>>
    BY <1>6, <1>7
  <2>3. spent'.failures = 0 /\ heard' \in Listenings
    BY <1>1, <1>2 DEF LogInv
  <2>4. Loaded(rec'.file) \in Seq(Fit(heard'))
    BY <1>1, <1>6, <1>8
  <2> QED  BY <1>1, <1>7, <1>9, <2>1, <2>2, <2>3, <2>4 DEF LogInv
<1>11. Log!Give
  <2>1. PICK k \in 0..Len(rec.pending) :
           /\ \A i \in 1..k : ~Concerns(heard, rec.pending[i])
           /\ x.r.pending = SubSeq(rec.pending, k + 1, Len(rec.pending))
    BY <1>6 DEF Skipped
  <2>2. \A i \in 1..k : Log!Idle(Loaded(rec.file)[i])
    BY <1>3, <2>1, LogConcerns
  <2>3. Loaded(rec.file)' = SubSeq(Loaded(rec.file), k + 1, Len(Loaded(rec.file)))
    BY <1>3, <1>8, <2>1
  <2>4. k \in 0..Len(Loaded(rec.file))
    BY <1>3, <2>1
  <2> QED  BY <1>1, <1>9, <2>2, <2>3, <2>4 DEF Log!Give
<1> QED  BY <1>10, <1>11 DEF Log!Next

\* So is what has waited for its data.
LEMMA DataAvailableGives ==
  ASSUME Undisturbed, LogInv, NEW n \in 1..Len(rec.pipeline), NEW w \in BOOLEAN,
         DataAvailable(n, w)
  PROVE  LogInv' /\ [Log!Next]_(Log!vars)
<1> DEFINE x == flushPipeline(rec, heard, n, w)
<1>1. /\ up /\ Writing(w) /\ rec' = x.r /\ handlers' = handlers \o x.emitted
      /\ up' = up /\ heard' = heard /\ replaying' = replaying
  BY DEF DataAvailable
<1>2. w /\ spent' = spent
  BY <1>1, AlwaysWrites
<1>3. /\ Sound(rec) /\ Loaded(rec.file) = rec.pending /\ rec.pending \in Seq(Fit(heard))
      /\ rec.pending \in Seq(Message) /\ handlers \in Seq(Message)
      /\ rec.pipeline \in Seq(Message)
      /\ Len(rec.pipeline) \in Nat /\ Len(handlers) \in Nat
  BY <1>1, RunningLog
<1>4. replaying
  <2>1. rec.pipeline # <<>>
    BY <1>3
  <2> QED  BY <2>1 DEF LogInv
<1>5. x \in Emitting(rec, w)
  <2>1. n \in Nat
    OBVIOUS
  <2> QED  BY <1>3, <2>1, flushPipelineEmits
<1>6. /\ Keeps(rec, x.r, w) /\ x.r \in Recorder /\ x.r.pending = rec.pending
      /\ x.emitted \in Seq(Message)
      /\ Len(x.r.pipeline) + Len(x.emitted) <= Len(rec.pipeline)
  BY <1>5 DEF Emitting, Flushed
<1> HIDE DEF x
<1>7. Loaded(rec'.file) = Loaded(rec.file)
  <2>1. Keeps(rec, x.r, TRUE)
    BY <1>2, <1>6 DEF Keeps
  <2> QED  BY <1>1, <1>3, <1>6, <2>1, LogAfter
<1>8. /\ Len(handlers') \in Nat /\ Len(handlers') >= Len(handlers)
      /\ Len(rec'.pipeline) + Len(handlers') <= 1
  <2>1. Len(handlers') = Len(handlers) + Len(x.emitted) /\ Len(x.emitted) \in Nat
    BY <1>1, <1>3, <1>6
  <2>2. Len(x.r.pipeline) \in Nat
    BY <1>6 DEF Recorder
  <2>3. Len(rec.pipeline) + Len(handlers) <= 1
    BY DEF LogInv
  <2>4. ASSUME NEW a \in Nat, NEW b \in Nat, NEW c \in Nat, NEW d \in Nat,
               a + b <= c, c + d <= 1
        PROVE  d + b \in Nat /\ d + b >= d /\ a + (d + b) <= 1
    BY <2>4
  <2>5. /\ Len(handlers) + Len(x.emitted) \in Nat
        /\ Len(handlers) + Len(x.emitted) >= Len(handlers)
        /\ Len(x.r.pipeline) + (Len(handlers) + Len(x.emitted)) <= 1
    BY <1>3, <1>6, <2>1, <2>2, <2>3, <2>4
  <2> QED  BY <1>1, <2>1, <2>5, Zenon
<1>9. LogInv'
  <2>1. RecorderInv'
    BY DataAvailableKeepsInv DEF LogInv
  <2>2. /\ spent'.failures = 0 /\ heard' \in Listenings
        /\ Loaded(rec'.file) \in Seq(Fit(heard'))
    BY <1>1, <1>2, <1>7 DEF LogInv
  <2> QED  BY <1>1, <1>4, <1>8, <2>1, <2>2 DEF LogInv
<1>10. Log!Give
  <2> DEFINE log == Loaded(rec.file)
  <2>1. 0 \in 0..Len(log) /\ SubSeq(log, 0 + 1, Len(log)) = log
    BY <1>3
  <2>2. log' = log
    BY <1>7
  <2>3. \A i \in 1..0 : Log!Idle(log[i])
    OBVIOUS
  <2>4. heard' = heard /\ Len(handlers)' \in Nat /\ Len(handlers)' >= Len(handlers)
    BY <1>1, <1>8
  <2>5. \E k \in 0..Len(log) :
          (\A i \in 1..k : Log!Idle(log[i])) /\ log' = SubSeq(log, k + 1, Len(log))
    BY <2>1, <2>2, <2>3, Zenon
  <2> QED  BY <2>4, <2>5 DEF Log!Give
<1> QED  BY <1>9, <1>10 DEF Log!Next

\* An answer takes the first change out of the log.
LEMMA ChangeProcessedIsDone ==
  ASSUME Undisturbed, LogInv, NEW i \in DOMAIN handlers, NEW w \in BOOLEAN,
         ChangeProcessed(i, w)
  PROVE  LogInv' /\ [Log!Next]_(Log!vars)
<1> DEFINE next == changeProcessed(rec, w)
<1>1. /\ up /\ Writing(w) /\ rec' = next /\ handlers' = Without(handlers, i)
      /\ replaying' = FALSE /\ up' = up /\ heard' = heard
  BY DEF ChangeProcessed
<1>2. w /\ spent' = spent
  BY <1>1, AlwaysWrites
<1>3. /\ Sound(rec) /\ Loaded(rec.file) = rec.pending /\ rec.pending \in Seq(Fit(heard))
      /\ rec \in Recorder /\ handlers \in Seq(Message)
      /\ rec.pipeline \in Seq(Message)
      /\ Len(rec.pipeline) \in Nat /\ Len(handlers) \in Nat
  BY <1>1, RunningLog
<1>4. Len(handlers) = 1 /\ rec.pipeline = <<>> /\ i = 1
  <2>1. Len(rec.pipeline) + Len(handlers) <= 1 /\ Len(handlers) >= 1
    BY <1>3 DEF LogInv
  <2>2. ASSUME NEW a \in Nat, NEW b \in Nat, a + b <= 1, b >= 1
        PROVE  b = 1 /\ a = 0
    BY <2>2
  <2>3. Len(handlers) = 1 /\ Len(rec.pipeline) = 0
    BY <1>3, <2>1, <2>2
  <2> QED  BY <1>3, <2>3
<1>5. handlers' = <<>>
  <2>1. Without(handlers, 1) = <<>>
    BY <1>3, <1>4 DEF Without
  <2> QED  BY <1>1, <1>4, <2>1
<1>6. /\ next.pending = IF rec.pending = <<>> THEN <<>> ELSE Tail(rec.pending)
      /\ next.pipeline = <<>>
  BY <1>3, <1>4, DequeuesFirst DEF changeProcessed
<1>7. Keeps(rec, next, TRUE)
  BY <1>2, <1>3, changeProcessedKeeps
<1> HIDE DEF next
<1>8. Loaded(rec'.file) = next.pending
  BY <1>1, <1>7, LogAfter
<1>9. LogInv'
  <2>1. RecorderInv'
    BY ChangeProcessedKeepsInv DEF LogInv
  <2>2. next.pending \in Seq(Fit(heard))
    BY <1>3, <1>6
  <2>3. /\ spent'.failures = 0 /\ heard' \in Listenings
        /\ Loaded(rec'.file) \in Seq(Fit(heard'))
    BY <1>1, <1>2, <1>8, <2>2 DEF LogInv
  <2>4. Len(rec'.pipeline) + Len(handlers') <= 1
    <3>1. Len(<<>>) + Len(<<>>) <= 1
      OBVIOUS
    <3> QED  BY <1>1, <1>5, <1>6, <3>1
  <2> QED  BY <1>1, <1>5, <1>6, <2>1, <2>3, <2>4 DEF LogInv
<1>10. Log!Done
  <2>1. Len(handlers) > 0 /\ Len(handlers') = Len(handlers) - 1
    BY <1>4, <1>5
  <2>2. Loaded(rec.file)' = IF Loaded(rec.file) = <<>> THEN Loaded(rec.file)
                            ELSE Tail(Loaded(rec.file))
    BY <1>3, <1>6, <1>8
  <2> QED  BY <1>1, <2>1, <2>2 DEF Log!Done
<1> QED  BY <1>9, <1>10 DEF Log!Next

LEMMA DeferPutsOff ==
  ASSUME Undisturbed, LogInv, NEW i \in DOMAIN handlers, Defer(i)
  PROVE  LogInv' /\ [Log!Next]_(Log!vars)
<1>1. /\ up /\ rec' = rec /\ handlers' = Without(handlers, i)
      /\ replaying' = FALSE /\ up' = up /\ heard' = heard
  BY DEF Defer
<1>2. spent'.failures = spent.failures
  BY SpendCounts DEF LogInv, RecorderInv, TypeOK, Defer
<1>3. /\ handlers \in Seq(Message) /\ rec.pipeline \in Seq(Message)
      /\ Len(rec.pipeline) \in Nat /\ Len(handlers) \in Nat
  BY <1>1, RunningLog
<1>4. Len(handlers) = 1 /\ rec.pipeline = <<>> /\ i = 1
  <2>1. Len(rec.pipeline) + Len(handlers) <= 1 /\ Len(handlers) >= 1
    BY <1>3 DEF LogInv
  <2>2. ASSUME NEW a \in Nat, NEW b \in Nat, a + b <= 1, b >= 1
        PROVE  b = 1 /\ a = 0
    BY <2>2
  <2>3. Len(handlers) = 1 /\ Len(rec.pipeline) = 0
    BY <1>3, <2>1, <2>2
  <2> QED  BY <1>3, <2>3
<1>5. handlers' = <<>>
  <2>1. Without(handlers, 1) = <<>>
    BY <1>3, <1>4 DEF Without
  <2> QED  BY <1>1, <1>4, <2>1
<1>6. LogInv'
  <2>1. RecorderInv'
    BY DeferKeepsInv DEF LogInv
  <2>2. Len(rec'.pipeline) + Len(handlers') <= 1
    <3>1. Len(<<>>) + Len(<<>>) <= 1
      OBVIOUS
    <3> QED  BY <1>1, <1>4, <1>5, <3>1
  <2> QED  BY <1>1, <1>2, <1>4, <1>5, <2>1, <2>2 DEF LogInv
<1>7. Log!PutOff
  <2>1. Len(handlers) > 0 /\ Len(handlers') = Len(handlers) - 1
    BY <1>4, <1>5
  <2> QED  BY <1>1, <2>1 DEF Log!PutOff
<1> QED  BY <1>6, <1>7 DEF Log!Next

LEMMA NeverAborts ==
  ASSUME Undisturbed, LogInv, Abort
  PROVE  FALSE
<1>1. spent \in [DOMAIN Bound -> Nat]
  BY DEF LogInv, RecorderInv, TypeOK
<1>2. spent["aborts"] \in Nat
  BY <1>1, BoundsAreNumbers
<1>3. Bound["aborts"] = 0
  BY DEF Undisturbed, Bound
<1>4. spent["aborts"] + 1 <= 0
  BY <1>3 DEF Abort, Spend
<1> QED  BY <1>2, <1>4

LEMMA CrashLosesWhatWasGiven ==
  ASSUME Undisturbed, LogInv, Crash
  PROVE  LogInv' /\ [Log!Next]_(Log!vars)
<1>1. /\ rec' = EmptyRecorder(rec.file) /\ up' = FALSE /\ heard' = heard
      /\ replaying' = FALSE /\ handlers' = <<>>
  BY DEF Crash, Died
<1>2. spent'.failures = spent.failures
  BY SpendCounts DEF LogInv, RecorderInv, TypeOK, Crash
<1>3. rec'.file = rec.file /\ rec'.pipeline = <<>>
  BY <1>1 DEF EmptyRecorder
<1>4. Len(<<>>) = 0 /\ 0 + 0 <= 1
  OBVIOUS
<1>5. LogInv'
  <2>1. RecorderInv'
    BY CrashKeepsInv DEF LogInv
  <2> QED  BY <1>1, <1>2, <1>3, <1>4, <2>1 DEF LogInv
<1>6. Log!Crash
  BY <1>1, <1>3, <1>4 DEF Log!Crash
<1> QED  BY <1>5, <1>6 DEF Log!Next

LEMMA RestartFindsTheLog ==
  ASSUME Undisturbed, LogInv, Restart
  PROVE  LogInv' /\ [Log!Next]_(Log!vars)
<1>1. /\ ~up /\ rec' = loadNotifications(rec.file) /\ heard' = heard
      /\ replaying' = replaying /\ handlers' = handlers /\ spent' = spent
  BY DEF Restart, Undisturbed
<1>2. rec'.file = rec.file /\ rec'.pipeline = <<>>
  BY <1>1 DEF loadNotifications
<1>3. handlers = <<>> /\ ~replaying
  BY <1>1 DEF LogInv
<1>4. Len(<<>>) + Len(<<>>) <= 1
  OBVIOUS
<1>5. LogInv'
  <2>1. RecorderInv'
    BY RestartKeepsInv DEF LogInv
  <2> QED  BY <1>1, <1>2, <1>3, <1>4, <2>1 DEF LogInv
<1>6. UNCHANGED Log!vars
  BY <1>1, <1>2 DEF Log!vars
<1> QED  BY <1>5, <1>6

LEMMA StepOfLog ==
  ASSUME Undisturbed
  PROVE  LogInv /\ [Next]_vars => LogInv' /\ [Log!Next]_(Log!vars)
<1> SUFFICES ASSUME LogInv, [Next]_vars PROVE LogInv' /\ [Log!Next]_(Log!vars)
  OBVIOUS
<1>1. CASE \E msgs \in Batches, w \in BOOLEAN : Notify(msgs, w)
  BY <1>1, NotifyRecords
<1>2. CASE \E cached \in SUBSET Elements(rec.pending), w \in BOOLEAN : ReplayNext(cached, w)
  BY <1>2, ReplayNextGives
<1>3. CASE \E n \in 1..Len(rec.pipeline), w \in BOOLEAN : DataAvailable(n, w)
  BY <1>3, DataAvailableGives
<1>4. CASE \E i \in DOMAIN handlers, w \in BOOLEAN : ChangeProcessed(i, w)
  BY <1>4, ChangeProcessedIsDone
<1>5. CASE \E i \in DOMAIN handlers : Defer(i)
  BY <1>5, DeferPutsOff
<1>6. CASE Abort
  BY <1>6, NeverAborts
<1>7. CASE Crash
  BY <1>7, CrashLosesWhatWasGiven
<1>8. CASE Restart
  BY <1>8, RestartFindsTheLog
<1>9. CASE UNCHANGED vars
  <2>1. /\ rec' = rec /\ up' = up /\ heard' = heard /\ replaying' = replaying
        /\ handlers' = handlers /\ spent' = spent
    BY <1>9 DEF vars
  <2>2. RecorderInv'
    BY <1>9, StepKeepsInv DEF LogInv
  <2> QED  BY <2>1, <2>2 DEF LogInv, Log!vars
<1> QED  BY <1>1, <1>2, <1>3, <1>4, <1>5, <1>6, <1>7, <1>8, <1>9 DEF Next

\* The recorder, its file and its pipeline together are a log: a change that was
\* recorded stays until its answer comes or nobody is to be told of it, and a crash
\* costs only what was given out.
THEOREM RecorderIsLog ==
  ASSUME Undisturbed
  PROVE  Spec => ImplementsLog
<1>1. Init => LogInv /\ Log!Init
  BY InitLog
<1>2. LogInv /\ [Next]_vars => LogInv' /\ [Log!Next]_(Log!vars)
  BY StepOfLog
<1> QED  BY <1>1, <1>2, PTL DEF Spec, ImplementsLog, Log!Spec

-----------------------------------------------------------------------------
(* The replay on the server.  What a list of changes says of a flag of an  *)
(* item, and when that list can be repeated                                *)

\* What a recorded change says of an item, and of a flag of it.
Speaks(m, i, x) == m.op = "ModifyFlags" /\ i \in m.entities /\ x \in m.added \cup m.removed
Adds(m, i)    == m.op = "Add" /\ i \in m.entities
Uploads(m, i) == m.op \in {"Add", "Modify"} /\ i \in m.entities
Removes(m, i) == m.op = "Remove" /\ i \in m.entities

\* The last change of a flag leaves it as it is in the cache, ...
Ends(q, i, x, flags) ==
  \A k \in DOMAIN q :
    Speaks(q[k], i, x) /\ (\A l \in DOMAIN q : l > k => ~Speaks(q[l], i, x))
      => (x \notin q[k].removed <=> x \in flags)

\* ... each finds it as the one before it left it, ...
Chains(q, i, x) ==
  \A a, b \in DOMAIN q :
    /\ a < b /\ Speaks(q[a], i, x) /\ Speaks(q[b], i, x)
    /\ \A l \in DOMAIN q : a < l /\ l < b => ~Speaks(q[l], i, x)
    => (x \notin q[a].removed <=> x \notin q[b].added)

\* ... and the first after position s as it is on the server.
Starts(q, s, i, x, flags) ==
  \A k \in DOMAIN q :
    /\ k > s /\ Speaks(q[k], i, x)
    /\ \A l \in DOMAIN q : s < l /\ l < k => ~Speaks(q[l], i, x)
    => (x \notin q[k].added <=> x \in flags)

Untold(q, s, i, x) == \A k \in DOMAIN q : k > s => ~Speaks(q[k], i, x)

\* The item is on the server, and will not be created once more.
Seen(q, s, i, d) == d.there /\ \A k \in DOMAIN q : k > s => ~Adds(q[k], i)

\* What the record says of a flag accounts for the difference between the cache
\* and the server.
FlagAt(q, s, i, x, flags, d, late) ==
  /\ Ends(q, i, x, flags)
  /\ Seen(q, s, i, d) /\ Untold(q, s, i, x) => (x \in d.flags <=> x \in flags)
  /\ ~late => Chains(q, i, x) /\ (Seen(q, s, i, d) => Starts(q, s, i, x, d.flags))

-----------------------------------------------------------------------------
\* The same words about a flag of an item.
SameWord(m, n, i, x) ==
  /\ Speaks(m, i, x) <=> Speaks(n, i, x)
  /\ Speaks(m, i, x) => /\ x \in m.added <=> x \in n.added
                        /\ x \in m.removed <=> x \in n.removed
  /\ Adds(m, i) <=> Adds(n, i)

Matters(m, i, x) == Speaks(m, i, x) \/ Adds(m, i)

\* List p says of a flag what q says, in the same order: g says where.
EchoesBy(q, p, s, i, x, g) ==
  /\ g \in [DOMAIN p -> Nat]
  /\ \A a, b \in DOMAIN p : a < b => g[a] < g[b]
  /\ \A a \in DOMAIN p : Matters(p[a], i, x) =>
       /\ g[a] \in DOMAIN q
       /\ SameWord(p[a], q[g[a]], i, x)
       /\ a > s <=> g[a] > s
  /\ \A k \in DOMAIN q : Matters(q[k], i, x) =>
       \E a \in DOMAIN p : g[a] = k /\ SameWord(p[a], q[k], i, x)

\* A list that says the same of a flag is right about it if the other is.
LEMMA EchoKeepsFlag ==
  ASSUME NEW q \in Seq(Message), NEW p \in Seq(Message), NEW s \in Nat, NEW i, NEW x,
         NEW flags, NEW d, NEW late, NEW later, late => later,
         FlagAt(q, s, i, x, flags, d, late),
         NEW g, EchoesBy(q, p, s, i, x, g)
  PROVE  FlagAt(p, s, i, x, flags, d, later)
<1> DEFINE Sq(k) == Speaks(q[k], i, x)
           Sp(a) == Speaks(p[a], i, x)
<1>0. DOMAIN q \subseteq Nat /\ DOMAIN p \subseteq Nat
  OBVIOUS
<1>1. ASSUME NEW a \in DOMAIN p, Sp(a)
      PROVE  /\ g[a] \in DOMAIN q /\ Sq(g[a])
             /\ x \in p[a].added <=> x \in q[g[a]].added
             /\ x \in p[a].removed <=> x \in q[g[a]].removed
             /\ a > s <=> g[a] > s
  BY <1>1 DEF EchoesBy, Matters, SameWord
<1>2. ASSUME NEW k \in DOMAIN q, Sq(k) PROVE \E a \in DOMAIN p : g[a] = k /\ Sp(a)
  BY <1>2 DEF EchoesBy, Matters, SameWord
<1>3. \A a, b \in DOMAIN p : g[a] < g[b] => a < b
  BY <1>0, SMTT(30) DEF EchoesBy
<1>4. \A a, b \in DOMAIN p : a < b => g[a] < g[b]
  BY DEF EchoesBy
<1>5. Seen(p, s, i, d) => Seen(q, s, i, d)
  <2> SUFFICES ASSUME Seen(p, s, i, d), NEW k \in DOMAIN q, k > s, Adds(q[k], i) PROVE FALSE
    BY DEF Seen
  <2>1. PICK a \in DOMAIN p : g[a] = k /\ SameWord(p[a], q[k], i, x)
    BY DEF EchoesBy, Matters
  <2>2. Adds(p[a], i)
    BY <2>1 DEF SameWord
  <2>3. a > s
    BY <2>1, <2>2 DEF EchoesBy, Matters
  <2> QED  BY <2>2, <2>3 DEF Seen
<1> HIDE DEF Sq, Sp
<1>6. Ends(p, i, x, flags)
  <2>1. Ends(q, i, x, flags)
    BY DEF FlagAt
  <2> SUFFICES ASSUME NEW k \in DOMAIN p, Sp(k), \A l \in DOMAIN p : l > k => ~Sp(l)
               PROVE  x \notin p[k].removed <=> x \in flags
    BY DEF Ends, Sp
  <2>2. \A l \in DOMAIN q : l > g[k] => ~Sq(l)
    BY <1>2, <1>3
  <2>3. x \notin q[g[k]].removed <=> x \in flags
    BY <1>1, <2>1, <2>2 DEF Ends, Sq
  <2> QED  BY <1>1, <2>3
<1>7. Untold(p, s, i, x) => Untold(q, s, i, x)
  BY <1>1, <1>2 DEF Untold, Sp, Sq
<1>8. Chains(q, i, x) => Chains(p, i, x)
  <2> SUFFICES ASSUME Chains(q, i, x), NEW a \in DOMAIN p, NEW b \in DOMAIN p, a < b,
                      Sp(a), Sp(b), \A l \in DOMAIN p : a < l /\ l < b => ~Sp(l)
               PROVE  x \notin p[a].removed <=> x \notin p[b].added
    BY DEF Chains, Sp
  <2>1. g[a] < g[b] /\ Sq(g[a]) /\ Sq(g[b])
    BY <1>1, <1>4
  <2>2. \A l \in DOMAIN q : g[a] < l /\ l < g[b] => ~Sq(l)
    BY <1>2, <1>3
  <2>3. x \notin q[g[a]].removed <=> x \notin q[g[b]].added
    BY <1>1, <2>1, <2>2 DEF Chains, Sq
  <2> QED  BY <1>1, <2>3
<1>9. Starts(q, s, i, x, d.flags) => Starts(p, s, i, x, d.flags)
  <2> SUFFICES ASSUME Starts(q, s, i, x, d.flags), NEW k \in DOMAIN p, k > s,
                      Sp(k), \A l \in DOMAIN p : s < l /\ l < k => ~Sp(l)
               PROVE  x \notin p[k].added <=> x \in d.flags
    BY DEF Starts, Sp
  <2>1. g[k] > s /\ Sq(g[k])
    BY <1>1
  <2>2. \A l \in DOMAIN q : s < l /\ l < g[k] => ~Sq(l)
    BY <1>1, <1>2, <1>3
  <2>3. x \notin q[g[k]].added <=> x \in d.flags
    BY <1>1, <2>1, <2>2 DEF Starts, Sq
  <2> QED  BY <1>1, <2>3
<1> QED  BY <1>5, <1>6, <1>7, <1>8, <1>9 DEF FlagAt

-----------------------------------------------------------------------------
(* A change of a flag is appended to the list, or is told already *)

\* A flag that is spoken of at all is spoken of for a last time.
LEMMA LastSpeaker ==
  ASSUME NEW q \in Seq(Message), NEW i, NEW x, NEW k \in DOMAIN q, Speaks(q[k], i, x)
  PROVE  \E j \in DOMAIN q :
           /\ j >= k /\ Speaks(q[j], i, x)
           /\ \A l \in DOMAIN q : l > j => ~Speaks(q[l], i, x)
<1> DEFINE S == {m \in Message : Speaks(m, i, x)}
           n == Len(q)
<1>1. n \in Nat /\ DOMAIN q = 1..n /\ \A l \in 1..n : q[l] \in S <=> Speaks(q[l], i, x)
  OBVIOUS
<1> HIDE DEF S, n
<1>2. \E j \in 1..n : q[j] \in S /\ \A l \in 1..n : q[l] \in S => l <= j
  BY <1>1, LargestIndex
<1> QED  BY <1>1, <1>2

\* A change of flags that is true: it is told which flags the item has now and
\* which it has not, and all others are as they were.
TrueOf(msg, x, before, after) ==
  /\ x \in msg.added => x \in after /\ x \notin msg.removed
  /\ x \in msg.removed => x \notin after
  /\ x \notin msg.added \cup msg.removed => (x \in after <=> x \in before)

\* And it changes the flag.
News(msg, x, before) ==
  /\ x \in msg.added => x \notin before
  /\ x \in msg.removed => x \in before

\* The flag is told of at the end of the list.
LEMMA AppendedFlag ==
  ASSUME NEW q \in Seq(Message), NEW msg \in Message, NEW i, NEW x, Speaks(msg, i, x),
         NEW before, NEW after, NEW d, NEW late, NEW later,
         FlagAt(q, 0, i, x, before, d, late),
         TrueOf(msg, x, before, after), ~later => ~late /\ News(msg, x, before)
  PROVE  FlagAt(Append(q, msg), 0, i, x, after, d, later)
<1> DEFINE n == Len(q)
           p == Append(q, msg)
<1>1. /\ n \in Nat /\ DOMAIN q = 1..n /\ DOMAIN p = 1..(n + 1) /\ p[n + 1] = msg
      /\ \A k \in 1..n : p[k] = q[k]
  OBVIOUS
<1> HIDE DEF n, p
<1>2. x \in msg.added <=> x \notin msg.removed
  BY DEF Speaks, TrueOf
<1>3. x \in msg.added <=> x \in after
  BY <1>2 DEF Speaks, TrueOf
<1>4. ~Untold(p, 0, i, x)
  BY <1>1 DEF Untold
<1>5. Seen(p, 0, i, d) => Seen(q, 0, i, d)
  BY <1>1 DEF Seen
<1>6. Ends(p, i, x, after)
  <2> SUFFICES ASSUME NEW k \in DOMAIN p, Speaks(p[k], i, x),
                      \A l \in DOMAIN p : l > k => ~Speaks(p[l], i, x)
               PROVE  x \notin p[k].removed <=> x \in after
    BY DEF Ends
  <2>1. k = n + 1
    BY <1>1
  <2> QED  BY <1>1, <1>2, <1>3, <2>1
<1>7. ~later => Chains(p, i, x)
  <2> SUFFICES ASSUME ~later, NEW a \in DOMAIN p, NEW b \in DOMAIN p, a < b,
                      Speaks(p[a], i, x), Speaks(p[b], i, x),
                      \A l \in DOMAIN p : a < l /\ l < b => ~Speaks(p[l], i, x)
               PROVE  x \notin p[a].removed <=> x \notin p[b].added
    BY DEF Chains
  <2>1. a \in 1..n
    BY <1>1
  <2>2. CASE b \in 1..n
    <3>1. Chains(q, i, x)
      BY DEF FlagAt
    <3>2. \A l \in 1..n : a < l /\ l < b => ~Speaks(q[l], i, x)
      BY <1>1
    <3> QED  BY <1>1, <2>1, <2>2, <3>1, <3>2 DEF Chains
  <2>3. CASE b = n + 1
    <3>1. \A l \in 1..n : l > a => ~Speaks(q[l], i, x)
      BY <1>1, <2>3
    <3>2. x \notin q[a].removed <=> x \in before
      BY <1>1, <2>1, <3>1 DEF FlagAt, Ends
    <3>3. x \in before <=> x \notin msg.added
      BY <1>2 DEF News, Speaks
    <3> QED  BY <1>1, <2>1, <2>3, <3>2, <3>3
  <2> QED  BY <1>1, <2>2, <2>3
<1>8. ~later /\ Seen(p, 0, i, d) => Starts(p, 0, i, x, d.flags)
  <2> SUFFICES ASSUME ~later, Seen(q, 0, i, d), NEW k \in DOMAIN p, k > 0,
                      Speaks(p[k], i, x),
                      \A l \in DOMAIN p : 0 < l /\ l < k => ~Speaks(p[l], i, x)
               PROVE  x \notin p[k].added <=> x \in d.flags
    BY <1>5 DEF Starts
  <2>1. CASE k \in 1..n
    <3>1. Starts(q, 0, i, x, d.flags)
      BY DEF FlagAt
    <3>2. \A l \in 1..n : 0 < l /\ l < k => ~Speaks(q[l], i, x)
      BY <1>1
    <3> QED  BY <1>1, <2>1, <3>1, <3>2 DEF Starts
  <2>2. CASE k = n + 1
    <3>1. Untold(q, 0, i, x)
      BY <1>1, <2>2 DEF Untold
    <3>2. x \in d.flags <=> x \in before
      BY <3>1 DEF FlagAt
    <3>3. x \in before <=> x \notin msg.added
      BY <1>2 DEF News, Speaks
    <3> QED  BY <1>1, <2>2, <3>2, <3>3
  <2> QED  BY <1>1, <2>1, <2>2
<1>9. FlagAt(p, 0, i, x, after, d, later)
  BY <1>4, <1>6, <1>7, <1>8 DEF FlagAt
<1> QED  BY <1>9 DEF p

\* What stays in the record after a change agrees with it: no later entry of the
\* record turns the flag back.
Agrees(q, j, msg, i, x) ==
  \A k \in DOMAIN q : k > j /\ Speaks(q[k], i, x) =>
    /\ x \in msg.added => x \notin q[k].removed
    /\ x \in msg.removed => x \in q[k].removed

\* So a change of the flag that is news comes after all others.
LEMMA NewsComesLast ==
  ASSUME NEW q \in Seq(Message), NEW msg \in Message, NEW i, NEW x, Speaks(msg, i, x),
         NEW before, Ends(q, i, x, before), News(msg, x, before),
         NEW j \in Nat, Agrees(q, j, msg, i, x)
  PROVE  \A k \in DOMAIN q : k > j => ~Speaks(q[k], i, x)
<1> SUFFICES ASSUME NEW k \in DOMAIN q, k > j, Speaks(q[k], i, x) PROVE FALSE
  OBVIOUS
<1>1. PICK l \in DOMAIN q :
        /\ l >= k /\ Speaks(q[l], i, x)
        /\ \A a \in DOMAIN q : a > l => ~Speaks(q[a], i, x)
  BY LastSpeaker
<1>2. x \notin q[l].removed <=> x \in before
  BY <1>1 DEF Ends
<1>3. l > j
  <2>1. DOMAIN q \subseteq Nat
    OBVIOUS
  <2> QED  BY <1>1, <2>1
<1> QED  BY <1>1, <1>2, <1>3 DEF News, Agrees, Speaks

\* The change is dropped, because the item is yet to be created: the flags it has
\* then go along.
LEMMA CoveredFlag ==
  ASSUME NEW q \in Seq(Message), NEW msg \in Message, NEW i, NEW x, Speaks(msg, i, x),
         NEW before, NEW after, NEW d, NEW late, NEW later,
         FlagAt(q, 0, i, x, before, d, late),
         TrueOf(msg, x, before, after), ~later => ~late,
         NEW j \in DOMAIN q, Adds(q[j], i),
         \A l \in DOMAIN q : l < j => i \notin q[l].entities,
         Agrees(q, j, msg, i, x)
  PROVE  FlagAt(q, 0, i, x, after, d, later)
<1>1. DOMAIN q \subseteq Nat \ {0}
  OBVIOUS
<1>2. ~Seen(q, 0, i, d)
  BY <1>1 DEF Seen
<1>3. Ends(q, i, x, after)
  <2> SUFFICES ASSUME NEW k \in DOMAIN q, Speaks(q[k], i, x)
               PROVE  x \notin q[k].removed <=> x \in after
    BY DEF Ends
  <2>1. k > j
    <3>1. k >= j
      BY <1>1 DEF Speaks
    <3>2. k # j
      BY DEF Speaks, Adds
    <3> QED  BY <1>1, <3>1, <3>2
  <2> QED  BY <2>1 DEF Agrees, TrueOf, Speaks
<1> QED  BY <1>2, <1>3 DEF FlagAt

-----------------------------------------------------------------------------
(* A change of a flag is merged into an entry, or undoes it *)

\* A flag is right in the list if it was and has not changed.
LEMMA SameFlag ==
  ASSUME NEW q, NEW s, NEW i, NEW x, NEW before, NEW after, NEW d, NEW late, NEW later,
         FlagAt(q, s, i, x, before, d, late), x \in after <=> x \in before, late => later
  PROVE  FlagAt(q, s, i, x, after, d, later)
BY DEF FlagAt, Ends

\* The flag is told of in the entry that absorbs the change.
LEMMA MergedFlag ==
  ASSUME NEW q \in Seq(Message), NEW msg \in Message, NEW i, NEW x, Speaks(msg, i, x),
         NEW before, NEW after, NEW d, NEW late, NEW later,
         FlagAt(q, 0, i, x, before, d, late),
         TrueOf(msg, x, before, after), ~later => ~late /\ News(msg, x, before),
         NEW j \in DOMAIN q, NEW m \in Message,
         m.op = "ModifyFlags", q[j].op = "ModifyFlags", i \in m.entities, i \in q[j].entities,
         m.added = q[j].added \cup msg.added, m.removed = q[j].removed \cup msg.removed,
         x \in msg.added => x \notin q[j].removed,
         Agrees(q, j, msg, i, x)
  PROVE  FlagAt([q EXCEPT ![j] = m], 0, i, x, after, d, later)
<1> DEFINE n == Len(q)
           p == [q EXCEPT ![j] = m]
           old == q[j]
<1>1. /\ n \in Nat /\ DOMAIN q = 1..n /\ DOMAIN p = 1..n /\ p[j] = m /\ j \in 1..n
      /\ \A k \in 1..n : k # j => p[k] = q[k]
  OBVIOUS
<1> HIDE DEF n, p, old
<1>2. x \in msg.added <=> x \notin msg.removed
  BY DEF Speaks, TrueOf
<1>3. /\ Speaks(m, i, x)
      /\ Speaks(old, i, x) <=> x \in old.added \cup old.removed
      /\ x \in m.added <=> x \in old.added \/ x \in msg.added
      /\ x \in m.removed <=> x \in old.removed \/ x \in msg.removed
      /\ x \in after <=> x \notin m.removed
      /\ x \in after <=> x \in msg.added
      /\ x \in msg.added => x \notin old.removed
  BY <1>2 DEF Speaks, TrueOf, old
<1>4. ~Untold(p, 0, i, x)
  BY <1>1, <1>3 DEF Untold
<1>5. Seen(p, 0, i, d) => Seen(q, 0, i, d)
  <2>1. ~Adds(m, i) /\ ~Adds(q[j], i)
    BY DEF Adds
  <2> QED  BY <1>1, <2>1 DEF Seen
<1>6. ~later => \A k \in 1..n : k > j => ~Speaks(q[k], i, x)
  BY <1>1, NewsComesLast DEF FlagAt
<1>7. Ends(p, i, x, after)
  <2> SUFFICES ASSUME NEW k \in DOMAIN p, Speaks(p[k], i, x),
                      \A l \in DOMAIN p : l > k => ~Speaks(p[l], i, x)
               PROVE  x \notin p[k].removed <=> x \in after
    BY DEF Ends
  <2>1. k >= j
    BY <1>1, <1>3
  <2>2. CASE k = j
    BY <1>1, <1>3, <2>2
  <2>3. CASE k > j
    <3>1. Speaks(q[k], i, x) /\ p[k] = q[k]
      BY <1>1, <2>3
    <3> QED  BY <1>1, <1>2, <1>3, <2>3, <3>1 DEF Agrees
  <2> QED  BY <1>1, <2>1, <2>2, <2>3
<1>8. ~later /\ (\A l \in 1..n : l > j => ~Speaks(q[l], i, x)) /\ Speaks(old, i, x)
        => x \notin msg.added
  <2> SUFFICES ASSUME ~later, \A l \in 1..n : l > j => ~Speaks(q[l], i, x), Speaks(old, i, x)
               PROVE  x \notin msg.added
    OBVIOUS
  <2>1. x \notin old.removed <=> x \in before
    BY <1>1 DEF FlagAt, Ends, old
  <2> QED  BY <1>3, <2>1 DEF News
<1>9. ~later => Chains(p, i, x)
  <2> SUFFICES ASSUME ~later, NEW a \in DOMAIN p, NEW b \in DOMAIN p, a < b,
                      Speaks(p[a], i, x), Speaks(p[b], i, x),
                      \A l \in DOMAIN p : a < l /\ l < b => ~Speaks(p[l], i, x)
               PROVE  x \notin p[a].removed <=> x \notin p[b].added
    BY DEF Chains
  <2>1. Chains(q, i, x)
    BY DEF FlagAt
  <2>2. b <= j /\ a < j
    BY <1>1, <1>6
  <2>3. p[a] = q[a] /\ \A l \in 1..n : a < l /\ l < b => ~Speaks(q[l], i, x)
    BY <1>1, <2>2
  <2>4. CASE b < j
    BY <1>1, <2>1, <2>3, <2>4 DEF Chains
  <2>5. CASE b = j /\ Speaks(old, i, x)
    <3>1. x \notin q[a].removed <=> x \notin old.added
      BY <1>1, <2>1, <2>3, <2>5 DEF Chains, old
    <3> QED  BY <1>1, <1>3, <1>6, <1>8, <2>3, <2>5, <3>1
  <2>6. CASE b = j /\ ~Speaks(old, i, x)
    <3>1. \A l \in 1..n : l > a => ~Speaks(q[l], i, x)
      BY <1>1, <1>6, <2>3, <2>6 DEF old
    <3>2. x \notin q[a].removed <=> x \in before
      BY <1>1, <2>3, <3>1 DEF FlagAt, Ends
    <3>3. x \in before <=> x \notin msg.added
      BY <1>2 DEF News, Speaks
    <3> QED  BY <1>1, <1>3, <2>3, <2>6, <3>2, <3>3
  <2> QED  BY <1>1, <2>2, <2>4, <2>5, <2>6
<1>10. ~later /\ Seen(p, 0, i, d) => Starts(p, 0, i, x, d.flags)
  <2> SUFFICES ASSUME ~later, Seen(q, 0, i, d), NEW k \in DOMAIN p, k > 0,
                      Speaks(p[k], i, x),
                      \A l \in DOMAIN p : 0 < l /\ l < k => ~Speaks(p[l], i, x)
               PROVE  x \notin p[k].added <=> x \in d.flags
    BY <1>5 DEF Starts
  <2>1. Starts(q, 0, i, x, d.flags)
    BY DEF FlagAt
  <2>2. k <= j
    BY <1>1, <1>6
  <2>3. \A l \in 1..n : 0 < l /\ l < k => ~Speaks(q[l], i, x)
    BY <1>1, <2>2
  <2>4. CASE k < j
    BY <1>1, <2>1, <2>3, <2>4 DEF Starts
  <2>5. CASE k = j /\ Speaks(old, i, x)
    <3>1. x \notin old.added <=> x \in d.flags
      BY <1>1, <2>1, <2>3, <2>5 DEF Starts, old
    <3> QED  BY <1>1, <1>3, <1>6, <1>8, <2>5, <3>1
  <2>6. CASE k = j /\ ~Speaks(old, i, x)
    <3>1. Untold(q, 0, i, x)
      BY <1>1, <1>6, <2>3, <2>6 DEF Untold, old
    <3>2. x \in d.flags <=> x \in before
      BY <3>1 DEF FlagAt
    <3>3. x \in before <=> x \notin msg.added
      BY <1>2 DEF News, Speaks
    <3> QED  BY <1>1, <1>3, <2>6, <3>2, <3>3
  <2> QED  BY <1>1, <2>2, <2>4, <2>5, <2>6
<1>11. FlagAt(p, 0, i, x, after, d, later)
  BY <1>4, <1>7, <1>9, <1>10 DEF FlagAt
<1> QED  BY <1>11 DEF p

\* What erasing an element of a list does to the positions of the others.
LEMMA WithoutElement ==
  ASSUME NEW T, NEW q \in Seq(T), NEW j \in DOMAIN q
  PROVE  /\ Without(q, j) \in Seq(T)
         /\ DOMAIN Without(q, j) = 1..(Len(q) - 1)
         /\ \A k \in 1..(Len(q) - 1) : Without(q, j)[k] = q[IF k < j THEN k ELSE k + 1]
<1> DEFINE n == Len(q)
           a == SubSeq(q, 1, j - 1)
           b == SubSeq(q, j + 1, n)
<1>1. n \in Nat /\ j \in 1..n /\ DOMAIN q = 1..n
  OBVIOUS
<1>2. a \in Seq(T) /\ Len(a) = j - 1 /\ \A k \in 1..(j - 1) : a[k] = q[k]
  BY <1>1, SubSeqProperties
<1>3. b \in Seq(T) /\ Len(b) = n - j /\ \A k \in 1..(n - j) : b[k] = q[j + k]
  BY <1>1, SubSeqProperties
<1> HIDE DEF n, a, b
<1>4. /\ a \o b \in Seq(T) /\ Len(a \o b) = (j - 1) + (n - j)
      /\ \A k \in 1..((j - 1) + (n - j)) :
           (a \o b)[k] = IF k <= j - 1 THEN a[k] ELSE b[k - (j - 1)]
  <2>1. /\ a \o b \in Seq(T) /\ Len(a \o b) = Len(a) + Len(b)
        /\ \A k \in 1..(Len(a) + Len(b)) :
             (a \o b)[k] = IF k <= Len(a) THEN a[k] ELSE b[k - Len(a)]
    BY <1>2, <1>3, ConcatProperties
  <2> QED  BY <1>2, <1>3, <2>1
<1>5. (j - 1) + (n - j) = n - 1
  BY <1>1
<1>6. ASSUME NEW k \in 1..(n - 1)
      PROVE  (a \o b)[k] = q[IF k < j THEN k ELSE k + 1]
  <2>1. CASE k < j
    <3>1. k <= j - 1 /\ k \in 1..(j - 1)
      BY <1>1, <2>1
    <3> QED  BY <1>2, <1>4, <1>5, <2>1, <3>1
  <2>2. CASE ~(k < j)
    <3>1. ~(k <= j - 1) /\ k - (j - 1) \in 1..(n - j) /\ j + (k - (j - 1)) = k + 1
      BY <1>1, <2>2
    <3>2. (a \o b)[k] = b[k - (j - 1)]
      BY <1>4, <1>5, <3>1
    <3> QED  BY <1>3, <2>2, <3>1, <3>2
  <2> QED  BY <2>1, <2>2
<1>7. Without(q, j) = a \o b
  BY DEF Without, a, b, n
<1>8. DOMAIN (a \o b) = 1..(n - 1)
  BY <1>4, <1>5
<1> QED  BY <1>4, <1>6, <1>7, <1>8 DEF n

\* An entry that has come to change nothing is erased: the flag is then as the entry
\* found it.
LEMMA AnnulledFlag ==
  ASSUME NEW q \in Seq(Message), NEW i, NEW x, NEW before, NEW after, NEW d, NEW late,
         FlagAt(q, 0, i, x, before, d, late), ~late,
         NEW j \in DOMAIN q, Speaks(q[j], i, x),
         IF \E k \in DOMAIN q : k > j /\ Speaks(q[k], i, x)
         THEN /\ x \notin q[j].added <=> x \notin q[j].removed
              /\ x \in after <=> x \in before
         ELSE x \notin q[j].added <=> x \in after
  PROVE  FlagAt(Without(q, j), 0, i, x, after, d, late)
<1> DEFINE n == Len(q)
           p == Without(q, j)
           g(k) == IF k < j THEN k ELSE k + 1
           old == q[j]
<1>1. /\ n \in Nat /\ DOMAIN q = 1..n /\ j \in 1..n /\ DOMAIN p = 1..(n - 1)
      /\ \A k \in 1..(n - 1) : p[k] = q[g(k)]
  BY WithoutElement
<1>2. /\ \A k \in 1..(n - 1) : g(k) \in 1..n /\ g(k) # j /\ g(k) > 0
      /\ \A k, l \in 1..(n - 1) : g(k) < g(l) <=> k < l
      /\ \A m \in 1..n : m # j => \E k \in 1..(n - 1) : g(k) = m
  <2>1. \A m \in 1..n : m < j => m \in 1..(n - 1) /\ g(m) = m
    BY <1>1
  <2>2. \A m \in 1..n : m > j => m - 1 \in 1..(n - 1) /\ g(m - 1) = m
    BY <1>1
  <2> QED  BY <1>1, <2>1, <2>2, SMTT(30)
<1> HIDE DEF n, p, g, old
<1>3. Chains(q, i, x) /\ Ends(q, i, x, before)
      /\ (Seen(q, 0, i, d) => Starts(q, 0, i, x, d.flags))
  BY DEF FlagAt
<1>4. Seen(p, 0, i, d) => Seen(q, 0, i, d)
  <2> SUFFICES ASSUME Seen(p, 0, i, d), NEW k \in 1..n, Adds(q[k], i) PROVE FALSE
    BY <1>1 DEF Seen
  <2>1. k # j
    BY DEF Speaks, Adds
  <2>2. PICK a \in 1..(n - 1) : g(a) = k
    BY <1>2, <2>1
  <2> QED  BY <1>1, <2>2 DEF Seen
<1>5. Ends(p, i, x, after)
  <2> SUFFICES ASSUME NEW k \in 1..(n - 1), Speaks(p[k], i, x),
                      \A l \in 1..(n - 1) : l > k => ~Speaks(p[l], i, x)
               PROVE  x \notin p[k].removed <=> x \in after
    BY <1>1 DEF Ends
  <2>1. \A m \in 1..n : m > g(k) /\ m # j => ~Speaks(q[m], i, x)
    BY <1>1, <1>2
  <2>2. CASE g(k) > j
    <3>1. x \notin q[g(k)].removed <=> x \in before
      BY <1>1, <1>2, <1>3, <2>1, <2>2 DEF Ends
    <3>2. x \in after <=> x \in before
      BY <1>1, <1>2, <2>2
    <3> QED  BY <1>1, <3>1, <3>2
  <2>3. CASE g(k) < j
    <3>1. \A m \in 1..n : g(k) < m /\ m < j => ~Speaks(q[m], i, x)
      BY <2>1
    <3>2. x \notin q[g(k)].removed <=> x \notin old.added
      BY <1>1, <1>2, <1>3, <2>3, <3>1 DEF Chains, old
    <3>3. ~ \E m \in 1..n : m > j /\ Speaks(q[m], i, x)
      BY <1>1, <1>2, <2>1, <2>3
    <3> QED  BY <1>1, <3>2, <3>3 DEF old
  <2> QED  BY <1>1, <1>2, <2>2, <2>3
<1>6. Seen(p, 0, i, d) /\ Untold(p, 0, i, x) => (x \in d.flags <=> x \in after)
  <2> SUFFICES ASSUME Seen(q, 0, i, d), Untold(p, 0, i, x)
               PROVE  x \in d.flags <=> x \in after
    BY <1>4
  <2>1. \A m \in 1..n : m # j => ~Speaks(q[m], i, x)
    <3>1. \A k \in 1..(n - 1) : k > 0 /\ ~Speaks(q[g(k)], i, x)
      BY <1>1 DEF Untold
    <3> QED  BY <1>2, <3>1
  <2>2. x \notin old.added <=> x \in d.flags
    BY <1>1, <1>3, <2>1 DEF Starts, old
  <2>3. ~ \E m \in 1..n : m > j /\ Speaks(q[m], i, x)
    BY <1>1, <2>1
  <2> QED  BY <1>1, <2>2, <2>3 DEF old
<1>7. Chains(p, i, x)
  <2> SUFFICES ASSUME NEW a \in 1..(n - 1), NEW b \in 1..(n - 1), a < b,
                      Speaks(p[a], i, x), Speaks(p[b], i, x),
                      \A l \in 1..(n - 1) : a < l /\ l < b => ~Speaks(p[l], i, x)
               PROVE  x \notin p[a].removed <=> x \notin p[b].added
    BY <1>1 DEF Chains
  <2>1. /\ g(a) \in 1..n /\ g(b) \in 1..n /\ g(a) < g(b) /\ g(a) # j /\ g(b) # j
        /\ \A m \in 1..n : g(a) < m /\ m < g(b) /\ m # j => ~Speaks(q[m], i, x)
    BY <1>1, <1>2
  <2>2. CASE g(b) < j \/ g(a) > j
    BY <1>1, <1>2, <1>3, <2>1, <2>2 DEF Chains
  <2>3. CASE g(a) < j /\ j < g(b)
    <3>1. x \notin q[g(a)].removed <=> x \notin old.added
      BY <1>1, <1>3, <2>1, <2>3 DEF Chains, old
    <3>2. x \notin old.removed <=> x \notin q[g(b)].added
      <4>1. Speaks(q[g(b)], i, x) /\ \A m \in 1..n : j < m /\ m < g(b) => ~Speaks(q[m], i, x)
        BY <1>1, <2>1, <2>3
      <4> QED  BY <1>1, <1>3, <2>1, <2>3, <4>1 DEF Chains, old
    <3>3. x \notin old.added <=> x \notin old.removed
      BY <1>1, <2>1, <2>3 DEF old
    <3> QED  BY <1>1, <3>1, <3>2, <3>3
  <2> QED  BY <1>1, <2>1, <2>2, <2>3
<1>8. Seen(p, 0, i, d) => Starts(p, 0, i, x, d.flags)
  <2> SUFFICES ASSUME Starts(q, 0, i, x, d.flags), NEW k \in 1..(n - 1),
                      Speaks(p[k], i, x),
                      \A l \in 1..(n - 1) : 0 < l /\ l < k => ~Speaks(p[l], i, x)
               PROVE  x \notin p[k].added <=> x \in d.flags
    BY <1>1, <1>3, <1>4 DEF Starts
  <2>1. /\ g(k) \in 1..n /\ g(k) > 0 /\ g(k) # j
        /\ \A m \in 1..n : m < g(k) /\ m # j => ~Speaks(q[m], i, x)
    BY <1>1, <1>2
  <2>2. CASE g(k) < j
    BY <1>1, <2>1, <2>2 DEF Starts
  <2>3. CASE j < g(k)
    <3>1. x \notin old.added <=> x \in d.flags
      BY <1>1, <2>1, <2>3 DEF Starts, old
    <3>2. x \notin old.removed <=> x \notin q[g(k)].added
      BY <1>1, <1>3, <2>1, <2>3 DEF Chains, old
    <3>3. x \notin old.added <=> x \notin old.removed
      BY <1>1, <2>1, <2>3 DEF old
    <3> QED  BY <1>1, <3>1, <3>2, <3>3
  <2> QED  BY <1>1, <2>1, <2>2, <2>3
<1>9. FlagAt(p, 0, i, x, after, d, late)
  BY <1>3, <1>5, <1>6, <1>7, <1>8 DEF FlagAt
<1> QED  BY <1>9 DEF p

-----------------------------------------------------------------------------
(* Where the entries of a compressed list come from *)

\* What the first position of a list with an element in S is.
LEMMA FirstInFound ==
  ASSUME NEW T, NEW q \in Seq(T), NEW S
  PROVE  LET j == FirstIn(q, S)
         IN /\ j = 0 => \A k \in DOMAIN q : q[k] \notin S
            /\ j # 0 => j \in DOMAIN q /\ q[j] \in S
<1> DEFINE j == FirstIn(q, S)
<1>1. CASE \E i \in DOMAIN q : q[i] \in S
  <2>1. PICK i \in 1..Len(q) : q[i] \in S
    BY <1>1
  <2>2. \E m \in 1..Len(q) : q[m] \in S /\ \A k \in 1..Len(q) : q[k] \in S => m <= k
    <3>1. Len(q) \in Nat
      OBVIOUS
    <3> QED  BY <2>1, <3>1, SmallestIndex, Zenon
  <2>3. \E m \in DOMAIN q : q[m] \in S /\ \A k \in DOMAIN q : q[k] \in S => m <= k
    BY <2>2
  <2>4. j = CHOOSE m \in DOMAIN q : q[m] \in S /\ \A k \in DOMAIN q : q[k] \in S => m <= k
    BY <1>1 DEF FirstIn
  <2> HIDE DEF j
  <2>5. j \in DOMAIN q /\ q[j] \in S
    BY <2>3, <2>4
  <2>6. j # 0
    BY <2>5
  <2> QED  BY <2>5, <2>6 DEF j
<1>2. CASE ~ \E i \in DOMAIN q : q[i] \in S
  BY <1>2 DEF FirstIn
<1> QED  BY <1>1, <1>2

\* List p is what compression makes of list q and a message: g says where its
\* entries come from.  Only entries about the same items were touched.
DerivesBy(q, msg, p, g) ==
  /\ g \in [DOMAIN p -> 1..(Len(q) + 1)]
  /\ \A a, b \in DOMAIN p : a < b => g[a] < g[b]
  /\ \A a \in DOMAIN p :
       \/ g[a] = Len(q) + 1 /\ p[a] = msg
       \/ /\ g[a] \in DOMAIN q
          /\ \/ p[a] = q[g[a]]
             \/ Merges(msg, q[g[a]]) /\ p[a] = Merged(msg, q[g[a]])
  /\ \A k \in DOMAIN q :
       (\E a \in DOMAIN p : g[a] = k) \/ Merges(msg, q[k]) \/ Supersedes(msg, q[k])

\* The list a change was appended to.
LEMMA AppendDerives ==
  ASSUME NEW q \in Seq(Message), NEW msg \in Message
  PROVE  \E g : DerivesBy(q, msg, Append(q, msg), g)
<1> DEFINE n == Len(q)
           g == [a \in 1..(n + 1) |-> a]
           p == Append(q, msg)
<1>1. /\ n \in Nat /\ DOMAIN q = 1..n /\ DOMAIN p = 1..(n + 1) /\ p[n + 1] = msg
      /\ \A k \in 1..n : p[k] = q[k]
  OBVIOUS
<1> HIDE DEF p
<1>2. DerivesBy(q, msg, p, g)
  BY <1>1 DEF DerivesBy
<1> QED  BY <1>2 DEF p

\* The list without what the change supersedes, and the change last.
LEMMA PurgeDerives ==
  ASSUME NEW q \in Seq(Message), NEW msg \in Message
  PROVE  \E g : DerivesBy(q, msg, Append(Purged(q, msg), msg), g)
<1> DEFINE n == Len(q)
           S == {old \in Elements(q) : ~Supersedes(msg, old)}
           r == Purged(q, msg)
           p == Append(r, msg)
           m == Len(r)
<1>1. r = Keep(q, S)
  BY DEF Purged
<1>2. PICK h \in [DOMAIN r -> DOMAIN q] :
        /\ r \in Seq(Message)
        /\ \A i \in DOMAIN r : r[i] = q[h[i]]
        /\ \A i, j \in DOMAIN r : i < j => h[i] < h[j]
        /\ \A j \in DOMAIN q : q[j] \in S => \E i \in DOMAIN r : h[i] = j
  <2> HIDE DEF S, r
  <2> QED  BY <1>1, KeepEmbeds
<1>3. \A j \in DOMAIN q : q[j] \in S \/ Supersedes(msg, q[j])
  BY DEF Elements
<1> HIDE DEF S, r
<1> DEFINE g == [a \in 1..(m + 1) |-> IF a = m + 1 THEN n + 1 ELSE h[a]]
<1>4. /\ n \in Nat /\ DOMAIN q = 1..n /\ m \in Nat /\ DOMAIN r = 1..m
      /\ DOMAIN p = 1..(m + 1) /\ p[m + 1] = msg
      /\ \A k \in 1..m : p[k] = r[k]
  BY <1>2
<1> HIDE DEF n, m, p
<1>5. /\ \A a \in 1..m : g[a] = h[a] /\ g[a] \in 1..n
      /\ g[m + 1] = n + 1
      /\ g \in [1..(m + 1) -> 1..(n + 1)]
  <2>1. \A a \in 1..m : a # m + 1 /\ h[a] \in 1..n /\ a \in 1..(m + 1)
    BY <1>2, <1>4
  <2>2. m + 1 \in 1..(m + 1) /\ n + 1 \in 1..(n + 1) /\ \A k \in 1..n : k \in 1..(n + 1)
    BY <1>4
  <2>3. \A a \in 1..(m + 1) : a \in 1..m \/ a = m + 1
    BY <1>4
  <2> QED  BY <2>1, <2>2, <2>3
<1> HIDE DEF g
<1>6. \A a, b \in 1..(m + 1) : a < b => g[a] < g[b]
  <2> SUFFICES ASSUME NEW a \in 1..(m + 1), NEW b \in 1..(m + 1), a < b PROVE g[a] < g[b]
    OBVIOUS
  <2>1. a \in 1..m /\ (b \in 1..m \/ b = m + 1)
    BY <1>4
  <2>2. CASE b \in 1..m
    <3>1. h[a] < h[b]
      BY <1>2, <1>4, <2>1, <2>2
    <3>2. g[a] = h[a] /\ g[b] = h[b]
      BY <1>5, <2>1, <2>2
    <3> QED  BY <3>1, <3>2
  <2>3. CASE b = m + 1
    <3>1. g[a] \in 1..n /\ g[b] = n + 1
      BY <1>5, <2>1, <2>3
    <3> QED  BY <1>4, <3>1
  <2> QED  BY <2>1, <2>2, <2>3
<1>7. \A a \in 1..(m + 1) : \/ g[a] = n + 1 /\ p[a] = msg
                            \/ g[a] \in DOMAIN q /\ p[a] = q[g[a]]
  <2>1. ASSUME NEW a \in 1..m PROVE g[a] \in DOMAIN q /\ p[a] = q[g[a]]
    <3>1. p[a] = r[a] /\ r[a] = q[h[a]] /\ g[a] = h[a] /\ h[a] \in DOMAIN q
      BY <1>2, <1>4, <1>5
    <3> QED  BY <3>1
  <2>2. \A a \in 1..(m + 1) : a \in 1..m \/ a = m + 1
    BY <1>4
  <2> QED  BY <1>4, <1>5, <2>1, <2>2
<1>8. \A k \in DOMAIN q : (\E a \in 1..(m + 1) : g[a] = k) \/ Supersedes(msg, q[k])
  <2> SUFFICES ASSUME NEW k \in DOMAIN q, q[k] \in S PROVE \E a \in 1..(m + 1) : g[a] = k
    BY <1>3
  <2>1. PICK a \in 1..m : h[a] = k
    BY <1>2, <1>4
  <2>2. a \in 1..(m + 1) /\ g[a] = k
    BY <1>4, <1>5, <2>1
  <2> QED  BY <2>2
<1>9. DerivesBy(q, msg, p, g)
  BY <1>4, <1>5, <1>6, <1>7, <1>8 DEF DerivesBy, n
<1> QED  BY <1>9 DEF p, r

\* The list with the change merged into an entry, or the entry undone.
LEMMA MergeDerives ==
  ASSUME NEW q \in Seq(Message), NEW msg \in Message, NEW j \in DOMAIN q, Merges(msg, q[j])
  PROVE  /\ \E g : DerivesBy(q, msg, [q EXCEPT ![j] = Merged(msg, q[j])], g)
         /\ \E g : DerivesBy(q, msg, Without(q, j), g)
<1> DEFINE n == Len(q)
<1>1. n \in Nat /\ DOMAIN q = 1..n /\ j \in 1..n
  OBVIOUS
<1>2. \E g : DerivesBy(q, msg, [q EXCEPT ![j] = Merged(msg, q[j])], g)
  <2> DEFINE p == [q EXCEPT ![j] = Merged(msg, q[j])]
             g == [a \in 1..n |-> a]
  <2>1. /\ DOMAIN p = 1..n /\ p[j] = Merged(msg, q[j])
        /\ \A k \in 1..n : k # j => p[k] = q[k]
    BY <1>1
  <2> HIDE DEF p
  <2>2. DerivesBy(q, msg, p, g)
    BY <1>1, <2>1 DEF DerivesBy
  <2> QED  BY <2>2 DEF p
<1>3. \E g : DerivesBy(q, msg, Without(q, j), g)
  <2> DEFINE p == Without(q, j)
             g == [a \in 1..(n - 1) |-> IF a < j THEN a ELSE a + 1]
  <2>1. /\ DOMAIN p = 1..(n - 1)
        /\ \A k \in 1..(n - 1) : p[k] = q[IF k < j THEN k ELSE k + 1]
    BY WithoutElement
  <2>2. /\ \A k \in 1..(n - 1) : g[k] \in 1..n /\ p[k] = q[g[k]]
        /\ \A a, b \in 1..(n - 1) : a < b => g[a] < g[b]
    BY <1>1, <2>1
  <2>3. \A k \in 1..n : k = j \/ \E a \in 1..(n - 1) : g[a] = k
    <3>1. \A k \in 1..n : k < j => k \in 1..(n - 1) /\ g[k] = k
      BY <1>1
    <3>2. \A k \in 1..n : k > j => k - 1 \in 1..(n - 1) /\ g[k - 1] = k
      BY <1>1
    <3> QED  BY <1>1, <3>1, <3>2
  <2>4. g \in [1..(n - 1) -> 1..(n + 1)]
    BY <1>1
  <2> HIDE DEF g, p, n
  <2>5. DerivesBy(q, msg, p, g)
    BY <1>1, <2>1, <2>2, <2>3, <2>4 DEF DerivesBy, n
  <2> QED  BY <2>5 DEF p
<1> QED  BY <1>2, <1>3

\* What became of a message that is neither a deletion nor on the fast path.
LEMMA ModificationCompresses ==
  ASSUME NEW q \in Seq(Message), NEW msg \in Message, msg.op \notin FastPath \cup {"Remove"}
  PROVE  LET p == appendAndCompress(q, msg).list
             j == FirstIn(q, Stops(q, msg))
         IN \/ j = 0 /\ p = Append(q, msg)
            \/ /\ j \in DOMAIN q /\ Merges(msg, q[j])
               /\ p = IF NoChange(Merged(msg, q[j])) THEN Without(q, j)
                      ELSE [q EXCEPT ![j] = Merged(msg, q[j])]
            \/ j \in DOMAIN q /\ Covers(msg, q[j]) /\ p = q
<1> DEFINE j == FirstIn(q, Stops(q, msg))
<1>1. j # 0 => j \in DOMAIN q /\ q[j] \in Stops(q, msg)
  BY FirstInFound
<1>2. j # 0 => Merges(msg, q[j]) \/ Covers(msg, q[j])
  BY <1>1 DEF Stops
<1> QED  BY <1>1, <1>2 DEF appendAndCompress, Outcome, MergeAt, FastPath

\* Whichever way a change is recorded, the list derives from the one before.
LEMMA CompressionDerives ==
  ASSUME NEW q \in Seq(Message), NEW msg \in Message
  PROVE  \E g : DerivesBy(q, msg, appendAndCompress(q, msg).list, g)
<1> DEFINE p == appendAndCompress(q, msg).list
<1>1. CASE msg.op = "Remove"
  <2>1. p = Append(Purged(q, msg), msg)
    BY <1>1 DEF appendAndCompress, Outcome
  <2> QED  BY <2>1, PurgeDerives
<1>2. CASE msg.op \in FastPath
  <2>1. msg.op # "Remove"
    BY <1>2 DEF FastPath
  <2>2. p = Append(q, msg)
    BY <1>2, <2>1 DEF appendAndCompress, Outcome
  <2> QED  BY <2>2, AppendDerives
<1>3. CASE msg.op \notin FastPath \cup {"Remove"}
  <2> DEFINE j == FirstIn(q, Stops(q, msg))
  <2>1. \/ p = Append(q, msg)
        \/ /\ j \in DOMAIN q /\ Merges(msg, q[j])
           /\ p = Without(q, j) \/ p = [q EXCEPT ![j] = Merged(msg, q[j])]
        \/ p = q
    BY <1>3, ModificationCompresses
  <2>2. \E g : DerivesBy(q, msg, q, g)
    <3> DEFINE g == [a \in DOMAIN q |-> a]
    <3>1. DOMAIN q = 1..Len(q) /\ Len(q) \in Nat
      OBVIOUS
    <3>2. DerivesBy(q, msg, q, g)
      BY <3>1 DEF DerivesBy
    <3> QED  BY <3>2
  <2> SUFFICES \E g : DerivesBy(q, msg, p, g)
    OBVIOUS
  <2> HIDE DEF j, p
  <2>3. CASE p = Append(q, msg)
    BY <2>3, AppendDerives
  <2>4. CASE /\ j \in DOMAIN q /\ Merges(msg, q[j])
             /\ p = Without(q, j) \/ p = [q EXCEPT ![j] = Merged(msg, q[j])]
    BY <2>4, MergeDerives
  <2>5. CASE p = q
    BY <2>2, <2>5
  <2> QED  BY <2>1, <2>3, <2>4, <2>5
<1> QED  BY <1>1, <1>2, <1>3

-----------------------------------------------------------------------------
(* What the list says of an item, and the changes that leave that as it is *)

\* Whether the item is there, and with which payload, follows from the server and
\* from what is recorded after position s.
Settled(q, s, i, c, d) ==
  /\ c.there => \/ d.there /\ d.body = c.body
                \/ \E k \in DOMAIN q : k > s /\ Uploads(q[k], i)
  /\ ~c.there => \/ ~d.there
                 \/ \E k \in DOMAIN q : k > s /\ Removes(q[k], i)

\* The record accounts for the difference between the item in the cache, c, and
\* the one on the server, d.
ItemRight(q, s, i, c, d, late) ==
  /\ Settled(q, s, i, c, d)
  /\ c.there => \A x \in Marks : FlagAt(q, s, i, x, c.flags, d, late)

\* Positions that echo: where a derived list speaks of another item.
LEMMA DerivedEchoes ==
  ASSUME NEW q \in Seq(Message), NEW msg \in Message, NEW p \in Seq(Message), NEW g,
         DerivesBy(q, msg, p, g), NEW i, i \notin msg.entities, NEW s \in {0, 1},
         s = 1 => q # <<>> /\ i \in q[1].entities
  PROVE  /\ \A a \in DOMAIN p : i \in p[a].entities =>
              g[a] \in DOMAIN q /\ p[a] = q[g[a]] /\ (a > s <=> g[a] > s)
         /\ \A k \in DOMAIN q : i \in q[k].entities =>
              \E a \in DOMAIN p : g[a] = k /\ p[a] = q[k]
<1> DEFINE n == Len(q)
<1>1. n \in Nat /\ DOMAIN q = 1..n /\ DOMAIN p \subseteq Nat \ {0} /\ Len(p) \in Nat /\ DOMAIN p = 1..Len(p)
  OBVIOUS
<1> HIDE DEF n
<1>2. /\ \A a \in DOMAIN p : g[a] \in 1..(n + 1)
      /\ \A a, b \in DOMAIN p : a < b => g[a] < g[b]
  BY <1>1 DEF DerivesBy, n
<1>0. \A b \in DOMAIN p :
        p[b] # msg => /\ g[b] \in DOMAIN q
                      /\ \/ p[b] = q[g[b]]
                         \/ (Merges(msg, q[g[b]]) /\ p[b] = Merged(msg, q[g[b]]))
  BY Zenon DEF DerivesBy
<1>3. \A k \in DOMAIN q : Merges(msg, q[k]) \/ Supersedes(msg, q[k]) => i \notin q[k].entities
  BY DEF Merges, Supersedes, SameSubject
<1>4. ASSUME NEW a \in DOMAIN p, i \in p[a].entities
      PROVE  g[a] \in DOMAIN q /\ p[a] = q[g[a]]
  <2>1. p[a] # msg
    BY <1>4
  <2>2. g[a] \in DOMAIN q
    BY <1>0, <2>1, Zenon
  <2>3. Merges(msg, q[g[a]]) => Merged(msg, q[g[a]]).entities = q[g[a]].entities
    <3>1. q[g[a]] \in Message
      BY <2>2
    <3> QED  BY <3>1 DEF Merged, Message
  <2>4. p[a] = q[g[a]] \/ (Merges(msg, q[g[a]]) /\ p[a] = Merged(msg, q[g[a]]))
    BY <1>0, <2>1, Zenon
  <2> QED  BY <1>3, <1>4, <2>2, <2>3, <2>4
<1>5. ASSUME NEW k \in DOMAIN q, i \in q[k].entities
      PROVE  \E a \in DOMAIN p : g[a] = k /\ p[a] = q[k]
  <2>1. PICK a \in DOMAIN p : g[a] = k
    BY <1>3, <1>5 DEF DerivesBy
  <2>2. g[a] # n + 1
    BY <1>1, <2>1
  <2>3. p[a] = q[k] \/ Merges(msg, q[k])
    BY <2>1, <2>2 DEF DerivesBy, n
  <2> QED  BY <1>3, <1>5, <2>1, <2>3
<1>6. ASSUME NEW a \in DOMAIN p PROVE a > s <=> g[a] > s
  <2>1. g[a] \in 1..(n + 1) /\ a \in Nat \ {0}
    BY <1>1, <1>2
  <2>2. CASE s = 0
    BY <1>1, <2>1, <2>2
  <2>3. CASE s = 1
    <3>1. 1 \in DOMAIN q /\ i \in q[1].entities
      BY <1>1, <2>3
    <3>2. PICK b \in DOMAIN p : g[b] = 1
      BY <1>5, <3>1
    <3>3. 1 \in DOMAIN p
      BY <1>1, <3>2
    <3>4. g[1] = 1
      BY <1>1, <1>2, <3>2, <3>3
    <3> QED  BY <1>1, <1>2, <2>1, <2>3, <3>3, <3>4
  <2> QED  BY <2>2, <2>3
<1> QED  BY <1>4, <1>5, <1>6

\* A change does not touch what the record says of other items.
LEMMA OthersStayRight ==
  ASSUME NEW q \in Seq(Message), NEW msg \in Message, NEW p \in Seq(Message), NEW g,
         DerivesBy(q, msg, p, g), NEW i, i \notin msg.entities, NEW s \in {0, 1},
         s = 1 => q # <<>> /\ i \in q[1].entities,
         NEW c, NEW d, NEW late, NEW later, late => later, ItemRight(q, s, i, c, d, late)
  PROVE  ItemRight(p, s, i, c, d, later)
<1>1. /\ \A a \in DOMAIN p : i \in p[a].entities =>
           g[a] \in DOMAIN q /\ p[a] = q[g[a]] /\ (a > s <=> g[a] > s)
      /\ \A k \in DOMAIN q : i \in q[k].entities =>
           \E a \in DOMAIN p : g[a] = k /\ p[a] = q[k]
  BY DerivedEchoes
<1>2. Settled(p, s, i, c, d)
  <2>1. ASSUME NEW k \in DOMAIN q, k > s, i \in q[k].entities
        PROVE  \E a \in DOMAIN p : a > s /\ p[a] = q[k]
    BY <1>1, <2>1
  <2>2. (\E k \in DOMAIN q : k > s /\ Uploads(q[k], i)) => \E a \in DOMAIN p : a > s /\ Uploads(p[a], i)
    <3> SUFFICES ASSUME NEW k \in DOMAIN q, k > s, Uploads(q[k], i)
                 PROVE  \E a \in DOMAIN p : a > s /\ Uploads(p[a], i)
      OBVIOUS
    <3>1. i \in q[k].entities
      BY DEF Uploads
    <3> QED  BY <2>1, <3>1
  <2>3. (\E k \in DOMAIN q : k > s /\ Removes(q[k], i)) => \E a \in DOMAIN p : a > s /\ Removes(p[a], i)
    <3> SUFFICES ASSUME NEW k \in DOMAIN q, k > s, Removes(q[k], i)
                 PROVE  \E a \in DOMAIN p : a > s /\ Removes(p[a], i)
      OBVIOUS
    <3>1. i \in q[k].entities
      BY DEF Removes
    <3> QED  BY <2>1, <3>1
  <2> QED  BY <2>2, <2>3 DEF ItemRight, Settled
<1>3. ASSUME NEW x \in Marks, FlagAt(q, s, i, x, c.flags, d, late)
      PROVE  FlagAt(p, s, i, x, c.flags, d, later)
  <2>1. EchoesBy(q, p, s, i, x, g)
    <3>1. \A m : Matters(m, i, x) => i \in m.entities
      BY DEF Matters, Speaks, Adds
    <3>2. g \in [DOMAIN p -> Nat] /\ \A a, b \in DOMAIN p : a < b => g[a] < g[b]
      <4>1. \A k \in 1..(Len(q) + 1) : k \in Nat
        OBVIOUS
      <4> QED  BY <4>1 DEF DerivesBy
    <3> QED  BY <1>1, <3>1, <3>2 DEF EchoesBy, SameWord
  <2>2. s \in Nat
    OBVIOUS
  <2> QED  BY <1>3, <2>1, <2>2, EchoKeepsFlag
<1> QED  BY <1>2, <1>3 DEF ItemRight

\* Lists that say of a flag what list q says.
LEMMA EchoOfItself ==
  ASSUME NEW q \in Seq(Message), NEW i, NEW x
  PROVE  \E g : EchoesBy(q, q, 0, i, x, g)
<1> DEFINE g == [a \in DOMAIN q |-> a]
<1>1. DOMAIN q = 1..Len(q) /\ Len(q) \in Nat
  OBVIOUS
<1>2. EchoesBy(q, q, 0, i, x, g)
  BY <1>1 DEF EchoesBy, SameWord
<1> HIDE DEF g
<1> QED  BY <1>2

\* One more entry that does not matter, ...
LEMMA EchoWithAnother ==
  ASSUME NEW q \in Seq(Message), NEW msg \in Message, NEW i, NEW x, ~Matters(msg, i, x)
  PROVE  \E g : EchoesBy(q, Append(q, msg), 0, i, x, g)
<1> DEFINE n == Len(q)
           p == Append(q, msg)
           g == [a \in 1..(n + 1) |-> a]
<1>1. /\ n \in Nat /\ DOMAIN q = 1..n /\ DOMAIN p = 1..(n + 1) /\ p[n + 1] = msg
      /\ \A k \in 1..n : p[k] = q[k]
  OBVIOUS
<1> HIDE DEF n, p
<1>2. EchoesBy(q, p, 0, i, x, g)
  BY <1>1 DEF EchoesBy, SameWord
<1> HIDE DEF g
<1> QED  BY <1>2 DEF p

\* ... an entry replaced by one with the same word, ...
LEMMA EchoWithReplacement ==
  ASSUME NEW q \in Seq(Message), NEW j \in DOMAIN q, NEW m \in Message, NEW i, NEW x,
         SameWord(m, q[j], i, x)
  PROVE  \E g : EchoesBy(q, [q EXCEPT ![j] = m], 0, i, x, g)
<1> DEFINE n == Len(q)
           p == [q EXCEPT ![j] = m]
           g == [a \in 1..n |-> a]
<1>1. /\ n \in Nat /\ DOMAIN q = 1..n /\ DOMAIN p = 1..n /\ p[j] = m /\ j \in 1..n
      /\ \A k \in 1..n : k # j => p[k] = q[k]
  OBVIOUS
<1>2. \A k \in 1..n : SameWord(p[k], q[k], i, x)
  <2>1. \A k \in 1..n : p[k] = q[k] => SameWord(p[k], q[k], i, x)
    BY DEF SameWord
  <2> HIDE DEF p
  <2> QED  BY <1>1, <2>1
<1> HIDE DEF n, p
<1>3. EchoesBy(q, p, 0, i, x, g)
  <2>1. \A k \in 1..n : k > 0 /\ g[k] = k /\ k \in Nat
    BY <1>1
  <2>2. g \in [DOMAIN p -> Nat]
    BY <1>1
  <2> HIDE DEF g
  <2> QED  BY <1>1, <1>2, <2>1, <2>2 DEF EchoesBy
<1> HIDE DEF g
<1> QED  BY <1>3 DEF p

\* ... or one entry fewer that did not matter.
LEMMA EchoWithoutOne ==
  ASSUME NEW q \in Seq(Message), NEW j \in DOMAIN q, NEW i, NEW x, ~Matters(q[j], i, x)
  PROVE  \E g : EchoesBy(q, Without(q, j), 0, i, x, g)
<1> DEFINE n == Len(q)
           p == Without(q, j)
           g == [a \in 1..(n - 1) |-> IF a < j THEN a ELSE a + 1]
<1>1. /\ n \in Nat /\ DOMAIN q = 1..n /\ DOMAIN p = 1..(n - 1) /\ j \in 1..n
      /\ \A k \in 1..(n - 1) : p[k] = q[IF k < j THEN k ELSE k + 1]
  BY WithoutElement
<1> HIDE DEF p, n
<1>2. /\ \A k \in 1..(n - 1) : g[k] \in 1..n /\ p[k] = q[g[k]] /\ k > 0 /\ g[k] > 0
      /\ \A a, b \in 1..(n - 1) : a < b => g[a] < g[b]
  BY <1>1
<1>3. \A k \in 1..n : k = j \/ \E a \in 1..(n - 1) : g[a] = k
  <2>1. \A k \in 1..n : k < j => k \in 1..(n - 1) /\ g[k] = k
    BY <1>1
  <2>2. \A k \in 1..n : k > j => k - 1 \in 1..(n - 1) /\ g[k - 1] = k
    BY <1>1
  <2>3. \A k \in 1..n : k < j \/ k = j \/ k > j
    BY <1>1
  <2> HIDE DEF g
  <2> QED  BY <2>1, <2>2, <2>3
<1>4. g \in [1..(n - 1) -> Nat]
  BY <1>1
<1> HIDE DEF g
<1>5. \A k \in 1..(n - 1) : SameWord(p[k], q[g[k]], i, x)
  BY <1>2 DEF SameWord
<1>6. \A k \in DOMAIN q : Matters(q[k], i, x) =>
        \E a \in DOMAIN p : g[a] = k /\ SameWord(p[a], q[k], i, x)
  <2> SUFFICES ASSUME NEW k \in 1..n, Matters(q[k], i, x)
               PROVE  \E a \in 1..(n - 1) : g[a] = k /\ SameWord(p[a], q[k], i, x)
    BY <1>1
  <2>1. PICK a \in 1..(n - 1) : g[a] = k
    BY <1>3
  <2> QED  BY <1>5, <2>1
<1>7. EchoesBy(q, p, 0, i, x, g)
  BY <1>1, <1>2, <1>4, <1>5, <1>6 DEF EchoesBy
<1> QED  BY <1>7 DEF p

\* A modification of the payload is recorded, or the creation it comes after.
LEMMA ModificationRecorded ==
  ASSUME NEW q \in Seq(Message), NEW msg \in Message, msg.op = "Modify",
         NEW i, msg.entities = {i}, \A k \in DOMAIN q : ~Removes(q[k], i),
         \A k \in DOMAIN q : q[k].op \in {"Add", "Modify", "ModifyFlags", "Remove"},
         NEW c, NEW d, NEW late, NEW later, late => later, NEW body, c.there,
         ItemRight(q, 0, i, c, d, late)
  PROVE  ItemRight(appendAndCompress(q, msg).list, 0, i, [c EXCEPT !.body = body], d, later)
<1> DEFINE p == appendAndCompress(q, msg).list
           j == FirstIn(q, Stops(q, msg))
           m == Merged(msg, q[j])
           after == [c EXCEPT !.body = body]
           n == Len(q)
<1>1. \/ p = Append(q, msg)
      \/ j \in DOMAIN q /\ Merges(msg, q[j]) /\ p = [q EXCEPT ![j] = m]
      \/ j \in DOMAIN q /\ Covers(msg, q[j]) /\ p = q
  <2>1. msg.op \notin FastPath \cup {"Remove"}
    BY DEF FastPath
  <2>2. Merges(msg, q[j]) /\ j \in DOMAIN q => ~NoChange(m)
    BY DEF NoChange, Merged, Merges, Message
  <2>3. \/ j = 0 /\ p = Append(q, msg)
        \/ /\ j \in DOMAIN q /\ Merges(msg, q[j])
           /\ p = IF NoChange(m) THEN Without(q, j) ELSE [q EXCEPT ![j] = m]
        \/ j \in DOMAIN q /\ Covers(msg, q[j]) /\ p = q
    BY <2>1, ModificationCompresses
  <2> HIDE DEF j, m, p
  <2> QED  BY <2>2, <2>3
<1>2. n \in Nat /\ DOMAIN q = 1..n /\ p \in Seq(Message)
  <2>1. p \in Seq(Message)
    BY appendAndCompressType DEF Outcomes
  <2> QED  BY <2>1
<1> HIDE DEF m
<1>3. /\ \E k \in DOMAIN p : k > 0 /\ Uploads(p[k], i)
      /\ \A x : \E g : EchoesBy(q, p, 0, i, x, g)
  <2>1. CASE p = Append(q, msg)
    <3>1. Uploads(msg, i) /\ \A x : ~Matters(msg, i, x)
      BY DEF Uploads, Matters, Speaks, Adds
    <3>2. n + 1 \in DOMAIN p /\ n + 1 > 0 /\ p[n + 1] = msg
      BY <1>2, <2>1
    <3>3. \A x : \E g : EchoesBy(q, p, 0, i, x, g)
      <4> SUFFICES ASSUME NEW x PROVE \E g : EchoesBy(q, p, 0, i, x, g)
        OBVIOUS
      <4>1. \E g : EchoesBy(q, Append(q, msg), 0, i, x, g)
        BY <3>1, EchoWithAnother
      <4> HIDE DEF p
      <4> QED  BY <4>1, <2>1
    <3>4. Uploads(p[n + 1], i)
      BY <3>1, <3>2
    <3> QED  BY <3>2, <3>3, <3>4
  <2>2. CASE j \in DOMAIN q /\ Merges(msg, q[j]) /\ p = [q EXCEPT ![j] = m]
    <3>1. m.op = "Modify" /\ m.entities = {i} /\ q[j].op = "Modify" /\ m \in Message
      <4>1. q[j] \in Message
        BY <2>2
      <4>2. m \in Message
        BY <4>1, MergedType DEF m
      <4> QED  BY <2>2, <4>1, <4>2 DEF m, Merges, Merged, SameSubject, Message
    <3> HIDE DEF j
    <3>2. Uploads(m, i) /\ \A x : SameWord(m, q[j], i, x)
      BY <3>1 DEF Uploads, SameWord, Speaks, Adds
    <3>3. j \in DOMAIN p /\ j > 0 /\ p[j] = m
      BY <1>2, <2>2
    <3>4. \A x : \E g : EchoesBy(q, p, 0, i, x, g)
      <4> SUFFICES ASSUME NEW x PROVE \E g : EchoesBy(q, p, 0, i, x, g)
        OBVIOUS
      <4>1. \E g : EchoesBy(q, [q EXCEPT ![j] = m], 0, i, x, g)
        BY <2>2, <3>1, <3>2, EchoWithReplacement
      <4> HIDE DEF p
      <4> QED  BY <4>1, <2>2
    <3>5. Uploads(p[j], i)
      BY <3>2, <3>3
    <3> QED  BY <3>3, <3>4, <3>5
  <2>3. CASE j \in DOMAIN q /\ Covers(msg, q[j]) /\ p = q
    <3>1. Uploads(q[j], i)
      BY <2>3 DEF Covers, SameSubject, Uploads, Removes, Modifications
    <3> HIDE DEF j
    <3>2. j \in DOMAIN p /\ j > 0
      BY <1>2, <2>3
    <3>3. \A x : \E g : EchoesBy(q, p, 0, i, x, g)
      <4> SUFFICES ASSUME NEW x PROVE \E g : EchoesBy(q, p, 0, i, x, g)
        OBVIOUS
      <4>1. \E g : EchoesBy(q, q, 0, i, x, g)
        BY EchoOfItself
      <4> HIDE DEF p
      <4> QED  BY <4>1, <2>3
    <3> QED  BY <2>3, <3>1, <3>2, <3>3
  <2> QED  BY <1>1, <2>1, <2>2, <2>3
<1> HIDE DEF p
<1>4. ASSUME NEW x \in Marks PROVE FlagAt(p, 0, i, x, c.flags, d, later)
  <2>1. FlagAt(q, 0, i, x, c.flags, d, late)
    BY DEF ItemRight
  <2>2. PICK g : EchoesBy(q, p, 0, i, x, g)
    BY <1>3
  <2>3. 0 \in Nat
    OBVIOUS
  <2> QED  BY <1>2, <2>1, <2>2, <2>3, EchoKeepsFlag
<1>5. after.there <=> c.there
  OBVIOUS
<1>6. after.flags = c.flags
  OBVIOUS
<1> HIDE DEF after
<1>7. ItemRight(p, 0, i, after, d, later)
  BY <1>3, <1>4, <1>5, <1>6 DEF ItemRight, Settled
<1> QED  BY <1>7 DEF p, after

-----------------------------------------------------------------------------
(* A change of flags is merged into an entry, for each of the flags *)

\* What is not spoken of any more, or newly, does not count.
LEMMA FlagOfEcho ==
  ASSUME NEW q \in Seq(Message), NEW p \in Seq(Message), NEW i, NEW x,
         NEW before, NEW after, NEW d, NEW late, NEW later, late => later,
         FlagAt(q, 0, i, x, before, d, late), x \in after <=> x \in before,
         \E g : EchoesBy(q, p, 0, i, x, g)
  PROVE  FlagAt(p, 0, i, x, after, d, later)
<1>1. FlagAt(q, 0, i, x, after, d, later)
  BY SameFlag
<1>2. PICK g : EchoesBy(q, p, 0, i, x, g)
  OBVIOUS
<1>3. 0 \in Nat
  OBVIOUS
<1> QED  BY <1>1, <1>2, <1>3, EchoKeepsFlag

\* A change of flags is merged into entry j, or dropped because of it, as what was
\* done can be repeated.
Clearly(q, j, msg, late) ==
  LET old == q[j] IN
  /\ Merges(msg, old) /\ msg.added \cap old.removed # {}
       => msg.added = old.removed /\ msg.removed = old.added
  /\ Merges(msg, old) /\ NoChange(Merged(msg, old)) => ~late
  /\ \A k \in DOMAIN q : k > j /\ q[k].entities \cap msg.entities # {}
       => /\ msg.added \cap q[k].removed = {}
          /\ msg.removed \cap q[k].added = {}

\* So it is for each flag of each item.
LEMMA ClearlyAgrees ==
  ASSUME NEW q, NEW j \in Nat, NEW msg, NEW late, Clearly(q, j, msg, late),
         NEW i \in msg.entities, NEW x
  PROVE  Agrees(q, j, msg, i, x)
BY DEF Clearly, Agrees, Speaks

\* A flag as it is when a change of flags is recorded that is true of it.
Retold(q, msg, i, x, before, after, d, late, later) ==
  /\ FlagAt(q, 0, i, x, before, d, late)
  /\ TrueOf(msg, x, before, after)
  /\ late => later
  /\ ~later => ~late /\ News(msg, x, before)

\* QList::operator[]()
Replaced(q, j, m) == [q EXCEPT ![j] = m]

\* The entry that absorbs the change stays: each flag is told of there.
LEMMA FlagMergedIn ==
  ASSUME NEW q \in Seq(Message), NEW msg \in Message, msg.op = "ModifyFlags",
         NEW i \in msg.entities, NEW x,
         NEW before, NEW after, NEW d, NEW late, NEW later,
         Retold(q, msg, i, x, before, after, d, late, later),
         NEW j \in DOMAIN q, Merges(msg, q[j]), ~NoChange(Merged(msg, q[j])),
         Clearly(q, j, msg, later)
  PROVE  FlagAt(Replaced(q, j, Merged(msg, q[j])), 0, i, x, after, d, later)
<1> DEFINE old == q[j]
           m == Merged(msg, old)
           p == Replaced(q, j, m)
<1>0. /\ FlagAt(q, 0, i, x, before, d, late) /\ TrueOf(msg, x, before, after)
      /\ (late => later) /\ (~later => ~late /\ News(msg, x, before))
  BY DEF Retold
<1>1. j \in Nat /\ old \in Message
  OBVIOUS
<1>2. /\ m \in Message /\ m.op = "ModifyFlags" /\ old.op = "ModifyFlags"
      /\ i \in m.entities /\ i \in old.entities
      /\ m.added = old.added \cup msg.added /\ m.removed = old.removed \cup msg.removed
  <2>1. m \in Message
    BY <1>1, MergedType
  <2> QED  BY <1>1, <2>1 DEF Merged, Merges, SameSubject, Message
<1>3. p \in Seq(Message)
  BY <1>2 DEF Replaced
<1> HIDE DEF old, m
<1>4. CASE x \in msg.added \cup msg.removed
  <2>1. Speaks(msg, i, x)
    BY <1>4 DEF Speaks
  <2>2. x \in msg.added => x \notin old.removed
    <3> SUFFICES ASSUME x \in msg.added, x \in old.removed PROVE FALSE
      OBVIOUS
    <3>1. msg.added = old.removed /\ msg.removed = old.added
      BY DEF Clearly, old
    <3>2. m.added = m.removed
      BY <1>2, <3>1
    <3> QED  BY <1>2, <3>2 DEF NoChange, m, old
  <2>3. Agrees(q, j, msg, i, x)
    BY <1>1, ClearlyAgrees
  <2> QED  BY <1>0, <1>2, <2>1, <2>2, <2>3, MergedFlag DEF old, m, Replaced
<1>5. CASE x \notin msg.added \cup msg.removed
  <2>1. SameWord(m, old, i, x)
    BY <1>2, <1>5 DEF SameWord, Speaks, Adds
  <2>2. \E g : EchoesBy(q, p, 0, i, x, g)
    BY <1>2, <2>1, EchoWithReplacement DEF old, Replaced
  <2>3. x \in after <=> x \in before
    BY <1>0, <1>5 DEF TrueOf
  <2> HIDE DEF p
  <2>4. FlagAt(p, 0, i, x, after, d, later)
    BY <1>0, <1>3, <2>2, <2>3, FlagOfEcho
  <2> QED  BY <2>4 DEF p, m, old
<1> QED  BY <1>4, <1>5

\* Entry and change are dropped, as together they change nothing.
LEMMA FlagAnnulled ==
  ASSUME NEW q \in Seq(Message), NEW msg \in Message, msg.op = "ModifyFlags",
         NEW i \in msg.entities, NEW x,
         NEW before, NEW after, NEW d, NEW late, NEW later,
         Retold(q, msg, i, x, before, after, d, late, later),
         NEW j \in DOMAIN q, Merges(msg, q[j]), NoChange(Merged(msg, q[j])),
         Clearly(q, j, msg, later)
  PROVE  FlagAt(Without(q, j), 0, i, x, after, d, later)
<1> DEFINE old == q[j]
           p == Without(q, j)
<1>0. /\ FlagAt(q, 0, i, x, before, d, late) /\ TrueOf(msg, x, before, after)
      /\ (late => later) /\ (~later => ~late /\ News(msg, x, before))
  BY DEF Retold
<1>1. j \in Nat /\ old \in Message /\ DOMAIN q \subseteq Nat
  OBVIOUS
<1>2. /\ old.op = "ModifyFlags" /\ i \in old.entities
      /\ old.added \cup msg.added = old.removed \cup msg.removed
      /\ ~late /\ ~later
  <2>1. ~later
    BY DEF Clearly
  <2> QED  BY <1>0, <1>1, <2>1 DEF NoChange, Merged, Merges, SameSubject, Message
<1>3. msg.added \cap old.removed # {} => msg.added = old.removed /\ msg.removed = old.added
  BY DEF Clearly
<1>4. p \in Seq(Message)
  BY WithoutElement
<1>5. News(msg, x, before) /\ Ends(q, i, x, before)
  BY <1>0, <1>2 DEF FlagAt
<1> HIDE DEF old
<1>6. CASE ~Speaks(old, i, x)
  <2>1. x \notin old.added \cup old.removed
    BY <1>0, <1>2, <1>6 DEF Speaks
  <2>2. x \notin msg.added \cup msg.removed
    BY <1>0, <1>2, <2>1 DEF TrueOf
  <2>3. ~Matters(old, i, x)
    BY <1>0, <1>2, <1>6 DEF Matters, Adds
  <2>4. \E g : EchoesBy(q, p, 0, i, x, g)
    BY <2>3, EchoWithoutOne DEF old
  <2>5. x \in after <=> x \in before
    BY <1>0, <2>2 DEF TrueOf
  <2> HIDE DEF p
  <2>6. FlagAt(p, 0, i, x, after, d, later)
    BY <1>0, <1>4, <2>4, <2>5, FlagOfEcho
  <2> QED  BY <2>6 DEF p
<1>7. CASE Speaks(old, i, x)
  <2> DEFINE Later == \E k \in DOMAIN q : k > j /\ Speaks(q[k], i, x)
  <2>1. CASE x \in msg.added \cup msg.removed
    <3>1. Speaks(msg, i, x)
      BY <2>1 DEF Speaks
    <3>2. Agrees(q, j, msg, i, x)
      BY <1>0, <1>1, ClearlyAgrees
    <3>3. ~Later
      BY <1>0, <1>1, <1>5, <3>1, <3>2, NewsComesLast
    <3>4. x \notin old.added <=> x \in after
      BY <1>0, <1>2, <1>3, <2>1 DEF TrueOf
    <3> HIDE DEF p, Later
    <3>5. FlagAt(p, 0, i, x, after, d, late)
      BY <1>0, <1>2, <1>7, <3>3, <3>4, AnnulledFlag DEF p, old, Later
    <3> QED  BY <1>0, <1>2, <3>5, SameFlag DEF p
  <2>2. CASE x \notin msg.added \cup msg.removed
    <3>1. x \in after <=> x \in before
      BY <1>0, <2>2 DEF TrueOf
    <3>2. x \in old.added /\ x \in old.removed
      BY <1>0, <1>2, <1>7, <2>2 DEF Speaks
    <3>3. ~Later => x \notin before
      BY <1>0, <1>1, <1>5, <1>7, <3>2 DEF Ends, old
    <3>4. FlagAt(p, 0, i, x, after, d, late)
      <4>1. IF Later
            THEN /\ x \notin old.added <=> x \notin old.removed
                 /\ x \in after <=> x \in before
            ELSE x \notin old.added <=> x \in after
        BY <3>1, <3>2, <3>3
      <4> HIDE DEF p
      <4> QED  BY <1>0, <1>2, <1>7, <4>1, AnnulledFlag DEF p, old
    <3> HIDE DEF p
    <3> QED  BY <1>0, <1>2, <3>4, SameFlag DEF p
  <2> QED  BY <2>1, <2>2
<1> QED  BY <1>0, <1>6, <1>7

-----------------------------------------------------------------------------
(* Each kind of change is recorded, and the item is right *)

Kinds == {"Add", "Modify", "ModifyFlags", "Remove"}

\* A change of flags is recorded, or the creation it comes after.
LEMMA FlagsRecord ==
  ASSUME NEW q \in Seq(Message), NEW msg \in Message, msg.op = "ModifyFlags",
         NEW i \in msg.entities,
         \A k \in DOMAIN q : q[k].op \in Kinds /\ ~Removes(q[k], i),
         \A k, l \in DOMAIN q : Adds(q[k], i) /\ l < k => i \notin q[l].entities,
         NEW c, NEW after, NEW d, NEW late, NEW later, late => later,
         c.there, after.there, after.body = c.body,
         \A x \in Marks : TrueOf(msg, x, c.flags, after.flags),
         ~later => \A x \in Marks : News(msg, x, c.flags),
         ItemRight(q, 0, i, c, d, late),
         LET j == FirstIn(q, Stops(q, msg)) IN j \in DOMAIN q => Clearly(q, j, msg, later)
  PROVE  ItemRight(appendAndCompress(q, msg).list, 0, i, after, d, later)
<1> DEFINE p == appendAndCompress(q, msg).list
           j == FirstIn(q, Stops(q, msg))
           m == Merged(msg, q[j])
           n == Len(q)
<1>1. \/ p = Append(q, msg)
      \/ /\ j \in DOMAIN q /\ Merges(msg, q[j])
         /\ p = IF NoChange(m) THEN Without(q, j) ELSE [q EXCEPT ![j] = m]
      \/ j \in DOMAIN q /\ Covers(msg, q[j]) /\ p = q
  <2>1. msg.op \notin FastPath \cup {"Remove"}
    BY DEF FastPath
  <2> QED  BY <2>1, ModificationCompresses
<1>2. n \in Nat /\ DOMAIN q = 1..n /\ p \in Seq(Message)
  <2>1. p \in Seq(Message)
    BY appendAndCompressType DEF Outcomes
  <2> QED  BY <2>1
<1>3. j \in DOMAIN q => Clearly(q, j, msg, later)
  OBVIOUS
<1>4. \A x \in Marks : FlagAt(q, 0, i, x, c.flags, d, late)
  BY DEF ItemRight
<1> SUFFICES ItemRight(p, 0, i, after, d, later)
  OBVIOUS
<1> HIDE DEF p, j, n, m
<1>5. ASSUME NEW x \in Marks PROVE FlagAt(p, 0, i, x, after.flags, d, later)
  <2>1. /\ FlagAt(q, 0, i, x, c.flags, d, late)
        /\ TrueOf(msg, x, c.flags, after.flags)
        /\ ~later => ~late /\ News(msg, x, c.flags)
    BY <1>4
  <2>2. CASE p = Append(q, msg)
    <3>1. CASE x \in msg.added \cup msg.removed
      <4>1. Speaks(msg, i, x)
        BY <3>1 DEF Speaks
      <4> QED  BY <2>1, <2>2, <4>1, AppendedFlag
    <3>2. CASE x \notin msg.added \cup msg.removed
      <4>1. ~Matters(msg, i, x)
        BY <3>2 DEF Matters, Speaks, Adds
      <4>2. \E g : EchoesBy(q, p, 0, i, x, g)
        BY <2>2, <4>1, EchoWithAnother
      <4>3. x \in after.flags <=> x \in c.flags
        BY <2>1, <3>2 DEF TrueOf
      <4> QED  BY <1>2, <2>1, <4>2, <4>3, FlagOfEcho
    <3> QED  BY <3>1, <3>2
  <2> Retold(q, msg, i, x, c.flags, after.flags, d, late, later)
    BY <2>1 DEF Retold
  <2>3. CASE j \in DOMAIN q /\ Merges(msg, q[j]) /\ NoChange(m) /\ p = Without(q, j)
    BY <1>3, <2>3, FlagAnnulled DEF m
  <2>4. CASE j \in DOMAIN q /\ Merges(msg, q[j]) /\ ~NoChange(m) /\ p = [q EXCEPT ![j] = m]
    <3>1. Clearly(q, j, msg, later)
      BY <1>3, <2>4
    <3>2. Merges(msg, q[j]) /\ ~NoChange(Merged(msg, q[j])) /\ j \in DOMAIN q
      BY <2>4 DEF m
    <3>3. FlagAt(Replaced(q, j, Merged(msg, q[j])), 0, i, x, after.flags, d, later)
      BY <3>1, <3>2, FlagMergedIn
    <3>4. p = Replaced(q, j, Merged(msg, q[j]))
      BY <2>4 DEF Replaced, m
    <3> QED  BY <3>3, <3>4
  <2>5. CASE j \in DOMAIN q /\ Covers(msg, q[j]) /\ p = q
    <3>1. Adds(q[j], i)
      BY <2>5 DEF Covers, SameSubject, Adds, Removes, Kinds, Modifications
    <3>2. CASE x \in msg.added \cup msg.removed
      <4>1. Speaks(msg, i, x)
        BY <3>2 DEF Speaks
      <4>2. Agrees(q, j, msg, i, x)
        <5>1. j \in Nat
          BY <1>2, <2>5
        <5> QED  BY <1>3, <2>5, <5>1, ClearlyAgrees
      <4>3. \A l \in DOMAIN q : l < j => i \notin q[l].entities
        BY <2>5, <3>1
      <4> QED  BY <2>1, <2>5, <3>1, <4>1, <4>2, <4>3, CoveredFlag
    <3>3. CASE x \notin msg.added \cup msg.removed
      <4>1. x \in after.flags <=> x \in c.flags
        BY <2>1, <3>3 DEF TrueOf
      <4> QED  BY <2>1, <2>5, <4>1, SameFlag
    <3> QED  BY <3>2, <3>3
  <2> QED  BY <1>1, <2>2, <2>3, <2>4, <2>5
<1>6. (\E k \in DOMAIN q : k > 0 /\ Uploads(q[k], i))
        => \E k \in DOMAIN p : k > 0 /\ Uploads(p[k], i)
  <2> SUFFICES ASSUME NEW k \in DOMAIN q, Uploads(q[k], i)
               PROVE  \E a \in DOMAIN p : a > 0 /\ p[a] = q[k]
    OBVIOUS
  <2>1. PICK g : DerivesBy(q, msg, p, g)
    BY CompressionDerives DEF p
  <2>2. ~Merges(msg, q[k]) /\ ~Supersedes(msg, q[k])
    BY DEF Merges, Supersedes, Uploads
  <2>3. PICK a \in DOMAIN p : g[a] = k
    BY <2>1, <2>2 DEF DerivesBy
  <2>4. k # Len(q) + 1
    BY <1>2
  <2>5. p[a] = q[k]
    BY <2>1, <2>2, <2>3, <2>4 DEF DerivesBy
  <2>6. a > 0
    BY <1>2, <2>3
  <2> QED  BY <2>5, <2>6
<1>7. Settled(p, 0, i, after, d)
  <2>1. Settled(q, 0, i, c, d)
    BY DEF ItemRight
  <2> QED  BY <1>6, <2>1 DEF Settled
<1> QED  BY <1>5, <1>7 DEF ItemRight

\* A creation is recorded: nothing was, of this item.
LEMMA CreationRecorded ==
  ASSUME NEW q \in Seq(Message), NEW msg \in Message, msg.op = "Add",
         NEW i \in msg.entities, \A k \in DOMAIN q : i \notin q[k].entities,
         NEW c, c.there, c.flags = {}, NEW d, NEW late
  PROVE  ItemRight(appendAndCompress(q, msg).list, 0, i, c, d, late)
<1> DEFINE p == appendAndCompress(q, msg).list
           n == Len(q)
<1>1. p = Append(q, msg)
  BY DEF appendAndCompress, Outcome, FastPath
<1>2. /\ n \in Nat /\ DOMAIN p = 1..(n + 1) /\ p[n + 1] = msg
      /\ \A k \in 1..n : p[k] = q[k] /\ i \notin p[k].entities
  BY <1>1
<1> SUFFICES ItemRight(p, 0, i, c, d, late)
  OBVIOUS
<1> HIDE DEF p, n
<1>3. Uploads(p[n + 1], i) /\ Adds(p[n + 1], i) /\ n + 1 \in DOMAIN p /\ n + 1 > 0
  BY <1>2 DEF Uploads, Adds
<1>4. \A k \in DOMAIN p, x \in Marks : ~Speaks(p[k], i, x)
  <2>1. \A x : ~Speaks(msg, i, x)
    BY DEF Speaks
  <2>2. \A k \in DOMAIN p : k \in 1..n \/ k = n + 1
    BY <1>2
  <2> QED  BY <1>2, <2>1, <2>2 DEF Speaks
<1>5. Settled(p, 0, i, c, d)
  BY <1>3 DEF Settled
<1>6. ~Seen(p, 0, i, d)
  BY <1>3 DEF Seen
<1>7. ASSUME NEW x \in Marks PROVE FlagAt(p, 0, i, x, c.flags, d, late)
  BY <1>4, <1>6 DEF FlagAt, Ends, Chains
<1> QED  BY <1>5, <1>7 DEF ItemRight

\* A deletion is recorded.
LEMMA DeletionRecorded ==
  ASSUME NEW q \in Seq(Message), NEW msg \in Message, msg.op = "Remove",
         NEW i \in msg.entities, NEW c, ~c.there, NEW d, NEW late
  PROVE  ItemRight(appendAndCompress(q, msg).list, 0, i, c, d, late)
<1> DEFINE r == Purged(q, msg)
           p == appendAndCompress(q, msg).list
<1>1. r \in Seq(Message)
  BY KeepType DEF Purged
<1>2. p = Append(r, msg)
  BY DEF appendAndCompress, Outcome
<1> HIDE DEF r
<1>3. Len(p) \in DOMAIN p /\ Len(p) > 0 /\ p[Len(p)] = msg
  BY <1>1, <1>2
<1> SUFFICES ItemRight(p, 0, i, c, d, late)
  OBVIOUS
<1> HIDE DEF p
<1>4. Removes(p[Len(p)], i)
  BY <1>3 DEF Removes
<1> QED  BY <1>3, <1>4 DEF ItemRight, Settled

-----------------------------------------------------------------------------
(* The first entry is repeated, repeated again, and answered *)

\* What a change makes of the item on the server, when nothing fails: uploads
\* replace it, flags are added first and removed then, deletions mark it.
StoreFlags(d, msg) == [d EXCEPT !.flags = (@ \cup msg.added) \ msg.removed]

Repeated(d, msg, given) ==
  CASE msg.op \in {"Add", "Modify"} /\ given.there -> given
    [] msg.op = "ModifyFlags" /\ d.there -> StoreFlags(d, msg)
    [] msg.op = "Remove" -> [d EXCEPT !.there = FALSE]
    [] OTHER -> d

Silent(q, i) == \A k \in DOMAIN q, x \in Marks : ~Speaks(q[k], i, x)

\* The agent crashed: what was repeated, and not answered yet, is repeated again.
LEMMA RepeatedAgain ==
  ASSUME NEW q \in Seq(Message), NEW i, NEW c, NEW d, NEW late, NEW later,
         ItemRight(q, 1, i, c, d, late), ~later => Silent(q, i)
  PROVE  ItemRight(q, 0, i, c, d, later)
<1>1. \A k \in DOMAIN q : k > 1 => k > 0
  <2>1. DOMAIN q \subseteq Nat
    OBVIOUS
  <2> QED  BY <2>1
<1>2. Settled(q, 0, i, c, d)
  BY <1>1 DEF ItemRight, Settled
<1>3. ASSUME NEW x \in Marks, FlagAt(q, 1, i, x, c.flags, d, late)
      PROVE  FlagAt(q, 0, i, x, c.flags, d, later)
  <2>1. Seen(q, 0, i, d) => Seen(q, 1, i, d)
    BY <1>1 DEF Seen
  <2>2. Untold(q, 0, i, x) => Untold(q, 1, i, x)
    BY <1>1 DEF Untold
  <2>3. ~later => Chains(q, i, x) /\ Starts(q, 0, i, x, d.flags)
    BY DEF Silent, Chains, Starts
  <2> QED  BY <1>3, <2>1, <2>2, <2>3 DEF FlagAt
<1> QED  BY <1>2, <1>3 DEF ItemRight

\* The first change was answered, and is taken out of the record.
LEMMA AnsweredKeeps ==
  ASSUME NEW q \in Seq(Message), q # <<>>, NEW s \in {0, 1}, NEW i,
         s = 0 => i \notin q[1].entities,
         NEW c, NEW d, NEW late, NEW later,
         ItemRight(q, s, i, c, d, late), ~later => ~late \/ Silent(Tail(q), i)
  PROVE  ItemRight(Tail(q), 0, i, c, d, later)
<1> DEFINE n == Len(q)
           p == Tail(q)
<1>1. /\ n \in Nat \ {0} /\ DOMAIN q = 1..n /\ DOMAIN p = 1..(n - 1)
      /\ \A k \in 1..(n - 1) : p[k] = q[k + 1]
  OBVIOUS
<1> HIDE DEF n, p
<1>2. \A k \in 1..n : k > s /\ i \in q[k].entities => k - 1 \in 1..(n - 1) /\ p[k - 1] = q[k]
  <2> SUFFICES ASSUME NEW k \in 1..n, k > s, i \in q[k].entities
               PROVE  k - 1 \in 1..(n - 1) /\ p[k - 1] = q[k]
    OBVIOUS
  <2>1. k # 1
    BY <1>1
  <2>2. k - 1 \in 1..(n - 1) /\ (k - 1) + 1 = k
    BY <1>1, <2>1
  <2>3. p[k - 1] = q[(k - 1) + 1]
    BY <1>1, <2>2
  <2> QED  BY <2>2, <2>3
<1>3. \A k \in 1..(n - 1) : k + 1 \in 1..n /\ k + 1 > s /\ p[k] = q[k + 1] /\ k > 0
  BY <1>1
<1>4. Settled(p, 0, i, c, d)
  <2>1. \A k \in 1..n : k > s /\ (Uploads(q[k], i) \/ Removes(q[k], i)) => k - 1 > 0
    <3>1. \A k \in 1..n : Uploads(q[k], i) \/ Removes(q[k], i) => i \in q[k].entities
      BY DEF Uploads, Removes
    <3>2. \A k \in 1..(n - 1) : k > 0
      BY <1>1
    <3> QED  BY <1>2, <3>1, <3>2
  <2>2. ASSUME NEW k \in DOMAIN q, k > s, Uploads(q[k], i)
        PROVE  \E a \in DOMAIN p : a > 0 /\ Uploads(p[a], i)
    <3>1. i \in q[k].entities
      BY <2>2 DEF Uploads
    <3> QED  BY <1>1, <1>2, <2>1, <2>2, <3>1
  <2>3. ASSUME NEW k \in DOMAIN q, k > s, Removes(q[k], i)
        PROVE  \E a \in DOMAIN p : a > 0 /\ Removes(p[a], i)
    <3>1. i \in q[k].entities
      BY <2>3 DEF Removes
    <3> QED  BY <1>1, <1>2, <2>1, <2>3, <3>1
  <2> QED  BY <2>2, <2>3 DEF ItemRight, Settled
<1>5. ASSUME NEW x \in Marks, FlagAt(q, s, i, x, c.flags, d, late)
      PROVE  FlagAt(p, 0, i, x, c.flags, d, later)
  <2> DEFINE S(k) == Speaks(q[k], i, x)
  <2>1. \A k \in 1..n : k > s /\ S(k) => k - 1 \in 1..(n - 1) /\ p[k - 1] = q[k]
    BY <1>2 DEF Speaks
  <2>2. \A k \in 1..(n - 1) : Speaks(p[k], i, x) <=> S(k + 1)
    BY <1>3
  <2> HIDE DEF S
  <2>3. Ends(p, i, x, c.flags)
    <3> SUFFICES ASSUME NEW k \in 1..(n - 1), S(k + 1), \A l \in 1..(n - 1) : l > k => ~S(l + 1)
                 PROVE  x \notin p[k].removed <=> x \in c.flags
      BY <1>1, <2>2 DEF Ends
    <3>1. \A m \in 1..n : m > k + 1 => ~S(m)
      <4> SUFFICES ASSUME NEW m \in 1..n, m > k + 1 PROVE ~S(m)
        OBVIOUS
      <4>1. m - 1 \in 1..(n - 1) /\ m - 1 > k /\ (m - 1) + 1 = m
        BY <1>1
      <4> QED  BY <4>1
    <3>2. Ends(q, i, x, c.flags)
      BY <1>5 DEF FlagAt
    <3> QED  BY <1>1, <1>3, <3>1, <3>2 DEF Ends, S
  <2>4. Seen(p, 0, i, d) => Seen(q, s, i, d)
    <3> SUFFICES ASSUME Seen(p, 0, i, d), NEW k \in 1..n, k > s, Adds(q[k], i) PROVE FALSE
      BY <1>1 DEF Seen
    <3>1. k - 1 \in 1..(n - 1) /\ p[k - 1] = q[k]
      BY <1>2 DEF Adds
    <3> QED  BY <1>1, <1>3, <3>1 DEF Seen
  <2>5. Untold(p, 0, i, x) => Untold(q, s, i, x)
    <3> SUFFICES ASSUME Untold(p, 0, i, x), NEW k \in 1..n, k > s, S(k) PROVE FALSE
      BY <1>1 DEF Untold, S
    <3>1. k - 1 \in 1..(n - 1) /\ p[k - 1] = q[k]
      BY <2>1
    <3> QED  BY <1>1, <1>3, <3>1 DEF Untold, S
  <2>6. ~later /\ Silent(p, i) => Chains(p, i, x) /\ Starts(p, 0, i, x, d.flags)
    BY DEF Silent, Chains, Starts
  <2>7. Chains(q, i, x) => Chains(p, i, x)
    <3> SUFFICES ASSUME Chains(q, i, x), NEW a \in 1..(n - 1), NEW b \in 1..(n - 1), a < b,
                        S(a + 1), S(b + 1), \A l \in 1..(n - 1) : a < l /\ l < b => ~S(l + 1)
                 PROVE  x \notin p[a].removed <=> x \notin p[b].added
      BY <1>1, <2>2 DEF Chains
    <3>1. \A m \in 1..n : a + 1 < m /\ m < b + 1 => ~S(m)
      <4> SUFFICES ASSUME NEW m \in 1..n, a + 1 < m, m < b + 1 PROVE ~S(m)
        OBVIOUS
      <4>1. m - 1 \in 1..(n - 1) /\ a < m - 1 /\ m - 1 < b /\ (m - 1) + 1 = m
        BY <1>1
      <4> QED  BY <4>1
    <3>2. a + 1 < b + 1
      BY <1>1
    <3>3. x \notin q[a + 1].removed <=> x \notin q[b + 1].added
      BY <1>1, <1>3, <3>1, <3>2 DEF Chains, S
    <3> QED  BY <1>3, <3>3
  <2>8. Starts(q, s, i, x, d.flags) => Starts(p, 0, i, x, d.flags)
    <3> SUFFICES ASSUME Starts(q, s, i, x, d.flags), NEW k \in 1..(n - 1), S(k + 1),
                        \A l \in 1..(n - 1) : l < k => ~S(l + 1)
                 PROVE  x \notin p[k].added <=> x \in d.flags
      BY <1>1, <1>3, <2>2 DEF Starts
    <3>1. \A m \in 1..n : s < m /\ m < k + 1 => ~S(m)
      <4> SUFFICES ASSUME NEW m \in 1..n, s < m, m < k + 1, S(m) PROVE FALSE
        OBVIOUS
      <4>1. m - 1 \in 1..(n - 1)
        BY <2>1
      <4>2. m - 1 < k /\ (m - 1) + 1 = m
        BY <1>1
      <4> QED  BY <4>1, <4>2
    <3>2. x \notin q[k + 1].added <=> x \in d.flags
      BY <1>1, <1>3, <3>1 DEF Starts, S
    <3> QED  BY <1>3, <3>2
  <2> QED  BY <1>5, <2>3, <2>4, <2>5, <2>6, <2>7, <2>8 DEF FlagAt, p
<1>6. ItemRight(p, 0, i, c, d, later)
  BY <1>4, <1>5 DEF ItemRight
<1> QED  BY <1>6 DEF p

\* What is repeated on the server leaves data there.
LEMMA RepeatedType ==
  ASSUME NEW d \in Data, NEW msg \in Message, NEW given \in Data
  PROVE  Repeated(d, msg, given) \in Data
<1>1. StoreFlags(d, msg) \in Data
  BY DEF StoreFlags, Data, Message
<1>2. [d EXCEPT !.there = FALSE] \in Data
  BY DEF Data
<1> QED  BY <1>1, <1>2 DEF Repeated

\* The first change takes effect on the server, with the data the item has.
LEMMA RepeatedKeeps ==
  ASSUME NEW q \in Seq(Message), q # <<>>, NEW i \in q[1].entities,
         \A k \in DOMAIN q : q[k].op \in Kinds,
         NEW c \in Data, c.there => \A k \in DOMAIN q : ~Removes(q[k], i),
         NEW d \in Data, NEW late, NEW later, late => later,
         q[1].op \in {"Add", "Modify"} /\ c.there => later \/ Silent(q, i),
         ItemRight(q, 0, i, c, d, late)
  PROVE  ItemRight(q, 1, i, c, Repeated(d, q[1], c), later)
<1> DEFINE m == q[1]
           e == Repeated(d, m, c)
<1>1. /\ DOMAIN q = 1..Len(q) /\ Len(q) \in Nat /\ 1 \in DOMAIN q /\ m \in Message
      /\ \A k \in DOMAIN q : k > 0 /\ (k = 1 \/ k > 1) /\ k \in Nat
  OBVIOUS
<1>2. m.op \in Kinds
  BY <1>1
<1>3. \A x \in Marks : FlagAt(q, 0, i, x, c.flags, d, late) \/ ~c.there
  BY DEF ItemRight
<1> HIDE DEF m
<1>4. CASE m.op \in {"Add", "Modify"} /\ c.there
  <2>1. e = c
    BY <1>4 DEF Repeated
  <2> HIDE DEF e
  <2>2. Settled(q, 1, i, c, e)
    BY <1>4, <2>1 DEF Settled
  <2>3. ASSUME NEW x \in Marks PROVE FlagAt(q, 1, i, x, c.flags, e, later)
    <3>1. Silent(q, i) => Chains(q, i, x) /\ Starts(q, 1, i, x, e.flags)
      BY DEF Silent, Chains, Starts
    <3> QED  BY <1>3, <1>4, <2>1, <3>1 DEF FlagAt, m
  <2> QED  BY <2>2, <2>3 DEF ItemRight, e, m
<1>5. CASE ~c.there
  <2>1. ~d.there \/ \E k \in DOMAIN q : k > 0 /\ Removes(q[k], i)
    BY <1>5 DEF ItemRight, Settled
  <2>2. CASE m.op = "Remove"
    <3>1. ~e.there
      BY <2>2 DEF Repeated, Data
    <3> QED  BY <1>5, <3>1 DEF ItemRight, Settled, m
  <2>3. CASE m.op # "Remove"
    <3>1. ~d.there => ~e.there
      BY <1>5, <2>3 DEF Repeated
    <3>2. \A k \in DOMAIN q : Removes(q[k], i) => k > 1
      BY <1>1, <2>3 DEF Removes, m
    <3> HIDE DEF e
    <3> QED  BY <1>5, <2>1, <3>1, <3>2 DEF ItemRight, Settled, e, m
  <2> QED  BY <2>2, <2>3
<1>6. CASE c.there /\ m.op = "Remove"
  BY <1>1, <1>6 DEF Removes, m
<1>7. CASE c.there /\ m.op = "ModifyFlags"
  <2>1. /\ e.there = d.there /\ e.body = d.body
        /\ d.there => e.flags = (d.flags \cup m.added) \ m.removed
    BY <1>7 DEF Repeated, StoreFlags, Data
  <2> HIDE DEF e
  <2>2. \A k \in DOMAIN q : Uploads(q[k], i) => k > 1
    BY <1>1, <1>7 DEF Uploads, m
  <2>3. Settled(q, 1, i, c, e)
    BY <1>7, <2>1, <2>2 DEF ItemRight, Settled
  <2>4. ASSUME NEW x \in Marks PROVE FlagAt(q, 1, i, x, c.flags, e, later)
    <3>1. FlagAt(q, 0, i, x, c.flags, d, late)
      BY <1>3, <1>7
    <3>2. Speaks(m, i, x) <=> x \in m.added \cup m.removed
      BY <1>7 DEF Speaks, m
    <3>3. Seen(q, 1, i, e) => Seen(q, 0, i, d)
      <4>1. ~Adds(q[1], i)
        BY <1>7 DEF Adds, m
      <4> QED  BY <1>1, <2>1, <4>1 DEF Seen
    <3>4. d.there /\ Speaks(m, i, x) => (x \in e.flags <=> x \notin m.removed)
      BY <2>1, <3>2
    <3>5. d.there /\ ~Speaks(m, i, x) => (x \in e.flags <=> x \in d.flags)
      BY <2>1, <3>2
    <3>6. Seen(q, 1, i, e) /\ Untold(q, 1, i, x) => (x \in e.flags <=> x \in c.flags)
      <4> SUFFICES ASSUME Seen(q, 0, i, d), Untold(q, 1, i, x)
                   PROVE  x \in e.flags <=> x \in c.flags
        BY <3>3
      <4>1. d.there
        BY DEF Seen
      <4>2. \A l \in DOMAIN q : l > 1 => ~Speaks(q[l], i, x)
        BY DEF Untold
      <4>3. CASE Speaks(m, i, x)
        <5>1. x \notin m.removed <=> x \in c.flags
          BY <1>1, <3>1, <4>2, <4>3 DEF FlagAt, Ends, m
        <5> QED  BY <3>4, <4>1, <4>3, <5>1
      <4>4. CASE ~Speaks(m, i, x)
        <5>1. Untold(q, 0, i, x)
          BY <1>1, <4>2, <4>4 DEF Untold, m
        <5> QED  BY <3>1, <3>5, <4>1, <4>4, <5>1 DEF FlagAt
      <4> QED  BY <4>3, <4>4
    <3>7. ~late /\ Seen(q, 1, i, e) => Starts(q, 1, i, x, e.flags)
      <4> SUFFICES ASSUME ~late, Seen(q, 0, i, d), NEW k \in DOMAIN q, k > 1,
                          Speaks(q[k], i, x),
                          \A l \in DOMAIN q : 1 < l /\ l < k => ~Speaks(q[l], i, x)
                   PROVE  x \notin q[k].added <=> x \in e.flags
        BY <3>3 DEF Starts
      <4>1. d.there
        BY DEF Seen
      <4>2. Chains(q, i, x) /\ Starts(q, 0, i, x, d.flags)
        BY <3>1 DEF FlagAt
      <4>3. CASE Speaks(m, i, x)
        <5>1. x \notin m.removed <=> x \notin q[k].added
          BY <1>1, <4>2, <4>3 DEF Chains, m
        <5> QED  BY <3>4, <4>1, <4>3, <5>1
      <4>4. CASE ~Speaks(m, i, x)
        <5>1. \A l \in DOMAIN q : 0 < l /\ l < k => ~Speaks(q[l], i, x)
          BY <1>1, <4>4 DEF m
        <5>2. x \notin q[k].added <=> x \in d.flags
          BY <1>1, <4>2, <5>1 DEF Starts
        <5> QED  BY <3>5, <4>1, <4>4, <5>2
      <4> QED  BY <4>3, <4>4
    <3> QED  BY <3>1, <3>6, <3>7 DEF FlagAt
  <2> QED  BY <2>3, <2>4 DEF ItemRight, e, m
<1> QED  BY <1>2, <1>4, <1>5, <1>6, <1>7 DEF Kinds

-----------------------------------------------------------------------------
(* The kinds of the entries, and how they fit the life of an item *)

\* The changes of a list are changes of items, of the kinds clients make.
Shape(q) ==
  \A k \in DOMAIN q : q[k].op \in Kinds /\ q[k].type = "Items" /\ q[k].entities # {}

\* What the record has of an item fits its life: nothing before it is created, no
\* deletion while it is there, and nothing before its creation.
Life(q, i, c) ==
  /\ i \notin DOMAIN AtFirst =>
       IF c = Absent THEN \A k \in DOMAIN q : i \notin q[k].entities ELSE c.body > 0
  /\ c.there => \A k \in DOMAIN q : ~Removes(q[k], i)
  /\ \A k, l \in DOMAIN q : Adds(q[k], i) /\ l < k => i \notin q[l].entities

\* Where the entries of a compressed list come from.
LEMMA DerivedEntry ==
  ASSUME NEW q \in Seq(Message), NEW msg \in Message, NEW p \in Seq(Message), NEW g,
         DerivesBy(q, msg, p, g), NEW a \in DOMAIN p
  PROVE  \/ p[a] = msg /\ g[a] = Len(q) + 1
         \/ /\ g[a] \in DOMAIN q /\ g[a] < Len(q) + 1
            /\ p[a].entities = q[g[a]].entities /\ p[a].op = q[g[a]].op
            /\ p[a].type = q[g[a]].type
            /\ \/ p[a] = q[g[a]]
               \/ SameSubject(msg, q[g[a]]) /\ p[a].op \in Modifications
<1>1. \/ g[a] = Len(q) + 1 /\ p[a] = msg
      \/ /\ g[a] \in DOMAIN q
         /\ \/ p[a] = q[g[a]]
            \/ Merges(msg, q[g[a]]) /\ p[a] = Merged(msg, q[g[a]])
  BY Zenon DEF DerivesBy
<1>2. CASE /\ g[a] \in DOMAIN q
           /\ \/ p[a] = q[g[a]]
              \/ Merges(msg, q[g[a]]) /\ p[a] = Merged(msg, q[g[a]])
  <2>1. q[g[a]] \in Message /\ g[a] < Len(q) + 1
    BY <1>2
  <2>2. Merges(msg, q[g[a]]) =>
          /\ Merged(msg, q[g[a]]).entities = q[g[a]].entities
          /\ Merged(msg, q[g[a]]).type = q[g[a]].type
          /\ Merged(msg, q[g[a]]).op = q[g[a]].op
          /\ SameSubject(msg, q[g[a]]) /\ q[g[a]].op \in Modifications
    BY <2>1 DEF Merged, Merges, Message
  <2> QED  BY <1>2, <2>1, <2>2
<1> QED  BY <1>1, <1>2

\* A list of changes of items stays one when a change of items is recorded.
LEMMA ShapeRecorded ==
  ASSUME NEW q \in Seq(Message), NEW msg \in Message, Shape(q), Shape(<<msg>>)
  PROVE  Shape(appendAndCompress(q, msg).list)
<1> DEFINE p == appendAndCompress(q, msg).list
<1>1. p \in Seq(Message)
  BY appendAndCompressType DEF Outcomes
<1>2. PICK g : DerivesBy(q, msg, p, g)
  BY CompressionDerives
<1>3. msg.op \in Kinds /\ msg.type = "Items" /\ msg.entities # {}
  <2>1. 1 \in DOMAIN <<msg>> /\ <<msg>>[1] = msg
    OBVIOUS
  <2> QED  BY <2>1 DEF Shape
<1> HIDE DEF p
<1>4. Shape(p)
  BY <1>1, <1>2, <1>3, DerivedEntry DEF Shape
<1> QED  BY <1>4 DEF p

\* A change is recorded, and the item has changed, if the change is of it.
LEMMA LifeRecorded ==
  ASSUME NEW q \in Seq(Message), NEW msg \in Message, NEW i, NEW c, NEW after,
         Life(q, i, c), i \notin msg.entities => after = c,
         i \in msg.entities /\ i \notin DOMAIN AtFirst => after # Absent /\ after.body > 0,
         i \in msg.entities /\ after.there =>
           msg.op # "Remove" /\ \A k \in DOMAIN q : ~Removes(q[k], i),
         i \in msg.entities /\ msg.op = "Add" => \A k \in DOMAIN q : i \notin q[k].entities
  PROVE  Life(appendAndCompress(q, msg).list, i, after)
<1> DEFINE p == appendAndCompress(q, msg).list
<1>1. p \in Seq(Message) /\ DOMAIN p \subseteq Nat /\ DOMAIN q \subseteq Nat /\ Len(q) \in Nat
  <2>1. p \in Seq(Message)
    BY appendAndCompressType DEF Outcomes
  <2> HIDE DEF p
  <2> QED  BY <2>1
<1>2. PICK g : DerivesBy(q, msg, p, g)
  BY CompressionDerives
<1> HIDE DEF p
<1>3. \A a \in DOMAIN p :
        \/ p[a] = msg /\ g[a] = Len(q) + 1
        \/ /\ g[a] \in DOMAIN q /\ g[a] < Len(q) + 1
           /\ p[a].entities = q[g[a]].entities /\ p[a].op = q[g[a]].op
  BY <1>1, <1>2, DerivedEntry
<1>4. \A a, b \in DOMAIN p : a < b => g[a] < g[b]
  BY <1>2 DEF DerivesBy
<1>5. i \notin DOMAIN AtFirst =>
        IF after = Absent THEN \A k \in DOMAIN p : i \notin p[k].entities ELSE after.body > 0
  <2> SUFFICES ASSUME i \notin DOMAIN AtFirst
               PROVE  IF after = Absent THEN \A k \in DOMAIN p : i \notin p[k].entities
                      ELSE after.body > 0
    OBVIOUS
  <2>1. CASE i \in msg.entities
    BY <2>1
  <2>2. CASE i \notin msg.entities
    BY <1>3, <2>2 DEF Life
  <2> QED  BY <2>1, <2>2
<1>6. after.there => \A k \in DOMAIN p : ~Removes(p[k], i)
  <2> SUFFICES ASSUME after.there, NEW k \in DOMAIN p, Removes(p[k], i) PROVE FALSE
    OBVIOUS
  <2>1. \A l \in DOMAIN q : ~Removes(q[l], i)
    BY DEF Life
  <2>2. p[k] # msg
    BY DEF Removes
  <2> QED  BY <1>3, <2>1, <2>2 DEF Removes
<1>7. ASSUME NEW k \in DOMAIN p, NEW l \in DOMAIN p, Adds(p[k], i), l < k
      PROVE  i \notin p[l].entities
  <2>1. g[l] < g[k]
    BY <1>4, <1>7
  <2>2. /\ g[l] \in DOMAIN q /\ p[l].entities = q[g[l]].entities
    <3>1. g[l] # Len(q) + 1
      <4>1. g[k] \in Nat /\ (g[k] = Len(q) + 1 \/ g[k] < Len(q) + 1)
        BY <1>1, <1>3
      <4> QED  BY <1>1, <2>1, <4>1
    <3> QED  BY <1>3, <3>1
  <2>3. CASE p[k] = msg
    BY <1>7, <2>2, <2>3 DEF Adds
  <2>4. CASE p[k] # msg
    <3>1. g[k] \in DOMAIN q /\ Adds(q[g[k]], i)
      BY <1>3, <1>7, <2>4 DEF Adds
    <3> QED  BY <2>1, <2>2, <3>1 DEF Life
  <2> QED  BY <2>3, <2>4
<1>8. Life(p, i, after)
  BY <1>5, <1>6, <1>7 DEF Life
<1> QED  BY <1>8 DEF p

\* While the agent does not run, changes are not recorded.
LEMMA LifeUnrecorded ==
  ASSUME NEW q, NEW i, NEW c, NEW after, Life(q, i, c),
         i \notin DOMAIN AtFirst => after # Absent /\ after.body > 0,
         after.there => \A k \in DOMAIN q : ~Removes(q[k], i)
  PROVE  Life(q, i, after)
BY DEF Life

\* What is left when the first change is taken out of the record.
LEMMA TailKeepsLife ==
  ASSUME NEW q \in Seq(Message), q # <<>>
  PROVE  /\ Shape(q) => Shape(Tail(q))
         /\ \A i, c : Life(q, i, c) => Life(Tail(q), i, c)
<1> DEFINE n == Len(q)
           p == Tail(q)
<1>1. /\ n \in Nat \ {0} /\ DOMAIN q = 1..n /\ DOMAIN p = 1..(n - 1)
      /\ \A k \in 1..(n - 1) : p[k] = q[k + 1] /\ k + 1 \in 1..n
      /\ \A k, l \in 1..(n - 1) : l < k => l + 1 < k + 1
  OBVIOUS
<1> HIDE DEF n, p
<1>2. Shape(q) => Shape(p)
  BY <1>1 DEF Shape
<1>3. ASSUME NEW i, NEW c, Life(q, i, c) PROVE Life(p, i, c)
  <2>1. ASSUME NEW k \in DOMAIN p, NEW l \in DOMAIN p, Adds(p[k], i), l < k
        PROVE  i \notin p[l].entities
    <3>1. Adds(q[k + 1], i) /\ l + 1 < k + 1 /\ k + 1 \in DOMAIN q /\ l + 1 \in DOMAIN q
      BY <1>1, <2>1
    <3>2. i \notin q[l + 1].entities
      BY <1>3, <3>1 DEF Life
    <3> QED  BY <1>1, <3>2
  <2> QED  BY <1>1, <1>3, <2>1 DEF Life
<1> QED  BY <1>2, <1>3 DEF p

\* A new first entry of the record comes from a change of the same items.
LEMMA HeadRecorded ==
  ASSUME NEW q \in Seq(Message), NEW msg \in Message, q # <<>>,
         appendAndCompress(q, msg).list # <<>>,
         Head(appendAndCompress(q, msg).list) # Head(q)
  PROVE  msg.entities = Head(q).entities
<1> DEFINE p == appendAndCompress(q, msg).list
<1>1. p \in Seq(Message)
  BY appendAndCompressType DEF Outcomes
<1>2. PICK g : DerivesBy(q, msg, p, g)
  BY CompressionDerives
<1> SUFFICES ASSUME p # <<>>, Head(p) # Head(q) PROVE msg.entities = Head(q).entities
  OBVIOUS
<1> HIDE DEF p
<1>3. /\ 1 \in DOMAIN p /\ Head(p) = p[1] /\ 1 \in DOMAIN q /\ Head(q) = q[1]
      /\ DOMAIN p \subseteq Nat /\ Len(q) \in Nat /\ DOMAIN q = 1..Len(q)
      /\ \A a \in DOMAIN p : 1 <= a
  BY <1>1
<1>4. CASE \E a \in DOMAIN p : g[a] = 1
  <2>1. PICK a \in DOMAIN p : g[a] = 1
    BY <1>4
  <2>2. a = 1
    <3> SUFFICES ASSUME 1 < a PROVE FALSE
      BY <1>3
    <3>1. g[1] < g[a]
      BY <1>2, <1>3 DEF DerivesBy
    <3>2. g[1] \in 1..(Len(q) + 1)
      BY <1>2, <1>3 DEF DerivesBy
    <3> QED  BY <1>3, <2>1, <3>1, <3>2
  <2>3. g[1] # Len(q) + 1
    BY <1>3, <2>1, <2>2
  <2>4. SameSubject(msg, q[1])
    BY <1>1, <1>2, <1>3, <2>1, <2>2, <2>3, DerivedEntry
  <2> QED  BY <1>3, <2>4 DEF SameSubject
<1>5. CASE ~ \E a \in DOMAIN p : g[a] = 1
  <2>1. Merges(msg, q[1]) \/ Supersedes(msg, q[1])
    BY <1>2, <1>3, <1>5 DEF DerivesBy
  <2> QED  BY <1>3, <2>1 DEF Merges, Supersedes, SameSubject
<1> QED  BY <1>4, <1>5

-----------------------------------------------------------------------------
(* The circumstances: every change is given out, and as it was made *)

\* The circumstances in which every change is given out, and as it was made: on top
\* of those in which the recorder is a log, the resource connects the signals the
\* one for IMAP connects, and begins with an empty record.
Attentive(sig) ==
  /\ {<<"Items", "Add", One>>, <<"Items", "Modify", One>>,
      <<"Items", "ModifyFlags", Many>>, <<"Items", "Remove", Many>>} \subseteq sig
  /\ <<"Items", "Remove", One>> \notin sig

Repeatable ==
  /\ Undisturbed
  /\ \A sig \in Listenings : Attentive(sig)
  /\ \A file \in OldFiles : Loaded(file) = <<>>

\* The changes clients make.
Single(msg) == msg.op \in {"Add", "Modify"} => \E e \in Entities : msg.entities = {e}

\* A loop of one round.
LEMMA IterateOnce ==
  ASSUME NEW step, NEW s
  PROVE  Iterate(step, s, 1) = step[s]
<1> DEFINE Holds == [i \in 0..1 |-> IF i = 0 THEN {s} ELSE {step[s]}]
<1>1. s \in Holds[0] /\ Holds[1] = {step[s]}
  OBVIOUS
<1>2. \A i \in 0..(1 - 1) : \A x \in Holds[i] : step[x] \in Holds[i + 1]
  <2>1. \A i \in 0..(1 - 1) : i = 0
    OBVIOUS
  <2>2. Holds[0] = {s} /\ 0 + 1 = 1
    OBVIOUS
  <2> HIDE DEF Holds
  <2> QED  BY <1>1, <2>1, <2>2
<1> HIDE DEF Holds
<1>3. Iterate(step, s, 1) \in Holds[1]
  BY <1>1, <1>2, IterateHolds
<1> QED  BY <1>1, <1>3

\* A change clients make is queued as it is, and put into the list as compression
\* puts it there.
LEMMA ChangeIsQueued ==
  ASSUME NEW r, Sound(r), NEW sig, Attentive(sig), NEW msg \in Message,
         msg.type = "Items", msg.op \in Kinds, Single(msg), NEW w \in BOOLEAN
  PROVE  slotNotify(r, sig, <<msg>>, w).pending = appendAndCompress(r.pending, msg).list
<1> DEFINE wanted == Wanted(sig, <<msg>>)
           D == [list : Seq(Message), appended : Nat, erased : BOOLEAN, next : Nat]
           step == [done \in D |->
                      LET m == wanted[done.next]
                          x == Round(sig, done, m)
                      IN [list |-> x.list, appended |-> x.appended, erased |-> x.erased,
                          next |-> done.next + 1]]
           s == [list |-> r.pending, appended |-> 0, erased |-> FALSE, next |-> 1]
<1>1. <<msg>> \in Seq({msg}) /\ <<msg>> \in Seq(Message) /\ Len(<<msg>>) = 1 /\ <<msg>>[1] = msg
      /\ DOMAIN <<msg>> = 1..1
  OBVIOUS
<1>2. r \in Recorder /\ r.pending \in Seq(Message)
  BY DEF Sound, Recorder
<1>3. Hears(sig, msg)
  BY DEF Hears, Attentive, Kinds, One, Many
<1>4. wanted = <<msg>>
  <2> DEFINE q == <<msg>>
             T == {msg}
             S == {m \in Elements(q) : ~isLazilyIgnored(sig, m, TRUE)}
  <2>1. T \subseteq S
    BY <1>1, <1>3 DEF Elements, isLazilyIgnored
  <2>2. q \in Seq(T)
    BY <1>1
  <2>3. wanted = Keep(q, S)
    BY DEF Wanted
  <2> HIDE DEF S, T, q, wanted
  <2>4. Keep(q, S) = q
    BY <2>1, <2>2, KeepShortens
  <2> QED  BY <2>3, <2>4 DEF q
<1>5. QueuesWhole(sig, msg) /\ ~QueuesPieces(sig, msg)
  <2>1. msg.op \in {"ModifyFlags", "Remove"} => BatchSupported(sig, msg)
    BY DEF BatchSupported, Attentive, Many
  <2>2. ~NeedsSplit(sig, msg)
    <3>1. CASE msg.op \in {"Add", "Modify"}
      <4>1. PICK e \in Entities : msg.entities = {e}
        BY <3>1 DEF Single
      <4>2. Cardinality(msg.entities) = 1
        BY <4>1, FS_Singleton, Zenon
      <4> QED  BY <4>2 DEF NeedsSplit
    <3>2. CASE msg.op = "ModifyFlags"
      BY <2>1, <3>2 DEF NeedsSplit
    <3>3. CASE msg.op = "Remove"
      BY <3>3 DEF NeedsSplit, Attentive, One
    <3> QED  BY <3>1, <3>2, <3>3 DEF Kinds
  <2> QED  BY <2>1, <2>2 DEF QueuesWhole, QueuesPieces, Kinds
<1>6. Round(sig, s, msg).list = appendAndCompress(r.pending, msg).list
  <2>1. translateAndCompress(r.pending, msg) = appendAndCompress(r.pending, msg)
    BY DEF translateAndCompress, Kinds
  <2>2. appendAndCompress(r.pending, msg).list \in Seq(Message)
    BY <1>2, appendAndCompressType DEF Outcomes
  <2>3. Round(sig, s, msg).list = appendAndCompress(r.pending, msg).list \o <<>>
    BY <1>5, <2>1 DEF Round
  <2> QED  BY <2>2, <2>3
<1>7. Enqueued(sig, r.pending, <<msg>>).list = appendAndCompress(r.pending, msg).list
  <2>1. Enqueued(sig, r.pending, <<msg>>) = Iterate(step, s, 1)
    BY <1>1, <1>4 DEF Enqueued
  <2>2. s \in D /\ s.next = 1
    BY <1>2
  <2>3. step[s].list = Round(sig, s, <<msg>>[1]).list
    BY <1>4, <2>2
  <2> HIDE DEF step, s
  <2>4. Iterate(step, s, 1) = step[s]
    BY IterateOnce
  <2> QED  BY <1>1, <1>6, <2>1, <2>3, <2>4 DEF s
<1>8. slotNotify(r, sig, <<msg>>, w).pending =
        IF wanted = <<>> THEN r.pending ELSE Enqueued(sig, r.pending, wanted).list
  BY <1>1, slotNotifyEnqueues
<1>9. <<msg>> # <<>>
  OBVIOUS
<1> HIDE DEF wanted
<1> QED  BY <1>4, <1>7, <1>8, <1>9

-----------------------------------------------------------------------------
(* What the methods of the recorder do in these circumstances *)

\* An empty list takes a message as it is.
LEMMA AppendToNone ==
  ASSUME NEW msg \in Message
  PROVE  appendAndCompress(<<>>, msg) = Outcome(<<msg>>, 1)
<1>1. FirstIn(<<>>, Stops(<<>>, msg)) = 0
  BY DEF FirstIn
<1>2. Purged(<<>>, msg) = <<>>
  <2> DEFINE p == Purged(<<>>, msg)
  <2>1. <<>> \in Seq(Message) /\ Len(<<>>) = 0
    OBVIOUS
  <2>2. p \in Seq(Message) /\ Len(p) <= Len(<<>>)
    BY <2>1, KeepType, KeepShortens DEF Purged
  <2> HIDE DEF p
  <2>3. p = <<>>
    BY <2>1, <2>2
  <2> QED  BY <2>3 DEF p
<1>3. Append(<<>>, msg) = <<msg>>
  OBVIOUS
<1> QED  BY <1>1, <1>2, <1>3 DEF appendAndCompress

\* Where replayNext() can stand if all that is recorded is heard: it never skips a
\* change, so the list is as it was, and what waits for its data is the first change.
Still(r) ==
  {x \in [r : Recorder, said : Said] :
     /\ x.r.pending = r.pending
     /\ x.said # "fault"
     /\ x.said = "again" => x.r.pipeline = <<>>
     /\ x.said = "emitted" => r.pending # <<>>
     /\ \/ x.r.pipeline = <<>>
        \/ r.pending # <<>> /\ x.r.pipeline = <<Head(r.pending)>>}

\* A round of the loop in replayNext() leaves the list as it is, ...
LEMMA ReplayOneStill ==
  ASSUME NEW r \in Recorder, NEW sig, Attentive(sig), Shape(r.pending), NEW w \in BOOLEAN,
         NEW cached, NEW x \in Still(r), x.said = "again"
  PROVE  ReplayOne(x.r, sig, cached, w) \in Still(r)
<1> DEFINE s == x.r
           msg == Head(s.pending)
           filled == translateAndCompress(s.pipeline, msg)
           p == [s EXCEPT !.pipeline = filled.list]
           next == ReplayOne(s, sig, cached, w)
<1>1. s \in Recorder /\ s.pending = r.pending /\ s.pipeline = <<>> /\ s.pending \in Seq(Message)
  BY DEF Still, Recorder
<1> HIDE DEF s
<1>2. CASE s.pending = <<>>
  <2>1. next = At(s, "nothing")
    BY <1>2 DEF ReplayOne
  <2> QED  BY <1>1, <2>1 DEF Still, At, Said, s
<1>3. CASE s.pending # <<>>
  <2>1. msg \in Message /\ msg.op \in Kinds /\ msg.type = "Items"
    BY <1>1, <1>3 DEF Shape
  <2>2. Hears(sig, msg)
    BY <2>1 DEF Hears, Attentive, Kinds, One, Many
  <2>3. filled = Outcome(<<msg>>, 1)
    BY <1>1, <2>1, AppendToNone DEF translateAndCompress, Kinds
  <2> HIDE DEF msg
  <2>4. filled.appended > 0 /\ filled.list = <<msg>>
    BY <2>3 DEF Outcome
  <2> HIDE DEF filled
  <2>5. next = IF msg \in cached THEN At(s, "emitted") ELSE At(p, "waiting")
    BY <1>3, <2>2, <2>4 DEF ReplayOne, msg, filled
  <2>6. /\ p \in Recorder /\ p.pending = s.pending /\ p.pipeline = <<msg>>
    <3>1. <<msg>> \in Seq(Message)
      BY <2>1
    <3> QED  BY <1>1, <2>4, <3>1 DEF Recorder
  <2> HIDE DEF p, next
  <2>7. CASE msg \in cached
    <3>1. next.r = s /\ next.said = "emitted" /\ next \in [r : Recorder, said : Said]
      BY <1>1, <2>5, <2>7 DEF At, Said
    <3>2. next \in Still(r)
      BY <1>1, <1>3, <3>1 DEF Still
    <3> QED  BY <3>2 DEF next, s
  <2>8. CASE msg \notin cached
    <3>1. next.r = p /\ next.said = "waiting" /\ next \in [r : Recorder, said : Said]
      BY <2>5, <2>6, <2>8 DEF At, Said
    <3>2. next \in Still(r)
      BY <1>1, <1>3, <2>6, <3>1 DEF Still, msg
    <3> QED  BY <3>2 DEF next, s
  <2> QED  BY <2>7, <2>8
<1> QED  BY <1>2, <1>3

\* ... and so does the loop, in these circumstances.
LEMMA replayNextStill ==
  ASSUME NEW r \in Recorder, NEW sig, Attentive(sig), Shape(r.pending), NEW w \in BOOLEAN,
         NEW cached, r.pipeline = <<>>
  PROVE  replayNext(r, sig, cached, w) \in Still(r)
<1> DEFINE step == [x \in [r : Recorder, said : Said] |->
                      IF x.said = "again" THEN ReplayOne(x.r, sig, cached, w) ELSE x]
           n == Len(r.pending) + 1
           Holds == [i \in 0..n |-> Still(r)]
<1>1. replayNext(r, sig, cached, w) = Iterate(step, At(r, "again"), n)
  BY DEF replayNext
<1>2. n \in Nat
  BY DEF Recorder
<1>3. At(r, "again") \in Still(r)
  BY DEF Still, At, Said
<1>4. ASSUME NEW x \in Still(r) PROVE step[x] \in Still(r)
  <2>1. x \in [r : Recorder, said : Said]
    BY DEF Still
  <2>2. x.said = "again" => ReplayOne(x.r, sig, cached, w) \in Still(r)
    BY ReplayOneStill
  <2>3. step[x] = IF x.said = "again" THEN ReplayOne(x.r, sig, cached, w) ELSE x
    BY <2>1
  <2> HIDE DEF step
  <2> QED  BY <2>2, <2>3
<1> HIDE DEF step, n
<1>5. At(r, "again") \in Holds[0] /\ Holds[n] = Still(r)
  BY <1>2, <1>3
<1>6. \A i \in 0..(n-1) : \A x \in Holds[i] : step[x] \in Holds[i+1]
  BY <1>2, <1>4
<1> HIDE DEF Holds
<1>7. Iterate(step, At(r, "again"), n) \in Holds[n]
  BY <1>2, <1>5, <1>6, IterateHolds
<1> QED  BY <1>1, <1>5, <1>7

\* Cleaning adds nothing to the pipeline.
LEMMA CleanAddsNothing ==
  ASSUME NEW sig, NEW r \in Recorder, NEW w
  PROVE  Elements(cleanOldNotifications(r, sig, w).pipeline) \subseteq Elements(r.pipeline)
<1> DEFINE kept == StillHeard(sig, r.pipeline)
           c == [r EXCEPT !.pipeline = kept, !.pending = StillHeard(sig, r.pending)]
           clean == cleanOldNotifications(r, sig, w)
<1>1. r.pipeline \in Seq(Message) /\ r.pending \in Seq(Message)
  BY DEF Recorder
<1>2. kept \in Seq(Message) /\ StillHeard(sig, r.pending) \in Seq(Message)
  BY <1>1, StillHeardType
<1>3. Elements(kept) \subseteq Elements(r.pipeline)
  <2> DEFINE S == {m \in Elements(r.pipeline) : ~isLazilyIgnored(sig, m, FALSE)}
  <2>1. kept = Keep(r.pipeline, S)
    BY DEF StillHeard
  <2> HIDE DEF S, kept
  <2>2. \A i \in DOMAIN kept : \E j \in DOMAIN r.pipeline : kept[i] = r.pipeline[j]
    <3> DEFINE q == r.pipeline
    <3>1. q \in Seq(Message) /\ kept = Keep(q, S)
      BY <1>1, <2>1
    <3> HIDE DEF q
    <3>2. PICK g \in [DOMAIN kept -> DOMAIN q] :
            /\ kept \in Seq(Message)
            /\ \A i \in DOMAIN kept : kept[i] = q[g[i]]
            /\ \A i, j \in DOMAIN kept : i < j => g[i] < g[j]
            /\ \A j \in DOMAIN q : q[j] \in S => \E i \in DOMAIN kept : g[i] = j
      BY <3>1, KeepEmbeds
    <3> QED  BY <3>2 DEF q
  <2> QED  BY <2>2 DEF Elements
<1> HIDE DEF kept
<1>4. c \in Recorder /\ c.pipeline = kept
  BY <1>2 DEF Recorder
<1>5. clean = IF c.pipeline = r.pipeline /\ c.pending = r.pending THEN r
              ELSE notificationsErased(c, w)
  BY DEF cleanOldNotifications, kept
<1> HIDE DEF c, clean
<1>6. notificationsErased(c, w).pipeline = kept
  BY <1>4, SavingKeepsLists
<1>7. clean.pipeline = r.pipeline \/ clean.pipeline = kept
  BY <1>5, <1>6
<1> QED  BY <1>3, <1>7 DEF clean

\* What is emitted was in the pipeline.
EmittingOf(r, w) ==
  {x \in Emitting(r, w) : Elements(x.r.pipeline) \cup Elements(x.emitted) \subseteq Elements(r.pipeline)}

\* A round of the loop in flushPipeline(), ...
LEMMA FlushOneEmitsOf ==
  ASSUME NEW r, NEW sig, r.pending \in Seq(Fit(sig)), Len(r.pipeline) \in Nat,
         NEW w \in BOOLEAN, NEW x \in EmittingOf(r, w)
  PROVE  FlushOne(x, sig, w) \in EmittingOf(r, w)
<1> DEFINE msg == Head(x.r.pipeline)
           taken == [x.r EXCEPT !.pipeline = Tail(x.r.pipeline)]
           clean == cleanOldNotifications(taken, sig, w)
           next == FlushOne(x, sig, w)
<1>1. /\ x \in Emitting(r, w) /\ x \in [r : Recorder, emitted : Seq(Message)]
      /\ x.r \in Recorder /\ x.emitted \in Seq(Message) /\ x.r.pipeline \in Seq(Message)
      /\ Elements(x.r.pipeline) \subseteq Elements(r.pipeline)
      /\ Elements(x.emitted) \subseteq Elements(r.pipeline)
  BY DEF EmittingOf, Emitting, Flushed, Recorder
<1>2. next \in Emitting(r, w)
  BY <1>1, FlushOneEmits
<1>3. CASE x.r.pipeline = <<>>
  BY <1>3 DEF FlushOne
<1>4. CASE x.r.pipeline # <<>>
  <2>1. /\ msg \in Message /\ Tail(x.r.pipeline) \in Seq(Message)
        /\ msg \in Elements(x.r.pipeline)
        /\ Elements(Tail(x.r.pipeline)) \subseteq Elements(x.r.pipeline)
    BY <1>1, <1>4 DEF Elements
  <2>2. taken \in Recorder /\ taken.pipeline = Tail(x.r.pipeline)
    BY <1>1, <2>1 DEF Recorder
  <2>3. next = IF Hears(sig, msg) THEN [r |-> taken, emitted |-> Append(x.emitted, msg)]
               ELSE [x EXCEPT !.r = clean]
    BY <1>4 DEF FlushOne
  <2> HIDE DEF taken, msg, next
  <2>4. CASE Hears(sig, msg)
    <3>1. next.r = taken /\ next.emitted = Append(x.emitted, msg)
      BY <2>3, <2>4
    <3>2. Elements(Append(x.emitted, msg)) = Elements(x.emitted) \cup {msg}
      BY <1>1, <2>1, AppendElements
    <3>3. Elements(next.r.pipeline) \cup Elements(next.emitted) \subseteq Elements(r.pipeline)
      BY <1>1, <2>1, <2>2, <3>1, <3>2
    <3> QED  BY <1>2, <3>3 DEF EmittingOf, next
  <2>5. CASE ~Hears(sig, msg)
    <3>1. Elements(clean.pipeline) \subseteq Elements(taken.pipeline)
      BY <2>2, CleanAddsNothing
    <3> HIDE DEF clean
    <3>2. next.r = clean /\ next.emitted = x.emitted
      BY <1>1, <2>3, <2>5
    <3>3. Elements(next.r.pipeline) \cup Elements(next.emitted) \subseteq Elements(r.pipeline)
      BY <1>1, <2>1, <2>2, <3>1, <3>2
    <3> QED  BY <1>2, <3>3 DEF EmittingOf, next
  <2> QED  BY <2>4, <2>5
<1> QED  BY <1>3, <1>4

\* ... and the loop.
LEMMA flushPipelineEmitsOf ==
  ASSUME NEW r, Sound(r), NEW sig, r.pending \in Seq(Fit(sig)), NEW n \in Nat,
         NEW w \in BOOLEAN
  PROVE  flushPipeline(r, sig, n, w) \in EmittingOf(r, w)
<1> DEFINE step == [x \in [r : Recorder, emitted : Seq(Message)] |-> FlushOne(x, sig, w)]
           s == [r |-> r, emitted |-> <<>>]
           Holds == [i \in 0..n |-> EmittingOf(r, w)]
<1>1. flushPipeline(r, sig, n, w) = Iterate(step, s, n)
  BY DEF flushPipeline
<1>2. r.pipeline \in Seq(Message) /\ Len(r.pipeline) \in Nat
  BY DEF Sound, Recorder
<1>3. s \in EmittingOf(r, w)
  <2>1. s \in Flushed(r, w)
    BY DEF Flushed, Keeps, Sound
  <2>2. Len(<<>>) = 0 /\ Len(r.pipeline) + 0 <= Len(r.pipeline)
    BY <1>2
  <2>3. s \in Emitting(r, w)
    BY <2>1, <2>2 DEF Emitting
  <2>4. Elements(<<>>) = {}
    BY DEF Elements
  <2> QED  BY <2>3, <2>4 DEF EmittingOf
<1>4. ASSUME NEW x \in EmittingOf(r, w) PROVE step[x] \in EmittingOf(r, w)
  <2>1. x \in [r : Recorder, emitted : Seq(Message)]
    BY DEF EmittingOf, Emitting, Flushed
  <2>2. step[x] = FlushOne(x, sig, w)
    BY <2>1
  <2> HIDE DEF step
  <2> QED  BY <1>2, <2>2, FlushOneEmitsOf
<1> HIDE DEF step, s
<1>5. s \in Holds[0] /\ Holds[n] = EmittingOf(r, w)
  BY <1>3
<1>6. \A i \in 0..(n-1) : \A x \in Holds[i] : step[x] \in Holds[i+1]
  BY <1>4
<1> HIDE DEF Holds
<1>7. Iterate(step, s, n) \in Holds[n]
  BY <1>5, <1>6, IterateHolds
<1> QED  BY <1>1, <1>5, <1>7

-----------------------------------------------------------------------------
(* What clients do to the items *)

\* What a change of which clients tell so does to an item.
Touched(msg, i, c, after) ==
  \/ /\ msg.op = "Add" /\ msg.entities = {i}
     /\ c = Absent /\ i \notin DOMAIN AtFirst
     /\ after = [there |-> TRUE, body |-> 1, flags |-> {}]
  \/ /\ msg.op = "Modify" /\ msg.entities = {i}
     /\ c.there /\ after = [c EXCEPT !.body = c.body + 1]
  \/ /\ msg.op = "ModifyFlags"
     /\ c.there /\ after.there /\ after.body = c.body
     /\ \A x \in Marks : TrueOf(msg, x, c.flags, after.flags)
  \/ /\ msg.op = "Remove"
     /\ c.there /\ ~after.there /\ after.body = c.body

\* A change of the flags of some items.
LEMMA FlagTouches ==
  ASSUME cache \in Store, NEW S \in SUBSET Entities, NEW plus \in SUBSET Marks,
         NEW minus \in SUBSET Marks, Flag(S, plus, minus)
  PROVE  /\ cache' \in Store
         /\ \A i \in Entities \ S : cache'[i] = cache[i]
         /\ \A i \in S : /\ cache'[i].there = cache[i].there /\ cache'[i].body = cache[i].body
                         /\ cache'[i].flags = (cache[i].flags \cup plus) \ minus
<1>1. cache' = [i \in Entities |->
                  IF i \in S THEN [cache[i] EXCEPT !.flags = (cache[i].flags \cup plus) \ minus]
                  ELSE cache[i]]
  BY DEF Flag
<1>2. ASSUME NEW i \in Entities PROVE cache[i] \in Data
  BY DEF Store
<1>3. ASSUME NEW c \in Data
      PROVE  LET d == [c EXCEPT !.flags = (c.flags \cup plus) \ minus]
             IN /\ d \in Data /\ d.there = c.there /\ d.body = c.body
                /\ d.flags = (c.flags \cup plus) \ minus
  BY DEF Data
<1>4. \A i \in Entities \ S : cache'[i] = cache[i]
  BY <1>1
<1>5. ASSUME NEW i \in S
      PROVE  /\ cache'[i] \in Data /\ cache'[i].there = cache[i].there
             /\ cache'[i].body = cache[i].body
             /\ cache'[i].flags = (cache[i].flags \cup plus) \ minus
  <2> DEFINE c == cache[i]
             d == [c EXCEPT !.flags = (c.flags \cup plus) \ minus]
  <2>1. cache'[i] = d /\ c \in Data
    BY <1>1, <1>2
  <2> HIDE DEF c
  <2>2. d \in Data /\ d.there = c.there /\ d.body = c.body /\ d.flags = (c.flags \cup plus) \ minus
    BY <1>3, <2>1
  <2> QED  BY <2>1, <2>2 DEF c
<1>6. cache' \in Store
  <2>1. ASSUME NEW i \in Entities PROVE cache'[i] \in Data
    BY <1>2, <1>4, <1>5
  <2> QED  BY <1>1, <2>1 DEF Store
<1> QED  BY <1>4, <1>5, <1>6

\* What clients do to the items.
Touches(tiding) ==
  \/ \E i \in Entities : Create(i, tiding) \/ Edit(i, tiding)
  \/ \E S \in workload.groups :
       /\ \A i \in S : cache[i].there
       /\ \/ Delete(S, tiding)
          \/ \E flags \in SUBSET Marks : SetFlags(S, flags, tiding) \/ RemoveFlags(S, flags, tiding)
          \/ \E x \in Marks : AppendFlag(S, x, tiding)

TouchesRight(tiding) ==
  /\ tiding.op \in Kinds
  /\ tiding.op \in {"Add", "Modify"} => \E e \in Entities : tiding.entities = {e}
  /\ cache' \in Store
  /\ \A i \in Entities \ tiding.entities : cache'[i] = cache[i]
  /\ \A i \in tiding.entities : Touched(tiding, i, cache[i], cache'[i])

\* Each thing a client does changes the items the tiding names, and no other, as
\* the tiding says: an item is created, ...
LEMMA CreateTouches ==
  ASSUME cache \in Store, NEW i \in Entities, NEW tiding, Create(i, tiding)
  PROVE  TouchesRight(tiding)
<1>1. tiding.op = "Add" /\ tiding.entities = {i}
  BY DEF Create, Tells
<1>2. /\ cache[i] = Absent /\ i \notin DOMAIN AtFirst
      /\ cache' = [cache EXCEPT ![i] = [there |-> TRUE, body |-> 1, flags |-> {}]]
  BY DEF Create
<1>3. [there |-> TRUE, body |-> 1, flags |-> {}] \in Data
  BY DEF Data
<1>4. cache' \in Store /\ \A j \in Entities \ {i} : cache'[j] = cache[j]
  BY <1>2, <1>3 DEF Store
<1>5. cache'[i] = [there |-> TRUE, body |-> 1, flags |-> {}]
  BY <1>2 DEF Store
<1> QED  BY <1>1, <1>2, <1>4, <1>5 DEF TouchesRight, Touched, Kinds

\* ... is changed, ...
LEMMA EditTouches ==
  ASSUME cache \in Store, NEW i \in Entities, NEW tiding, Edit(i, tiding)
  PROVE  TouchesRight(tiding)
<1> DEFINE c == cache[i]
           after == [c EXCEPT !.body = c.body + 1]
<1>1. tiding.op = "Modify" /\ tiding.entities = {i}
  BY DEF Edit, Tells
<1>2. c \in Data /\ c.there
  BY DEF Edit, Store
<1>3. cache' = [cache EXCEPT ![i] = after]
  <2>1. cache' = [cache EXCEPT ![i].body = cache[i].body + 1]
    BY DEF Edit
  <2> QED  BY <2>1 DEF Store
<1> HIDE DEF c
<1>4. after \in Data
  BY <1>2 DEF Data
<1> HIDE DEF after
<1>5. cache' \in Store /\ \A j \in Entities \ {i} : cache'[j] = cache[j]
  BY <1>3, <1>4 DEF Store
<1>6. cache'[i] = after
  BY <1>3 DEF Store
<1>7. Touched(tiding, i, cache[i], cache'[i])
  BY <1>1, <1>2, <1>6 DEF Touched, c, after
<1> QED  BY <1>1, <1>5, <1>7 DEF TouchesRight, Kinds

\* ... or is deleted; ...
LEMMA DeleteTouches ==
  ASSUME cache \in Store, NEW S \in SUBSET Entities, \A i \in S : cache[i].there,
         NEW tiding, Delete(S, tiding)
  PROVE  TouchesRight(tiding)
<1>1. tiding.op = "Remove" /\ tiding.entities = S
  BY DEF Delete, Tells
<1>2. cache' = [i \in Entities |->
                  IF i \in S THEN [cache[i] EXCEPT !.there = FALSE] ELSE cache[i]]
  BY DEF Delete
<1>3. ASSUME NEW i \in Entities PROVE cache[i] \in Data
  BY DEF Store
<1>4. ASSUME NEW c \in Data
      PROVE  LET d == [c EXCEPT !.there = FALSE]
             IN d \in Data /\ ~d.there /\ d.body = c.body
  BY DEF Data
<1>5. ASSUME NEW i \in S
      PROVE  cache'[i] \in Data /\ ~cache'[i].there /\ cache'[i].body = cache[i].body
  <2> DEFINE c == cache[i]
             d == [c EXCEPT !.there = FALSE]
  <2>1. cache'[i] = d /\ c \in Data
    BY <1>2, <1>3
  <2> HIDE DEF c
  <2>2. d \in Data /\ ~d.there /\ d.body = c.body
    BY <1>4, <2>1
  <2> QED  BY <2>1, <2>2 DEF c
<1>6. \A i \in Entities \ S : cache'[i] = cache[i]
  BY <1>2
<1>7. cache' \in Store
  <2>1. ASSUME NEW i \in Entities PROVE cache'[i] \in Data
    BY <1>3, <1>5, <1>6
  <2> QED  BY <1>2, <2>1 DEF Store
<1>8. ASSUME NEW i \in S PROVE Touched(tiding, i, cache[i], cache'[i])
  BY <1>1, <1>5 DEF Touched
<1> QED  BY <1>1, <1>6, <1>7, <1>8 DEF TouchesRight, Kinds

\* A change of flags is told as it was.
LEMMA FlagsTouch ==
  ASSUME cache \in Store, NEW S \in SUBSET Entities, \A i \in S : cache[i].there,
         NEW plus \in SUBSET Marks, NEW minus \in SUBSET Marks, Flag(S, plus, minus),
         NEW tiding, tiding.op = "ModifyFlags", tiding.entities = S,
         tiding.added \subseteq plus, tiding.added \cap minus = {}, tiding.removed = minus,
         \A i \in S : plus \ minus \subseteq cache[i].flags \cup tiding.added
  PROVE  TouchesRight(tiding)
<1>1. /\ cache' \in Store
      /\ \A i \in Entities \ S : cache'[i] = cache[i]
      /\ \A i \in S : /\ cache'[i].there = cache[i].there /\ cache'[i].body = cache[i].body
                      /\ cache'[i].flags = (cache[i].flags \cup plus) \ minus
  BY FlagTouches
<1>2. ASSUME NEW i \in S, NEW x \in Marks PROVE TrueOf(tiding, x, cache[i].flags, cache'[i].flags)
  <2> DEFINE before == cache[i].flags
             after == cache'[i].flags
  <2>1. after = (before \cup plus) \ minus
    BY <1>1
  <2>2. plus \ minus \subseteq before \cup tiding.added
    OBVIOUS
  <2> HIDE DEF before, after
  <2>3. TrueOf(tiding, x, before, after)
    BY <2>1, <2>2 DEF TrueOf
  <2> QED  BY <2>3 DEF before, after
<1>3. ASSUME NEW i \in S PROVE Touched(tiding, i, cache[i], cache'[i])
  BY <1>1, <1>2 DEF Touched
<1> QED  BY <1>1, <1>3 DEF TouchesRight, Kinds

\* ... flags are set, ...
LEMMA SetFlagsTouches ==
  ASSUME cache \in Store, NEW S \in SUBSET Entities, \A i \in S : cache[i].there,
         NEW flags \in SUBSET Marks, NEW tiding, SetFlags(S, flags, tiding)
  PROVE  TouchesRight(tiding)
<1> DEFINE plus == {x \in flags : \E i \in S : x \notin cache[i].flags}
           minus == (UNION {cache[i].flags : i \in S}) \ flags
<1>1. Tells(tiding, "ModifyFlags", S, plus, minus) /\ Flag(S, flags, minus)
  BY DEF SetFlags
<1>2. minus \in SUBSET Marks
  BY DEF Store, Data
<1>3. plus \subseteq flags /\ plus \cap minus = {}
  OBVIOUS
<1>4. ASSUME NEW i \in S PROVE flags \ minus \subseteq cache[i].flags \cup plus
  <2> HIDE DEF minus
  <2> QED  OBVIOUS
<1> HIDE DEF plus, minus
<1>5. /\ tiding.op = "ModifyFlags" /\ tiding.entities = S /\ tiding.added = plus
      /\ tiding.removed = minus
  BY <1>1 DEF Tells
<1> QED  BY <1>1, <1>2, <1>3, <1>4, <1>5, FlagsTouch

\* ... removed, ...
LEMMA RemoveFlagsTouches ==
  ASSUME cache \in Store, NEW S \in SUBSET Entities, \A i \in S : cache[i].there,
         NEW flags \in SUBSET Marks, NEW tiding, RemoveFlags(S, flags, tiding)
  PROVE  TouchesRight(tiding)
<1>1. Tells(tiding, "ModifyFlags", S, {}, flags) /\ Flag(S, {}, flags)
  BY DEF RemoveFlags
<1>2. /\ tiding.op = "ModifyFlags" /\ tiding.entities = S /\ tiding.added = {}
      /\ tiding.removed = flags
  BY <1>1 DEF Tells
<1> QED  BY <1>1, <1>2, FlagsTouch

\* ... or one is added.
LEMMA AppendFlagTouches ==
  ASSUME cache \in Store, NEW S \in SUBSET Entities, \A i \in S : cache[i].there,
         NEW x \in Marks, NEW tiding, AppendFlag(S, x, tiding)
  PROVE  TouchesRight(tiding)
<1> DEFINE lacking == {i \in S : x \notin cache[i].flags}
<1>1. Tells(tiding, "ModifyFlags", lacking, {x}, {}) /\ Flag(lacking, {x}, {})
  BY DEF AppendFlag
<1>2. lacking \in SUBSET Entities /\ \A i \in lacking : cache[i].there
  OBVIOUS
<1> HIDE DEF lacking
<1>3. /\ tiding.op = "ModifyFlags" /\ tiding.entities = lacking /\ tiding.added = {x}
      /\ tiding.removed = {}
  BY <1>1 DEF Tells
<1>4. /\ {x} \in SUBSET Marks /\ {} \in SUBSET Marks /\ {x} \cap {} = {}
      /\ \A i \in lacking : {x} \ {} \subseteq cache[i].flags \cup tiding.added
  BY <1>3
<1> QED  BY <1>1, <1>2, <1>3, <1>4, FlagsTouch

\* So whatever a client does.
LEMMA ClientsTouch ==
  ASSUME cache \in Store, workload \in Workloads, NEW tiding, Touches(tiding)
  PROVE  TouchesRight(tiding)
<1>1. workload.groups \subseteq SUBSET Entities
  BY ReplayAssumption
<1>2. ASSUME NEW i \in Entities, Create(i, tiding) \/ Edit(i, tiding) PROVE TouchesRight(tiding)
  BY <1>2, CreateTouches, EditTouches
<1>3. ASSUME NEW S \in workload.groups, \A i \in S : cache[i].there,
             \/ Delete(S, tiding)
             \/ \E flags \in SUBSET Marks : SetFlags(S, flags, tiding) \/ RemoveFlags(S, flags, tiding)
             \/ \E x \in Marks : AppendFlag(S, x, tiding)
      PROVE  TouchesRight(tiding)
  <2>1. S \in SUBSET Entities
    BY <1>1
  <2>2. CASE Delete(S, tiding)
    BY <1>3, <2>1, <2>2, DeleteTouches
  <2>3. CASE \E flags \in SUBSET Marks : SetFlags(S, flags, tiding) \/ RemoveFlags(S, flags, tiding)
    BY <1>3, <2>1, <2>3, SetFlagsTouches, RemoveFlagsTouches
  <2>4. CASE \E x \in Marks : AppendFlag(S, x, tiding)
    BY <1>3, <2>1, <2>4, AppendFlagTouches
  <2> QED  BY <1>3, <2>2, <2>3, <2>4
<1> QED  BY <1>2, <1>3 DEF Touches

-----------------------------------------------------------------------------
(* What the agent is told of it, and what becomes of the items *)

\* What clients tell of is a change of items that is queued as it is.
LEMMA ToldRight ==
  ASSUME workload \in Workloads, NEW tiding \in Tidings, NEW s \in workload.sessions,
         TouchesRight(tiding)
  PROVE  LET msg == Told(tiding, s)
         IN /\ msg \in Message /\ msg.type = "Items" /\ msg.op \in Kinds
            /\ msg.entities # {} /\ msg.entities \subseteq Entities
            /\ Single(msg) /\ TouchesRight(msg) /\ Shape(<<msg>>)
<1> DEFINE msg == Told(tiding, s)
<1>1. /\ workload.kinds \subseteq Operation /\ s \in Sessions
      /\ tiding.op \in Operation /\ tiding.entities \subseteq Entities /\ tiding.entities # {}
      /\ tiding.added \subseteq Marks /\ tiding.removed \subseteq Marks
  <2>1. /\ workload.kinds \subseteq Operation /\ workload.sessions \subseteq Sessions
    BY ReplayAssumption
  <2> QED  BY <2>1 DEF Tidings
<1>2. /\ msg.op = tiding.op /\ msg.entities = tiding.entities /\ msg.type = "Items"
      /\ msg.added = tiding.added /\ msg.removed = tiding.removed
  BY DEF Told
<1>3. msg \in Message
  <2> DEFINE parts == IF tiding.op = "Modify" THEN {"PLD:RFC822"} ELSE {}
  <2>1. parts \subseteq Parts \cup {"FLAGS"} /\ Home \in Collections
    BY ReplayAssumption
  <2>2. msg = [type |-> "Items", op |-> tiding.op, entities |-> tiding.entities, session |-> s,
               parent |-> Home, dest |-> None, parts |-> parts,
               added |-> tiding.added, removed |-> tiding.removed]
    BY DEF Told
  <2> HIDE DEF parts, msg
  <2> QED  BY <1>1, <2>1, <2>2 DEF Message
<1> HIDE DEF msg
<1>4. TouchesRight(msg)
  <2>1. ASSUME NEW i, NEW c, NEW after, Touched(tiding, i, c, after)
        PROVE  Touched(msg, i, c, after)
    <3>1. \A x, before, now : TrueOf(tiding, x, before, now) => TrueOf(msg, x, before, now)
      BY <1>2 DEF TrueOf
    <3> QED  BY <1>2, <2>1, <3>1 DEF Touched
  <2> QED  BY <1>2, <2>1 DEF TouchesRight
<1>5. Single(msg) /\ msg.op \in Kinds
  BY <1>4 DEF TouchesRight, Single
<1>6. Shape(<<msg>>)
  BY <1>1, <1>2, <1>5 DEF Shape
<1> QED  BY <1>1, <1>2, <1>3, <1>4, <1>5, <1>6 DEF msg

\* An item that is changed lives on.
LEMMA TouchedLives ==
  ASSUME NEW q, NEW msg, NEW i, NEW c \in Data, NEW after, Life(q, i, c),
         Touched(msg, i, c, after)
  PROVE  /\ i \notin DOMAIN AtFirst => after # Absent /\ after.body > 0
         /\ after.there => msg.op # "Remove" /\ \A k \in DOMAIN q : ~Removes(q[k], i)
         /\ msg.op = "Add" => \A k \in DOMAIN q : i \notin q[k].entities
<1>1. c.body \in Nat
  BY DEF Data
<1>2. CASE msg.op = "Add"
  <2>1. /\ c = Absent /\ i \notin DOMAIN AtFirst
        /\ after = [there |-> TRUE, body |-> 1, flags |-> {}]
    BY <1>2 DEF Touched
  <2>2. \A k \in DOMAIN q : i \notin q[k].entities
    BY <2>1 DEF Life
  <2>3. \A k \in DOMAIN q : ~Removes(q[k], i)
    BY <2>2 DEF Removes
  <2>4. after.body > 0 /\ Absent.body = 0
    BY <2>1 DEF Absent
  <2> QED  BY <1>2, <2>2, <2>3, <2>4
<1>3. CASE msg.op # "Add"
  <2>1. c.there
    BY <1>3 DEF Touched
  <2>2. \A k \in DOMAIN q : ~Removes(q[k], i)
    BY <2>1 DEF Life
  <2>3. ~Absent.there /\ Absent.body = 0
    BY DEF Absent
  <2>4. i \notin DOMAIN AtFirst => c.body > 0
    BY <2>1, <2>3 DEF Life
  <2>5. after.body = c.body \/ after.body = c.body + 1
    BY <1>3 DEF Touched, Data
  <2>6. i \notin DOMAIN AtFirst => after.body > 0
    BY <1>1, <2>4, <2>5
  <2>7. i \notin DOMAIN AtFirst => after # Absent
    BY <2>3, <2>6
  <2>8. after.there => msg.op # "Remove"
    BY DEF Touched
  <2> QED  BY <1>3, <2>2, <2>6, <2>7, <2>8
<1> QED  BY <1>2, <1>3

\* A change is true of an item, and can be recorded as what was done.
Tellable(q, msg, i, c, after, late, later) ==
  /\ Shape(q) /\ Life(q, i, c) /\ Touched(msg, i, c, after)
  /\ late => later
  /\ ~later => \A x \in Marks : News(msg, x, c.flags)
  /\ LET j == FirstIn(q, Stops(q, msg)) IN j \in DOMAIN q => Clearly(q, j, msg, later)

\* A change that is recorded keeps the record right about the items it is of.
LEMMA TouchedIsRight ==
  ASSUME NEW q \in Seq(Message), NEW msg \in Message, NEW i \in msg.entities,
         NEW c \in Data, NEW after, NEW d, NEW late, NEW later,
         Tellable(q, msg, i, c, after, late, later), ItemRight(q, 0, i, c, d, late)
  PROVE  ItemRight(appendAndCompress(q, msg).list, 0, i, after, d, later)
<1>0. /\ Shape(q) /\ Life(q, i, c) /\ Touched(msg, i, c, after)
      /\ late => later
      /\ ~later => \A x \in Marks : News(msg, x, c.flags)
      /\ LET j == FirstIn(q, Stops(q, msg)) IN j \in DOMAIN q => Clearly(q, j, msg, later)
  BY DEF Tellable
<1>1. \A k \in DOMAIN q : q[k].op \in Kinds
  BY <1>0 DEF Shape
<1>2. CASE msg.op = "Add"
  <2>1. c = Absent /\ i \notin DOMAIN AtFirst /\ after = [there |-> TRUE, body |-> 1, flags |-> {}]
    BY <1>0, <1>2 DEF Touched
  <2>2. \A k \in DOMAIN q : i \notin q[k].entities
    BY <1>0, <2>1 DEF Life
  <2>3. after.there /\ after.flags = {}
    BY <2>1
  <2> QED  BY <1>2, <2>2, <2>3, CreationRecorded
<1>3. CASE msg.op = "Modify"
  <2> DEFINE body == c.body + 1
  <2>1. msg.entities = {i} /\ c.there /\ after = [c EXCEPT !.body = body]
    BY <1>0, <1>3 DEF Touched
  <2>2. \A k \in DOMAIN q : ~Removes(q[k], i)
    BY <1>0, <2>1 DEF Life
  <2>3. \A k \in DOMAIN q : q[k].op \in {"Add", "Modify", "ModifyFlags", "Remove"}
    BY <1>1 DEF Kinds
  <2> HIDE DEF body
  <2>4. ItemRight(appendAndCompress(q, msg).list, 0, i, [c EXCEPT !.body = body], d, later)
    BY <1>3, <2>1, <2>2, <2>3, <1>0, ModificationRecorded
  <2> QED  BY <2>1, <2>4
<1>4. CASE msg.op = "ModifyFlags"
  <2>1. /\ c.there /\ after.there /\ after.body = c.body
        /\ \A x \in Marks : TrueOf(msg, x, c.flags, after.flags)
    BY <1>0, <1>4 DEF Touched
  <2>2. \A k \in DOMAIN q : q[k].op \in Kinds /\ ~Removes(q[k], i)
    BY <1>0, <1>1, <2>1 DEF Life
  <2>3. \A k, l \in DOMAIN q : Adds(q[k], i) /\ l < k => i \notin q[l].entities
    BY <1>0 DEF Life
  <2> QED  BY <1>4, <2>1, <2>2, <2>3, <1>0, FlagsRecord
<1>5. CASE msg.op = "Remove"
  <2>1. ~after.there
    BY <1>0, <1>5 DEF Touched
  <2> QED  BY <1>5, <2>1, DeletionRecorded
<1> QED  BY <1>0, <1>2, <1>3, <1>4, <1>5 DEF Touched

-----------------------------------------------------------------------------
(* What the record accounts for *)

\* The message e is what d is, with the flags "plus" added already.
Shows(d, plus, e) ==
  /\ d.there = e.there
  /\ d.there => d.body = e.body /\ e.flags = d.flags \cup plus

\* There is data that the server would have of the item, had every change taken
\* effect that left the record, and the record accounts for the difference between
\* that and the cache; unless a change was lost, that is what the server has, or
\* had before it was given some flags.
Account(q, s, i, c, late, lost, plus, e) ==
  \E d \in Data : /\ ItemRight(q, s, i, c, d, late)
                  /\ lost \/ Shows(d, plus, e)

\* The first entry is a change of an item that is the one in the cache.
Heads(q, i, c) ==
  /\ q \in Seq(Message) /\ q # <<>> /\ i \in q[1].entities
  /\ \A k \in DOMAIN q : q[k].op \in Kinds
  /\ c \in Data
  /\ c.there => \A k \in DOMAIN q : ~Removes(q[k], i)

\* Whatever the first entry is, it may be taken as done for an item that is lost.
LEMMA DoneIsAccounted ==
  ASSUME NEW q, NEW i, NEW c, Heads(q, i, c), NEW late, NEW later, late => later,
         q[1].op \in {"Add", "Modify"} /\ c.there => later \/ Silent(q, i),
         NEW lost, NEW plus, NEW e, Account(q, 0, i, c, late, lost, plus, e),
         NEW more, NEW f
  PROVE  Account(q, 1, i, c, later, TRUE, more, f)
<1>1. PICK d \in Data : ItemRight(q, 0, i, c, d, late)
  BY DEF Account
<1>2. /\ q \in Seq(Message) /\ q # <<>> /\ i \in q[1].entities /\ c \in Data
      /\ \A k \in DOMAIN q : q[k].op \in Kinds
      /\ c.there => \A k \in DOMAIN q : ~Removes(q[k], i)
  BY DEF Heads
<1>3. ItemRight(q, 1, i, c, Repeated(d, q[1], c), later)
  BY <1>1, <1>2, RepeatedKeeps
<1>4. Repeated(d, q[1], c) \in Data
  <2>1. q[1] \in Message
    BY <1>2
  <2> QED  BY <1>2, <2>1, RepeatedType
<1> QED  BY <1>3, <1>4 DEF Account

\* An upload replaces what the server has.
LEMMA UploadIsAccounted ==
  ASSUME NEW q, NEW i, NEW c, Heads(q, i, c), NEW late, NEW later, late => later,
         q[1].op \in {"Add", "Modify"}, c.there, later \/ Silent(q, i),
         NEW lost, NEW plus, NEW e, Account(q, 0, i, c, late, lost, plus, e)
  PROVE  Account(q, 1, i, c, later, FALSE, {}, c)
<1>1. PICK d \in Data : ItemRight(q, 0, i, c, d, late)
  BY DEF Account
<1>2. /\ q \in Seq(Message) /\ q # <<>> /\ i \in q[1].entities /\ c \in Data
      /\ \A k \in DOMAIN q : q[k].op \in Kinds
      /\ c.there => \A k \in DOMAIN q : ~Removes(q[k], i)
  BY DEF Heads
<1>3. ItemRight(q, 1, i, c, Repeated(d, q[1], c), later)
  <2>1. q[1].op \in {"Add", "Modify"} /\ c.there => later \/ Silent(q, i)
    OBVIOUS
  <2> QED  BY <1>1, <1>2, <2>1, RepeatedKeeps
<1>4. Repeated(d, q[1], c) = c
  BY DEF Repeated
<1>5. Shows(c, {}, c)
  BY DEF Shows
<1> QED  BY <1>2, <1>3, <1>4, <1>5 DEF Account

\* An upload of an item that is gone does nothing.
LEMMA NothingIsAccounted ==
  ASSUME NEW q, NEW i, NEW c, Heads(q, i, c), NEW late,
         q[1].op \in {"Add", "Modify"}, ~c.there,
         NEW lost, NEW plus, NEW e, Account(q, 0, i, c, late, lost, plus, e)
  PROVE  Account(q, 1, i, c, late, lost, plus, e)
<1>1. PICK d \in Data : ItemRight(q, 0, i, c, d, late) /\ (lost \/ Shows(d, plus, e))
  BY DEF Account
<1>2. DOMAIN q \subseteq Nat
  BY DEF Heads
<1>3. \A k \in DOMAIN q : k > 0 /\ Removes(q[k], i) => k > 1
  <2>1. ~Removes(q[1], i)
    BY DEF Removes
  <2> QED  BY <1>2, <2>1
<1>4. ItemRight(q, 1, i, c, d, late)
  BY <1>1, <1>3 DEF ItemRight, Settled
<1> QED  BY <1>1, <1>4 DEF Account

\* A change of flags is done.
LEMMA FlagsAreAccounted ==
  ASSUME NEW q, NEW i, NEW c, Heads(q, i, c), NEW late, q[1].op = "ModifyFlags",
         NEW lost, NEW plus, NEW e \in Data, Account(q, 0, i, c, late, lost, plus, e),
         NEW more, plus \cup more = q[1].added, NEW f \in Data, f.there = e.there,
         e.there => f.body = e.body /\ f.flags = (e.flags \cup more) \ q[1].removed
  PROVE  Account(q, 1, i, c, late, lost, {}, f)
<1>1. PICK d \in Data : ItemRight(q, 0, i, c, d, late) /\ (lost \/ Shows(d, plus, e))
  BY DEF Account
<1>2. /\ q \in Seq(Message) /\ q # <<>> /\ i \in q[1].entities /\ c \in Data
      /\ \A k \in DOMAIN q : q[k].op \in Kinds
      /\ c.there => \A k \in DOMAIN q : ~Removes(q[k], i)
  BY DEF Heads
<1> DEFINE n == Repeated(d, q[1], c)
<1>3. ItemRight(q, 1, i, c, n, late)
  <2>1. q[1].op \in {"Add", "Modify"} /\ c.there => late \/ Silent(q, i)
    OBVIOUS
  <2> QED  BY <1>1, <1>2, <2>1, RepeatedKeeps
<1>4. n \in Data
  <2>1. q[1] \in Message
    BY <1>2
  <2> QED  BY <1>2, <2>1, RepeatedType
<1>5. n.there = d.there /\ n.body = d.body
      /\ (d.there => n.flags = (d.flags \cup q[1].added) \ q[1].removed)
  BY DEF Repeated, StoreFlags, Data
<1> HIDE DEF n
<1>6. Shows(d, plus, e) => Shows(n, {}, f)
  BY <1>5 DEF Shows
<1> QED  BY <1>1, <1>3, <1>4, <1>6 DEF Account

\* Flags were added, and others are still to be removed.
LEMMA AddedIsAccounted ==
  ASSUME NEW q, NEW i, NEW c, NEW late,
         NEW lost, NEW e \in Data, Account(q, 0, i, c, late, lost, {}, e),
         NEW plus, NEW f \in Data, f.there = e.there,
         e.there => f.body = e.body /\ f.flags = e.flags \cup plus
  PROVE  Account(q, 0, i, c, late, lost, plus, f)
<1>1. PICK d \in Data : ItemRight(q, 0, i, c, d, late) /\ (lost \/ Shows(d, {}, e))
  BY DEF Account
<1>2. Shows(d, {}, e) => Shows(d, plus, f)
  BY DEF Shows
<1> QED  BY <1>1, <1>2 DEF Account

\* A deletion is done.
LEMMA DeletionIsAccounted ==
  ASSUME NEW q, NEW i, NEW c, Heads(q, i, c), NEW late, q[1].op = "Remove",
         NEW lost, NEW plus, NEW e, Account(q, 0, i, c, late, lost, plus, e),
         NEW f, f.there = FALSE
  PROVE  Account(q, 1, i, c, late, FALSE, {}, f)
<1>1. PICK d \in Data : ItemRight(q, 0, i, c, d, late)
  BY DEF Account
<1>2. /\ q \in Seq(Message) /\ q # <<>> /\ i \in q[1].entities /\ c \in Data
      /\ \A k \in DOMAIN q : q[k].op \in Kinds
      /\ c.there => \A k \in DOMAIN q : ~Removes(q[k], i)
  BY DEF Heads
<1> DEFINE n == Repeated(d, q[1], c)
<1>3. ItemRight(q, 1, i, c, n, late)
  <2>1. q[1].op \in {"Add", "Modify"} /\ c.there => late \/ Silent(q, i)
    OBVIOUS
  <2> QED  BY <1>1, <1>2, <2>1, RepeatedKeeps
<1>4. n \in Data
  <2>1. q[1] \in Message
    BY <1>2
  <2> QED  BY <1>2, <2>1, RepeatedType
<1>5. n.there = FALSE
  BY DEF Repeated, Data
<1> HIDE DEF n
<1>6. Shows(n, {}, f)
  BY <1>5 DEF Shows
<1> QED  BY <1>3, <1>4, <1>6 DEF Account

\* The message that an upload replaces is marked as deleted.
LEMMA ClearedIsAccounted ==
  ASSUME NEW q, NEW i, NEW c, Heads(q, i, c), NEW late, q[1].op = "Modify", c.there,
         NEW lost, NEW plus, NEW e, Account(q, 0, i, c, late, lost, plus, e),
         NEW more, NEW f, f.there = FALSE
  PROVE  Account(q, 0, i, c, late, lost, more, f)
<1>1. PICK d \in Data : ItemRight(q, 0, i, c, d, late)
  BY DEF Account
<1> DEFINE n == [d EXCEPT !.there = FALSE]
<1>2. n \in Data /\ n.there = FALSE
  BY DEF Data
<1>3. 1 \in DOMAIN q /\ 1 > 0 /\ Uploads(q[1], i)
  BY DEF Heads, Uploads
<1> HIDE DEF n
<1>4. Settled(q, 0, i, c, n)
  BY <1>3 DEF Settled
<1>5. ASSUME NEW x \in Marks, FlagAt(q, 0, i, x, c.flags, d, late)
      PROVE  FlagAt(q, 0, i, x, c.flags, n, late)
  BY <1>2, <1>5 DEF FlagAt, Seen
<1>6. ItemRight(q, 0, i, c, n, late)
  BY <1>1, <1>4, <1>5 DEF ItemRight
<1>7. Shows(n, more, f)
  BY <1>2 DEF Shows
<1> QED  BY <1>2, <1>6, <1>7 DEF Account

\* The first change leaves the record.
LEMMA AnsweredIsAccounted ==
  ASSUME NEW q \in Seq(Message), q # <<>>, NEW s \in {0, 1}, NEW i,
         s = 0 => i \notin q[1].entities,
         NEW c, NEW late, NEW later, ~later => ~late \/ Silent(Tail(q), i),
         NEW lost, NEW plus, NEW e, Account(q, s, i, c, late, lost, plus, e)
  PROVE  Account(Tail(q), 0, i, c, later, lost, plus, e)
<1>1. PICK d \in Data : ItemRight(q, s, i, c, d, late) /\ (lost \/ Shows(d, plus, e))
  BY DEF Account
<1>2. ItemRight(Tail(q), 0, i, c, d, later)
  BY <1>1, AnsweredKeeps
<1> QED  BY <1>1, <1>2 DEF Account

\* After a crash, what was done is done again, ...
LEMMA AgainIsAccounted ==
  ASSUME NEW q \in Seq(Message), NEW i, NEW c, NEW late, NEW later,
         ~later => Silent(q, i),
         NEW lost, NEW plus, NEW e, Account(q, 1, i, c, late, lost, plus, e)
  PROVE  Account(q, 0, i, c, later, lost, plus, e)
<1>1. PICK d \in Data : ItemRight(q, 1, i, c, d, late) /\ (lost \/ Shows(d, plus, e))
  BY DEF Account
<1>2. ItemRight(q, 0, i, c, d, later)
  BY <1>1, RepeatedAgain
<1> QED  BY <1>1, <1>2 DEF Account

\* ... and flags that were added are added again.
LEMMA HalfIsAccounted ==
  ASSUME NEW q, NEW i, NEW c, Heads(q, i, c), NEW late, q[1].op = "ModifyFlags",
         NEW lost, NEW e, Account(q, 0, i, c, late, lost, q[1].added, e)
  PROVE  Account(q, 0, i, c, TRUE, lost, {}, e)
<1>1. PICK d \in Data : ItemRight(q, 0, i, c, d, late) /\ (lost \/ Shows(d, q[1].added, e))
  BY DEF Account
<1> DEFINE n == [d EXCEPT !.flags = @ \cup q[1].added]
<1>2. q[1] \in Message /\ 1 \in DOMAIN q /\ i \in q[1].entities
  BY DEF Heads
<1>3. /\ n \in Data /\ n.there = d.there /\ n.body = d.body
      /\ n.flags = d.flags \cup q[1].added
  BY <1>2 DEF Data, Message
<1> HIDE DEF n
<1>4. Settled(q, 0, i, c, n)
  BY <1>1, <1>3 DEF Settled, ItemRight
<1>5. ASSUME NEW x \in Marks, FlagAt(q, 0, i, x, c.flags, d, late)
      PROVE  FlagAt(q, 0, i, x, c.flags, n, TRUE)
  <2>1. Seen(q, 0, i, n) => Seen(q, 0, i, d)
    BY <1>3 DEF Seen
  <2>2. Untold(q, 0, i, x) => x \notin q[1].added
    BY <1>2 DEF Untold, Speaks
  <2> QED  BY <1>3, <1>5, <2>1, <2>2 DEF FlagAt
<1>6. ItemRight(q, 0, i, c, n, TRUE)
  BY <1>1, <1>4, <1>5 DEF ItemRight
<1>7. Shows(d, q[1].added, e) => Shows(n, {}, e)
  BY <1>3 DEF Shows
<1> QED  BY <1>1, <1>3, <1>6, <1>7 DEF Account

-----------------------------------------------------------------------------
(* The invariant of the replay *)

\* What is recorded, whether the agent runs or not.
Recorded == Loaded(rec.file)

\* What has left the record.
Out == Elements(handlers) \cup Elements(rec.pipeline)

\* The changes the resource is that far with.
Staged(stage) == {k \in DOMAIN handlers : carried[k].stage = stage}

\* The items with a change that has been repeated on the server and not answered,
\* and so, as at most one change is out, the position up to which the record is
\* repeated; ...
Uploaded == UNION {handlers[k].entities : k \in Staged("done")}
Since(S, i) == IF i \in S THEN 1 ELSE 0

\* ... and the flags that were added to an item by a change half done.
SoFar(i) == UNION {handlers[k].added : k \in {n \in Staged("added") : i \in handlers[n].entities}}

\* The change that is out is the first of the record, or was; ...
FirstIsOut ==
  \A m \in Out :
    /\ Recorded # <<>> /\ Head(Recorded).entities = m.entities
    /\ Head(Recorded) = m \/ m.entities \subseteq raced

\* ... and unless its item has changed since, its data is the item as it is.
DataIsFresh ==
  \A k \in DOMAIN handlers : \A i \in handlers[k].entities \ raced :
    carried[k].data[i] = cache[i]

\* Each kind of change has its own stages.
StageFits(m, stage) ==
  /\ stage = "added" => m.op = "ModifyFlags"
  /\ stage \in {"appended", "cleared"} => m.op \in {"Add", "Modify"}
  /\ stage = "cleared" => m.op = "Modify"

StagesFit == \A k \in DOMAIN handlers : StageFits(handlers[k], carried[k].stage)

AllLive == \A i \in Entities : Life(Recorded, i, cache[i])

AllRight ==
  \A i \in Entities \ (raced \cup muddled) :
    Account(Recorded, Since(Uploaded, i), i, cache[i], i \in ahead, i \in dropped,
            SoFar(i), remote[i])

\* The types, but for the number of messages.
CoreTypes ==
  /\ TypeOK
  /\ workload \in Workloads
  /\ cache \in Store /\ remote \in Store
  /\ carried \in [DOMAIN handlers -> [stage : Stages, data : Store]]
  /\ \A items \in {raced, ahead, muddled, dropped, doubled} : items \subseteq Entities
  /\ displaced \in BOOLEAN

\* The inductive invariant: the record accounts for every difference between the
\* cache and the server, but for the items that may differ.
ReplayInv ==
  /\ LogInv /\ CoreTypes
  /\ Shape(Recorded) /\ AllLive /\ StagesFit
  /\ displaced \/ (FirstIsOut /\ DataIsFresh /\ AllRight)

\* The messages that were appended and that no item names yet.
Appended == UNION {Sent(k) : k \in Staged("appended") \cup Staged("cleared")}

\* How many messages of an item there should be.
Expected(i) == (IF remote[i].there THEN 1 ELSE 0) + (IF i \in Appended THEN 1 ELSE 0)

\* The message that is replaced is gone when it was marked as deleted.
ClearedGone == \A k \in Staged("cleared") : \A i \in Sent(k) : ~remote[i].there

\* The creation of an item is still to be repeated.
Unmade(i) == (\E k \in DOMAIN Recorded : Adds(Recorded[k], i)) /\ i \notin Uploaded

\* The inductive invariant of the messages: there are as many as expected, and what
\* is still to be created is not on the server.
CountInv ==
  /\ copies \in [Entities -> Nat]
  /\ \A i \in Entities : copies[i] >= Expected(i)
  /\ ClearedGone
  /\ \A i \in Entities \ DOMAIN AtFirst : cache[i] = Absent => ~remote[i].there
  /\ displaced \/ \A i \in Entities \ (raced \cup doubled) :
                    copies[i] = Expected(i) /\ (Unmade(i) => ~remote[i].there)

\* A step that leaves the items and the messages alone, and counts nothing anew.
Rests ==
  /\ cache' = cache /\ remote' = remote /\ copies' = copies
  /\ raced' = raced /\ displaced' = displaced /\ doubled \subseteq doubled'
  /\ Appended' \subseteq Appended /\ Appended \subseteq Appended' \cup doubled'
  /\ ClearedGone => ClearedGone'
  /\ displaced \/ \A i \in Entities \ (raced \cup doubled') : Unmade(i)' => Unmade(i)

\* What follows of what is recorded and what is out.
LogFacts ==
  /\ Recorded \in Seq(Message)
  /\ up => Recorded = rec.pending
  /\ rec \in Recorder /\ rec.pending \in Seq(Message)
  /\ handlers \in Seq(Message) /\ rec.pipeline \in Seq(Message)
  /\ handlers # <<>> => up /\ replaying /\ rec.pipeline = <<>> /\ Len(handlers) = 1
  /\ rec.pipeline # <<>> => up /\ replaying /\ handlers = <<>> /\ Len(rec.pipeline) = 1
  /\ ~up => handlers = <<>> /\ rec.pipeline = <<>>

\* These facts are part of the recorder being a log.
LEMMA OutAndRecorded == LogInv => LogFacts
<1> SUFFICES ASSUME LogInv PROVE LogFacts
  OBVIOUS
<1>1. /\ Recorded \in Seq(Fit(heard)) /\ rec \in Recorder /\ handlers \in Seq(Message)
      /\ Len(rec.pipeline) + Len(handlers) <= 1
      /\ ~replaying => rec.pipeline = <<>> /\ handlers = <<>>
      /\ up \/ ~replaying
  BY DEF LogInv, RecorderInv, TypeOK, Recorded
<1>2. /\ rec.pipeline \in Seq(Message) /\ rec.pending \in Seq(Message)
      /\ Recorded \in Seq(Message)
  BY <1>1, FitIsMessage DEF Recorder
<1>3. up => Recorded = rec.pending
  BY DEF LogInv, RecorderInv, Kept, Recorded
<1>4. ASSUME NEW p \in Seq(Message), NEW h \in Seq(Message), Len(p) + Len(h) <= 1
      PROVE  /\ h # <<>> => p = <<>> /\ Len(h) = 1
             /\ p # <<>> => h = <<>> /\ Len(p) = 1
  <2>1. Len(p) \in Nat /\ Len(h) \in Nat
    OBVIOUS
  <2>2. h # <<>> => Len(h) > 0
    OBVIOUS
  <2>3. p # <<>> => Len(p) > 0
    OBVIOUS
  <2>4. Len(p) = 0 => p = <<>>
    OBVIOUS
  <2>5. Len(h) = 0 => h = <<>>
    OBVIOUS
  <2>6. \A a, b \in Nat : a + b <= 1 => (b > 0 => a = 0 /\ b = 1) /\ (a > 0 => b = 0 /\ a = 1)
    OBVIOUS
  <2>7. /\ Len(h) > 0 => Len(p) = 0 /\ Len(h) = 1
        /\ Len(p) > 0 => Len(h) = 0 /\ Len(p) = 1
    BY <1>4, <2>1, <2>6
  <2> QED  BY <2>2, <2>3, <2>4, <2>5, <2>7
<1>5. /\ handlers # <<>> => rec.pipeline = <<>> /\ Len(handlers) = 1
      /\ rec.pipeline # <<>> => handlers = <<>> /\ Len(rec.pipeline) = 1
  BY <1>1, <1>2, <1>4
<1> QED  BY <1>1, <1>2, <1>3, <1>5 DEF LogFacts

\* The same, after a step.
LEMMA OutAndRecordedNext == LogInv' => LogFacts'
BY OutAndRecorded, PTL

\* Without changes that are out, none is repeated; ...
NothingStaged ==
  handlers = <<>> => Uploaded = {} /\ Appended = {} /\ ClearedGone /\ \A i : SoFar(i) = {}

LEMMA NoneStaged == NothingStaged
BY DEF NothingStaged, Uploaded, SoFar, Appended, ClearedGone, Staged

LEMMA NoneStagedNext == NothingStaged'
BY NoneStaged, PTL

\* ... and with a single one, it or none is.
OnlyStaged ==
  DOMAIN handlers = {1} =>
    /\ Uploaded = IF carried[1].stage = "done" THEN handlers[1].entities ELSE {}
    /\ \A i : SoFar(i) = IF carried[1].stage = "added" /\ i \in handlers[1].entities
                         THEN handlers[1].added ELSE {}
    /\ Appended = IF carried[1].stage \in {"appended", "cleared"} THEN Sent(1) ELSE {}

LEMMA OneStaged == OnlyStaged
<1> SUFFICES ASSUME DOMAIN handlers = {1}
             PROVE  /\ Uploaded = IF carried[1].stage = "done" THEN handlers[1].entities ELSE {}
                    /\ \A i : SoFar(i) = IF carried[1].stage = "added" /\ i \in handlers[1].entities
                                         THEN handlers[1].added ELSE {}
                    /\ Appended = IF carried[1].stage \in {"appended", "cleared"} THEN Sent(1)
                                  ELSE {}
  BY DEF OnlyStaged
<1>1. \A t : Staged(t) = IF carried[1].stage = t THEN {1} ELSE {}
  BY DEF Staged
<1>2. Uploaded = IF carried[1].stage = "done" THEN handlers[1].entities ELSE {}
  <2>1. Staged("done") = IF carried[1].stage = "done" THEN {1} ELSE {}
    BY <1>1
  <2> QED  BY <2>1 DEF Uploaded
<1>3. ASSUME NEW i
      PROVE  SoFar(i) = IF carried[1].stage = "added" /\ i \in handlers[1].entities
                        THEN handlers[1].added ELSE {}
  <2>1. Staged("added") = IF carried[1].stage = "added" THEN {1} ELSE {}
    BY <1>1
  <2>2. {n \in Staged("added") : i \in handlers[n].entities}
          = IF carried[1].stage = "added" /\ i \in handlers[1].entities THEN {1} ELSE {}
    BY <2>1
  <2> QED  BY <2>2 DEF SoFar
<1>4. Appended = IF carried[1].stage \in {"appended", "cleared"} THEN Sent(1) ELSE {}
  <2>1. Staged("appended") \cup Staged("cleared")
          = IF carried[1].stage \in {"appended", "cleared"} THEN {1} ELSE {}
    BY <1>1
  <2> QED  BY <2>1 DEF Appended
<1> QED  BY <1>2, <1>3, <1>4

LEMMA OneStagedNext == OnlyStaged'
BY OneStaged, PTL

\* A step that at most takes the first change out of the record.
LEMMA ForwardKeeps ==
  ASSUME ReplayInv, LogInv', CoreTypes', StagesFit',
         Recorded' = Recorded, cache' = cache, remote' = remote, raced' = raced,
         ahead' = ahead, muddled' = muddled, dropped' = dropped, displaced' = displaced,
         Uploaded' = Uploaded, \A i \in Entities : SoFar(i)' = SoFar(i),
         \A m \in Out' : m \in Out \/ (Recorded # <<>> /\ m = Head(Recorded)),
         displaced \/ DataIsFresh'
  PROVE  ReplayInv'
<1>1. Shape(Recorded') /\ AllLive'
  BY DEF ReplayInv, AllLive
<1>2. CASE displaced
  BY <1>1, <1>2 DEF ReplayInv
<1>3. CASE ~displaced
  <2>1. FirstIsOut /\ AllRight
    BY <1>3 DEF ReplayInv
  <2>2. FirstIsOut'
    BY <2>1 DEF FirstIsOut
  <2>3. AllRight'
    <3> SUFFICES ASSUME NEW i \in Entities \ (raced \cup muddled)
                 PROVE  Account(Recorded, Since(Uploaded, i), i, cache[i], i \in ahead, i \in dropped,
                                SoFar(i), remote[i])
      BY DEF AllRight
    <3> QED  BY <2>1 DEF AllRight
  <2> QED  BY <1>1, <1>3, <2>2, <2>3 DEF ReplayInv
<1> QED  BY <1>2, <1>3

\* The data of what is emitted goes along.
LEMMA CarryKeeps ==
  ASSUME ReplayInv, Carry, cache' = cache, raced' = raced,
         NEW new \in Seq(Message), handlers' = handlers \o new
  PROVE  /\ carried' \in [DOMAIN handlers' -> [stage : Stages, data : Store]]
         /\ Uploaded' = Uploaded /\ \A i : SoFar(i)' = SoFar(i)
         /\ StagesFit'
         /\ displaced \/ DataIsFresh'
         /\ Appended' = Appended
         /\ remote' = remote => (ClearedGone => ClearedGone')
<1> DEFINE n == Len(handlers)
           fresh == [stage |-> "given", data |-> cache]
<1>1. /\ handlers \in Seq(Message) /\ cache \in Store /\ StagesFit
      /\ carried \in [DOMAIN handlers -> [stage : Stages, data : Store]]
  BY OutAndRecorded DEF LogFacts, ReplayInv, CoreTypes
<1>2. /\ n \in Nat /\ DOMAIN handlers = 1..n
      /\ handlers' \in Seq(Message) /\ DOMAIN handlers' \subseteq Nat \ {0}
      /\ DOMAIN handlers \subseteq DOMAIN handlers'
      /\ \A k \in 1..n : handlers'[k] = handlers[k]
  BY <1>1
<1>3. carried' = [k \in DOMAIN handlers' |-> IF k <= n THEN carried[k] ELSE fresh]
  BY DEF Carry
<1>4. fresh.stage = "given" /\ fresh.data = cache /\ fresh \in [stage : Stages, data : Store]
  BY <1>1 DEF Stages
<1> HIDE DEF n, fresh
<1>5. \A k \in DOMAIN handlers' : k > n => carried'[k] = fresh
  BY <1>2, <1>3
<1>6. \A k \in DOMAIN handlers : k \in DOMAIN handlers' /\ carried'[k] = carried[k]
                                 /\ handlers'[k] = handlers[k]
  BY <1>2, <1>3
<1>7. \A k \in DOMAIN handlers' : k \in DOMAIN handlers \/ k > n
  BY <1>2
<1>8. carried' \in [DOMAIN handlers' -> [stage : Stages, data : Store]]
  <2>1. ASSUME NEW k \in DOMAIN handlers' PROVE carried'[k] \in [stage : Stages, data : Store]
    <3>1. CASE k \in DOMAIN handlers
      BY <1>1, <1>6, <3>1
    <3>2. CASE k > n
      BY <1>4, <1>5, <3>2
    <3> QED  BY <1>7, <3>1, <3>2
  <2> QED  BY <1>3, <2>1
<1>9. ASSUME NEW t, t # "given" PROVE Staged(t)' = Staged(t)
  <2>1. Staged(t)' = {k \in DOMAIN handlers' : carried'[k].stage = t}
    BY DEF Staged
  <2> QED  BY <1>4, <1>5, <1>6, <1>7, <1>9, <2>1 DEF Staged
<1>10. Uploaded' = Uploaded
  <2> DEFINE D == Staged("done")
  <2>1. Uploaded' = UNION {handlers'[k].entities : k \in D}
    BY <1>9 DEF Uploaded
  <2>2. \A k \in D : handlers'[k].entities = handlers[k].entities
    BY <1>6 DEF Staged
  <2> HIDE DEF D
  <2>3. UNION {handlers'[k].entities : k \in D} = UNION {handlers[k].entities : k \in D}
    BY <2>2
  <2> QED  BY <2>1, <2>3 DEF Uploaded, D
<1>11. ASSUME NEW i PROVE SoFar(i)' = SoFar(i)
  <2> DEFINE D == {k \in Staged("added") : i \in handlers[k].entities}
             E == {k \in Staged("added") : i \in handlers'[k].entities}
  <2>1. SoFar(i)' = UNION {handlers'[k].added : k \in E}
    <3>1. Staged("added")' = Staged("added")
      BY <1>9
    <3> QED  BY <3>1 DEF SoFar
  <2>2. \A k \in Staged("added") : handlers'[k] = handlers[k]
    BY <1>6 DEF Staged
  <2>3. E = D
    BY <2>2
  <2>4. \A k \in D : handlers'[k].added = handlers[k].added
    BY <2>2
  <2>5. SoFar(i) = UNION {handlers[k].added : k \in D}
    BY DEF SoFar
  <2> HIDE DEF D, E
  <2>6. UNION {handlers'[k].added : k \in D} = UNION {handlers[k].added : k \in D}
    BY <2>4
  <2> QED  BY <2>1, <2>3, <2>5, <2>6
<1>12. StagesFit'
  <2> SUFFICES ASSUME NEW k \in DOMAIN handlers' PROVE StageFits(handlers'[k], carried'[k].stage)
    BY DEF StagesFit
  <2>1. CASE k \in DOMAIN handlers
    BY <1>1, <1>6, <2>1 DEF StagesFit
  <2>2. CASE k > n
    BY <1>4, <1>5, <2>2 DEF StageFits
  <2> QED  BY <1>7, <2>1, <2>2
<1>13. displaced \/ DataIsFresh'
  <2> SUFFICES ASSUME ~displaced PROVE DataIsFresh'
    OBVIOUS
  <2>1. DataIsFresh
    BY DEF ReplayInv
  <2> SUFFICES ASSUME NEW k \in DOMAIN handlers', NEW i \in handlers'[k].entities \ raced
               PROVE  carried'[k].data[i] = cache[i]
    BY DEF DataIsFresh
  <2>2. CASE k \in DOMAIN handlers
    BY <1>6, <2>1, <2>2 DEF DataIsFresh
  <2>3. CASE k > n
    BY <1>4, <1>5, <2>3
  <2> QED  BY <1>7, <2>2, <2>3
<1>14. \A t : t # "given" => \A k \in Staged(t) : Sent(k)' = Sent(k)
  BY <1>6 DEF Staged, Sent
<1>15. Appended' = Appended
  <2> DEFINE D == Staged("appended") \cup Staged("cleared")
  <2>1. Staged("appended")' = Staged("appended") /\ Staged("cleared")' = Staged("cleared")
    BY <1>9
  <2>2. Appended' = UNION {Sent(k)' : k \in D}
    BY <2>1 DEF Appended
  <2>3. \A k \in D : Sent(k)' = Sent(k)
    BY <1>14
  <2> HIDE DEF D
  <2>4. UNION {Sent(k)' : k \in D} = UNION {Sent(k) : k \in D}
    BY <2>3
  <2> QED  BY <2>2, <2>4 DEF Appended, D
<1>16. ASSUME remote' = remote, ClearedGone PROVE ClearedGone'
  <2>1. Staged("cleared")' = Staged("cleared")
    BY <1>9
  <2>2. \A k \in Staged("cleared") : Sent(k)' = Sent(k)
    BY <1>14
  <2> QED  BY <1>16, <2>1, <2>2 DEF ClearedGone
<1> QED  BY <1>8, <1>10, <1>11, <1>12, <1>13, <1>15, <1>16

-----------------------------------------------------------------------------
(* The agent takes a change from the record, and its items arrive *)

\* The elements of a list of one.
LEMMA ElementsOfOne ==
  ASSUME NEW e
  PROVE  Elements(<<e>>) = {e} /\ Elements(<<>>) = {}
BY DEF Elements

\* What the invariant is about, in one place.
LEMMA ReplayFacts ==
  ASSUME Repeatable, ReplayInv
  PROVE  /\ Undisturbed /\ Attentive(heard) /\ LogInv /\ LogFacts /\ Shape(Recorded)
         /\ cache \in Store /\ remote \in Store /\ workload \in Workloads
         /\ carried \in [DOMAIN handlers -> [stage : Stages, data : Store]]
         /\ raced \subseteq Entities /\ ahead \subseteq Entities /\ muddled \subseteq Entities
         /\ dropped \subseteq Entities /\ doubled \subseteq Entities
         /\ displaced \in BOOLEAN
<1>1. LogInv /\ heard \in Listenings
  BY DEF ReplayInv, LogInv
<1>2. Undisturbed /\ Attentive(heard)
  BY <1>1 DEF Repeatable
<1>3. LogFacts
  BY <1>1, OutAndRecorded
<1> QED  BY <1>1, <1>2, <1>3 DEF ReplayInv, CoreTypes

\* The log has the types of the recorder, ...
LEMMA TypesOfLog == LogInv => TypeOK
BY DEF LogInv, RecorderInv

\* ... after a step as well.
LEMMA TypesOfLogNext == LogInv' => TypeOK'
BY TypesOfLog, PTL

\* At first nothing is recorded, and the server holds what the cache holds.
LEMMA InitReplay ==
  ASSUME Repeatable
  PROVE  ReplayInit => ReplayInv
<1> SUFFICES ASSUME ReplayInit PROVE ReplayInv
  OBVIOUS
<1>1. /\ Init /\ workload \in Workloads /\ remote = cache /\ carried = <<>>
      /\ raced = {} /\ ahead = {} /\ muddled = {} /\ dropped = {} /\ doubled = {}
      /\ displaced = FALSE
      /\ cache = [i \in Entities |->
                    IF i \in DOMAIN AtFirst
                    THEN [there |-> TRUE, body |-> 0, flags |-> AtFirst[i]] ELSE Absent]
  BY DEF ReplayInit
<1>2. LogInv /\ handlers = <<>> /\ rec.pipeline = <<>>
  <2>1. LogInv
    BY <1>1, InitLog DEF Repeatable
  <2> QED  BY <1>1, <2>1 DEF LogInv, Init
<1>3. Recorded = <<>>
  <2>1. PICK file \in OldFiles : rec = loadNotifications(file)
    BY <1>1 DEF Init
  <2> QED  BY <2>1 DEF Repeatable, Recorded, loadNotifications
<1>4. cache \in Store
  <2>1. ASSUME NEW i \in Entities PROVE cache[i] \in Data
    <3>1. CASE i \in DOMAIN AtFirst
      <4>1. cache[i] = [there |-> TRUE, body |-> 0, flags |-> AtFirst[i]] /\ AtFirst[i] \in SUBSET Marks
        BY <1>1, <3>1, ReplayAssumption
      <4> QED  BY <4>1 DEF Data
    <3>2. CASE i \notin DOMAIN AtFirst
      BY <1>1, <3>2 DEF Data, Absent
    <3> QED  BY <3>1, <3>2
  <2> QED  BY <1>1, <2>1 DEF Store
<1>5. CoreTypes
  <2>1. TypeOK
    BY <1>2, TypesOfLog
  <2>2. carried \in [DOMAIN handlers -> [stage : Stages, data : Store]]
    BY <1>1, <1>2
  <2>3. \A items \in {raced, ahead, muddled, dropped, doubled} : items \subseteq Entities
    BY <1>1
  <2> QED  BY <1>1, <1>4, <2>1, <2>2, <2>3 DEF CoreTypes
<1>6. DOMAIN Recorded = {}
  BY <1>3
<1>7. Shape(Recorded)
  BY <1>6 DEF Shape
<1>8. AllLive
  BY <1>1, <1>6 DEF AllLive, Life
<1>9. Uploaded = {} /\ \A i : SoFar(i) = {}
  BY <1>2, NoneStaged DEF NothingStaged
<1>10. FirstIsOut /\ DataIsFresh /\ StagesFit
  <2>1. Out = {}
    BY <1>2, ElementsOfOne DEF Out
  <2>2. DOMAIN handlers = {}
    BY <1>2
  <2> QED  BY <2>1, <2>2 DEF FirstIsOut, DataIsFresh, StagesFit
<1>11. AllRight
  <2> SUFFICES ASSUME NEW i \in Entities
               PROVE  Account(Recorded, 0, i, cache[i], i \in ahead, i \in dropped, {}, remote[i])
    BY <1>9 DEF AllRight, Since
  <2>1. remote[i] = cache[i] /\ cache[i] \in Data
    BY <1>1, <1>4 DEF Store
  <2> DEFINE c == cache[i]
  <2>2. Settled(Recorded, 0, i, c, c)
    BY DEF Settled
  <2>3. ASSUME NEW late, NEW x \in Marks PROVE FlagAt(Recorded, 0, i, x, c.flags, c, late)
    BY <1>6 DEF FlagAt, Ends, Chains, Starts
  <2>4. Shows(c, {}, c)
    BY DEF Shows
  <2> HIDE DEF c
  <2>5. ASSUME NEW late, NEW lost PROVE Account(Recorded, 0, i, c, late, lost, {}, c)
    <3>1. ItemRight(Recorded, 0, i, c, c, late)
      BY <2>2, <2>3 DEF ItemRight
    <3> QED  BY <2>1, <2>4, <3>1 DEF Account, c
  <2>6. Account(Recorded, 0, i, c, i \in ahead, i \in dropped, {}, c)
    BY <2>5, Zenon
  <2> QED  BY <2>1, <2>6 DEF c
<1> QED  BY <1>2, <1>5, <1>7, <1>8, <1>10, <1>11 DEF ReplayInv

\* A replay takes the first change out of the record, for its handler or to wait for
\* its data.
LEMMA ReplayKeeps ==
  ASSUME Repeatable, ReplayInv, NEW cached, Replay(cached)
  PROVE  ReplayInv' /\ Rests
<1> DEFINE x == replayNext(rec, heard, cached, TRUE)
<1>1. /\ Undisturbed /\ Attentive(heard) /\ LogInv /\ LogFacts /\ Shape(Recorded)
      /\ cache \in Store /\ remote \in Store /\ workload \in Workloads
      /\ raced \subseteq Entities /\ ahead \subseteq Entities /\ muddled \subseteq Entities
      /\ dropped \subseteq Entities /\ doubled \subseteq Entities
      /\ displaced \in BOOLEAN
  BY ReplayFacts
<1>2. /\ ReplayNext(cached, TRUE) /\ Carry
      /\ workload' = workload /\ cache' = cache /\ remote' = remote /\ copies' = copies
      /\ raced' = raced /\ ahead' = ahead /\ muddled' = muddled /\ displaced' = displaced
      /\ dropped' = dropped /\ doubled' = doubled
  BY DEF Replay, server, history
<1>3. LogInv' /\ LogFacts' /\ TypeOK'
  <2>1. LogInv'
    BY <1>1, <1>2, ReplayNextGives
  <2> QED  BY <2>1, OutAndRecordedNext, TypesOfLogNext
<1>4. /\ up /\ ~replaying /\ rec.pipeline = <<>> /\ handlers = <<>> /\ Recorded = rec.pending
      /\ rec \in Recorder /\ rec.pending \in Seq(Message)
  <2>1. up /\ ~replaying
    BY <1>2 DEF ReplayNext
  <2> QED  BY <1>1, <2>1 DEF LogFacts
<1>5. x \in Still(rec)
  BY <1>1, <1>4, replayNextStill
<1>6. /\ x.r.pending = rec.pending /\ x.said # "fault"
      /\ x.said = "emitted" => rec.pending # <<>>
      /\ \/ x.r.pipeline = <<>>
         \/ rec.pending # <<>> /\ x.r.pipeline = <<Head(rec.pending)>>
  BY <1>5 DEF Still
<1>7. /\ rec' = x.r /\ up' = up
      /\ handlers' = IF x.said = "emitted" THEN Append(handlers, Head(x.r.pending)) ELSE handlers
  BY <1>2, <1>6 DEF ReplayNext
<1> HIDE DEF x
<1>8. Recorded' = Recorded
  BY <1>3, <1>4, <1>6, <1>7 DEF LogFacts
<1>9. \/ handlers' = <<>>
      \/ rec.pending # <<>> /\ handlers' = <<Head(rec.pending)>>
  <2>1. \A e : Append(<<>>, e) = <<e>>
    OBVIOUS
  <2> QED  BY <1>4, <1>6, <1>7, <2>1
<1>10. \A m \in Out' : m \in Out \/ (Recorded # <<>> /\ m = Head(Recorded))
  BY <1>4, <1>6, <1>7, <1>9, ElementsOfOne DEF Out
<1>11. PICK new \in Seq(Message) : handlers' = handlers \o new
  <2>1. handlers' \in Seq(Message) /\ handlers' = handlers \o handlers'
    BY <1>3, <1>4 DEF LogFacts
  <2> QED  BY <2>1
<1>12. /\ carried' \in [DOMAIN handlers' -> [stage : Stages, data : Store]]
       /\ Uploaded' = Uploaded /\ \A i : SoFar(i)' = SoFar(i)
       /\ StagesFit'
       /\ displaced \/ DataIsFresh'
       /\ Appended' = Appended /\ (ClearedGone => ClearedGone')
  BY <1>2, <1>11, CarryKeeps
<1>13. CoreTypes'
  BY <1>1, <1>2, <1>3, <1>12 DEF CoreTypes
<1>20. ReplayInv'
  BY <1>2, <1>3, <1>8, <1>10, <1>12, <1>13, ForwardKeeps
<1>21. Rests
  BY <1>2, <1>8, <1>12 DEF Rests, Unmade
<1> QED  BY <1>20, <1>21

\* What waited for its data is given out.
LEMMA ArriveKeeps ==
  ASSUME Repeatable, ReplayInv, NEW n \in 1..Len(rec.pipeline), Arrive(n)
  PROVE  ReplayInv' /\ Rests
<1> DEFINE x == flushPipeline(rec, heard, n, TRUE)
<1>1. /\ Undisturbed /\ Attentive(heard) /\ LogInv /\ LogFacts /\ Shape(Recorded)
      /\ cache \in Store /\ remote \in Store /\ workload \in Workloads
      /\ raced \subseteq Entities /\ ahead \subseteq Entities /\ muddled \subseteq Entities
      /\ dropped \subseteq Entities /\ doubled \subseteq Entities
      /\ displaced \in BOOLEAN
  BY ReplayFacts
<1>2. /\ DataAvailable(n, TRUE) /\ Carry
      /\ workload' = workload /\ cache' = cache /\ remote' = remote /\ copies' = copies
      /\ raced' = raced /\ ahead' = ahead /\ muddled' = muddled /\ displaced' = displaced
      /\ dropped' = dropped /\ doubled' = doubled
  BY DEF Arrive, server, history
<1>3. LogInv' /\ LogFacts' /\ TypeOK'
  <2>1. LogInv'
    BY <1>1, <1>2, DataAvailableGives
  <2> QED  BY <2>1, OutAndRecordedNext, TypesOfLogNext
<1>4. /\ up /\ up' = up /\ rec' = x.r /\ handlers' = handlers \o x.emitted
  BY <1>2 DEF DataAvailable
<1>5. x \in EmittingOf(rec, TRUE)
  <2>1. Sound(rec) /\ rec.pending \in Seq(Fit(heard))
    BY <1>1, <1>4, RunningLog
  <2>2. n \in Nat
    OBVIOUS
  <2> QED  BY <2>1, <2>2, flushPipelineEmitsOf
<1>6. /\ x.r.pending = rec.pending /\ x.emitted \in Seq(Message)
      /\ Elements(x.r.pipeline) \cup Elements(x.emitted) \subseteq Elements(rec.pipeline)
  BY <1>5 DEF EmittingOf, Emitting, Flushed
<1> HIDE DEF x
<1>7. Recorded' = Recorded
  BY <1>1, <1>3, <1>4, <1>6 DEF LogFacts
<1>8. \A m \in Out' : m \in Out \/ (Recorded # <<>> /\ m = Head(Recorded))
  <2>1. handlers = <<>> /\ handlers' = x.emitted
    <3>1. rec.pipeline # <<>>
      BY <1>1 DEF LogFacts
    <3>2. handlers = <<>>
      BY <1>1, <3>1 DEF LogFacts
    <3> QED  BY <1>4, <1>6, <3>2
  <2> QED  BY <1>4, <1>6, <2>1 DEF Out
<1>9. /\ carried' \in [DOMAIN handlers' -> [stage : Stages, data : Store]]
      /\ Uploaded' = Uploaded /\ \A i : SoFar(i)' = SoFar(i)
       /\ StagesFit'
      /\ displaced \/ DataIsFresh'
      /\ Appended' = Appended /\ (ClearedGone => ClearedGone')
  BY <1>2, <1>4, <1>6, CarryKeeps
<1>10. CoreTypes'
  BY <1>1, <1>2, <1>3, <1>9 DEF CoreTypes
<1>20. ReplayInv'
  BY <1>2, <1>3, <1>7, <1>8, <1>9, <1>10, ForwardKeeps
<1>21. Rests
  BY <1>2, <1>7, <1>9 DEF Rests, Unmade
<1> QED  BY <1>20, <1>21

-----------------------------------------------------------------------------
(* A change is put off; the agent crashes and comes back *)

\* A step after which nothing is out.
LEMMA NothingOutNext ==
  ASSUME handlers' = <<>>, rec'.pipeline = <<>>
  PROVE  /\ Out' = {} /\ Uploaded' = {} /\ \A i : SoFar(i)' = {}
         /\ DataIsFresh' /\ StagesFit' /\ Appended' = {} /\ ClearedGone'
<1>1. DOMAIN handlers' = {}
  OBVIOUS
<1>2. Uploaded' = {} /\ Appended' = {} /\ ClearedGone' /\ \A i : SoFar(i)' = {}
  BY NoneStagedNext DEF NothingStaged
<1> QED  BY <1>1, <1>2, ElementsOfOne DEF Out, DataIsFresh, StagesFit

\* An answer, or a change put off, is of the only change that is out.
LEMMA OnlyOneOut ==
  ASSUME LogFacts, NEW k \in DOMAIN handlers
  PROVE  /\ k = 1 /\ up /\ replaying /\ DOMAIN handlers = {1} /\ rec.pipeline = <<>>
         /\ Out = {handlers[1]} /\ Without(handlers, k) = <<>>
<1>1. handlers # <<>> /\ handlers \in Seq(Message)
  BY DEF LogFacts
<1>2. up /\ replaying /\ rec.pipeline = <<>> /\ Len(handlers) = 1
  BY <1>1 DEF LogFacts
<1>3. DOMAIN handlers = {1} /\ k = 1
  BY <1>1, <1>2
<1>4. Without(handlers, 1) = <<>>
  BY <1>1, <1>2 DEF Without
<1>5. Elements(handlers) = {handlers[1]}
  BY <1>3 DEF Elements
<1> QED  BY <1>2, <1>3, <1>4, <1>5, ElementsOfOne DEF Out

\* So nothing else goes with it.
LEMMA NothingCarried ==
  ASSUME NEW d, DOMAIN d = {1}, NEW T, d \in [{1} -> T]
  PROVE  Without(d, 1) = <<>>
<1>1. d \in Seq(T) /\ Len(d) = 1
  <2>1. {1} = 1..1
    OBVIOUS
  <2>2. d \in [1..1 -> T]
    BY <2>1
  <2>3. d \in Seq(T)
    <3>1. 1 \in Nat /\ \A i \in 1..1 : d[i] \in T
      BY <2>2
    <3> QED  BY <2>2, <3>1, SeqDef, Zenon
  <2>4. Len(d) \in Nat /\ 1..Len(d) = {1}
    BY <2>3
  <2> QED  BY <2>3, <2>4
<1> QED  BY <1>1 DEF Without

\* The resource puts a change off: what was out is out no more.
LEMMA PutOffKeeps ==
  ASSUME Repeatable, ReplayInv, NEW k \in DOMAIN handlers, PutOff(k)
  PROVE  ReplayInv' /\ Rests
<1>1. /\ Undisturbed /\ Attentive(heard) /\ LogInv /\ LogFacts /\ Shape(Recorded)
      /\ cache \in Store /\ remote \in Store /\ workload \in Workloads
      /\ carried \in [DOMAIN handlers -> [stage : Stages, data : Store]]
      /\ raced \subseteq Entities /\ ahead \subseteq Entities /\ muddled \subseteq Entities
      /\ dropped \subseteq Entities /\ doubled \subseteq Entities
      /\ displaced \in BOOLEAN
  BY ReplayFacts
<1>2. /\ Defer(k) /\ carried[k].stage = "given" /\ carried' = Without(carried, k)
      /\ workload' = workload /\ cache' = cache /\ remote' = remote /\ copies' = copies
      /\ raced' = raced /\ ahead' = ahead /\ muddled' = muddled /\ displaced' = displaced
      /\ dropped' = dropped /\ doubled' = doubled
  BY DEF PutOff, server, history
<1>3. LogInv' /\ LogFacts' /\ TypeOK'
  <2>1. LogInv'
    BY <1>1, <1>2, DeferPutsOff
  <2> QED  BY <2>1, OutAndRecordedNext, TypesOfLogNext
<1>4. /\ k = 1 /\ DOMAIN handlers = {1} /\ rec.pipeline = <<>> /\ Without(handlers, k) = <<>>
  BY <1>1, OnlyOneOut
<1>5. rec' = rec /\ handlers' = <<>>
  BY <1>2, <1>4 DEF Defer
<1>6. Recorded' = Recorded
  BY <1>5 DEF Recorded
<1>7. Uploaded = {} /\ Appended = {} /\ \A i : SoFar(i) = {}
  BY <1>2, <1>4, OneStaged DEF OnlyStaged
<1>8. /\ Out' = {} /\ Uploaded' = {} /\ \A i : SoFar(i)' = {}
      /\ DataIsFresh' /\ StagesFit' /\ Appended' = {} /\ ClearedGone'
  BY <1>4, <1>5, NothingOutNext
<1>10. carried' \in [DOMAIN handlers' -> [stage : Stages, data : Store]]
  <2>1. Without(carried, 1) = <<>>
    BY <1>1, <1>4, NothingCarried
  <2>2. carried' = <<>>
    BY <1>2, <1>4, <2>1
  <2> QED  BY <1>5, <2>2
<1>11. CoreTypes'
  BY <1>1, <1>2, <1>3, <1>10 DEF CoreTypes
<1>20. ReplayInv'
  BY <1>2, <1>3, <1>6, <1>7, <1>8, <1>11, ForwardKeeps
<1>21. Rests
  BY <1>2, <1>6, <1>7, <1>8 DEF Rests, Unmade
<1> QED  BY <1>20, <1>21

\* An agent that starts finds the record as the crash has left it.
LEMMA AgentRestartKeeps ==
  ASSUME Repeatable, ReplayInv, AgentRestart
  PROVE  ReplayInv' /\ Rests
<1>1. /\ Undisturbed /\ Attentive(heard) /\ LogInv /\ LogFacts /\ Shape(Recorded)
      /\ cache \in Store /\ remote \in Store /\ workload \in Workloads
      /\ carried \in [DOMAIN handlers -> [stage : Stages, data : Store]]
      /\ raced \subseteq Entities /\ ahead \subseteq Entities /\ muddled \subseteq Entities
      /\ dropped \subseteq Entities /\ doubled \subseteq Entities
      /\ displaced \in BOOLEAN
  BY ReplayFacts
<1>2. /\ Restart /\ carried' = carried
      /\ workload' = workload /\ cache' = cache /\ remote' = remote /\ copies' = copies
      /\ raced' = raced /\ ahead' = ahead /\ muddled' = muddled /\ displaced' = displaced
      /\ dropped' = dropped /\ doubled' = doubled
  BY DEF AgentRestart, server, history
<1>3. LogInv' /\ LogFacts' /\ TypeOK'
  <2>1. LogInv'
    BY <1>1, <1>2, RestartFindsTheLog
  <2> QED  BY <2>1, OutAndRecordedNext, TypesOfLogNext
<1>4. handlers = <<>> /\ handlers' = <<>> /\ rec'.file = rec.file /\ rec'.pipeline = <<>>
  BY <1>1, <1>2 DEF LogFacts, Restart, loadNotifications
<1>5. Recorded' = Recorded
  BY <1>4 DEF Recorded
<1>6. Uploaded = {} /\ Appended = {} /\ \A i : SoFar(i) = {}
  BY <1>4, NoneStaged DEF NothingStaged
<1>7. /\ Out' = {} /\ Uploaded' = {} /\ \A i : SoFar(i)' = {}
      /\ DataIsFresh' /\ StagesFit' /\ Appended' = {} /\ ClearedGone'
  BY <1>4, NothingOutNext
<1>8. CoreTypes'
  BY <1>1, <1>2, <1>3, <1>4 DEF CoreTypes
<1>20. ReplayInv'
  BY <1>2, <1>3, <1>5, <1>6, <1>7, <1>8, ForwardKeeps
<1>21. Rests
  BY <1>2, <1>5, <1>6, <1>7 DEF Rests, Unmade
<1> QED  BY <1>20, <1>21

\* Nothing happens.
LEMMA ReplayStutters ==
  ASSUME ReplayInv, UNCHANGED replayVars
  PROVE  ReplayInv' /\ Rests
<1>1. /\ UNCHANGED vars /\ workload' = workload /\ cache' = cache /\ remote' = remote /\ copies' = copies
      /\ carried' = carried /\ raced' = raced /\ ahead' = ahead /\ muddled' = muddled
      /\ dropped' = dropped /\ doubled' = doubled /\ displaced' = displaced
  BY DEF replayVars, server, history
<1>2. /\ rec' = rec /\ up' = up /\ heard' = heard /\ replaying' = replaying
      /\ handlers' = handlers /\ spent' = spent
  BY <1>1 DEF vars
<1>3. LogInv'
  <2>1. RecorderInv'
    BY <1>1, StepKeepsInv DEF ReplayInv, LogInv
  <2> QED  BY <1>2, <2>1 DEF ReplayInv, LogInv
<1>4. /\ Recorded' = Recorded /\ Out' = Out
      /\ Uploaded' = Uploaded /\ \A i : SoFar(i)' = SoFar(i)
      /\ Appended' = Appended /\ (ClearedGone => ClearedGone')
  BY <1>1, <1>2 DEF Recorded, Uploaded, SoFar, Appended, ClearedGone, Sent, Staged, Out
<1>5. (displaced \/ DataIsFresh') /\ StagesFit'
  BY <1>1, <1>2 DEF ReplayInv, DataIsFresh, StagesFit
<1>6. CoreTypes'
  BY <1>1, <1>2, <1>3, TypesOfLogNext DEF ReplayInv, CoreTypes
<1>20. ReplayInv'
  BY <1>1, <1>3, <1>4, <1>5, <1>6, ForwardKeeps
<1>21. Rests
  BY <1>1, <1>4 DEF Rests, Unmade
<1> QED  BY <1>20, <1>21

\* The items whose flag changes are not recorded.
LEMMA SilentUnlessRecorded ==
  ASSUME NEW r, NEW i, i \notin FlagsRecorded(r)
  PROVE  Silent(r.pending, i)
BY DEF Silent, Speaks, FlagsRecorded, Elements

-----------------------------------------------------------------------------
(* The resource repeats a change *)

\* What is known of an item of the change that is out.
LEMMA HeadFacts ==
  ASSUME Repeatable, ReplayInv, ~displaced, NEW k \in DOMAIN handlers,
         NEW i \in handlers[k].entities \ (raced \cup muddled)
  PROVE  /\ Recorded \in Seq(Message) /\ Recorded # <<>> /\ Recorded[1] = handlers[k]
         /\ Recorded = rec.pending
         /\ Heads(Recorded, i, cache[i]) /\ carried[k].data[i] = cache[i]
         /\ i \in Entities /\ cache[i] \in Data /\ remote[i] \in Data
         /\ StageFits(handlers[k], carried[k].stage)
         /\ Account(Recorded, IF carried[k].stage = "done" THEN 1 ELSE 0, i, cache[i],
                    i \in ahead, i \in dropped,
                    IF carried[k].stage = "added" THEN handlers[k].added ELSE {}, remote[i])
<1> DEFINE m == handlers[1]
           q == Recorded
<1>1. /\ LogFacts /\ Shape(q) /\ cache \in Store /\ remote \in Store
  BY ReplayFacts
<1>2. k = 1 /\ up /\ DOMAIN handlers = {1} /\ Out = {m}
  BY <1>1, OnlyOneOut
<1>3. /\ FirstIsOut /\ DataIsFresh /\ AllRight /\ StagesFit /\ AllLive
  BY DEF ReplayInv
<1>4. m \in Message /\ m.entities \subseteq Entities
  <2>1. \A n \in DOMAIN handlers : handlers[n] \in Message
    BY <1>1 DEF LogFacts
  <2>2. m \in Message
    BY <1>2, <2>1
  <2> QED  BY <2>2 DEF Message
<1>5. i \in m.entities /\ i \notin raced /\ i \notin muddled /\ i \in Entities
  BY <1>2, <1>4
<1>6. q \in Seq(Message) /\ q = rec.pending
  BY <1>1, <1>2 DEF LogFacts
<1>7. q # <<>> /\ q[1] = m
  <2>1. q # <<>> /\ Head(q) = m
    BY <1>2, <1>3, <1>5 DEF FirstIsOut
  <2> QED  BY <1>6, <2>1
<1>8. cache[i] \in Data /\ remote[i] \in Data
  BY <1>1, <1>5 DEF Store
<1>9. Heads(q, i, cache[i])
  <2>1. \A j \in DOMAIN q : q[j].op \in Kinds
    BY <1>1 DEF Shape
  <2>2. cache[i].there => \A j \in DOMAIN q : ~Removes(q[j], i)
    BY <1>3, <1>5 DEF AllLive, Life
  <2> HIDE DEF q, m
  <2> QED  BY <1>5, <1>6, <1>7, <1>8, <2>1, <2>2 DEF Heads
<1>10. carried[1].data[i] = cache[i]
  BY <1>2, <1>3, <1>5 DEF DataIsFresh
<1>11. StageFits(m, carried[1].stage)
  BY <1>2, <1>3 DEF StagesFit
<1>12. Account(q, Since(Uploaded, i), i, cache[i], i \in ahead, i \in dropped, SoFar(i), remote[i])
  BY <1>3, <1>5 DEF AllRight
<1>13. Since(Uploaded, i) = IF carried[1].stage = "done" THEN 1 ELSE 0
  BY <1>2, <1>5, OneStaged DEF OnlyStaged, Since
<1>14. SoFar(i) = IF carried[1].stage = "added" THEN m.added ELSE {}
  BY <1>2, <1>5, OneStaged DEF OnlyStaged
<1>15. Account(q, IF carried[1].stage = "done" THEN 1 ELSE 0, i, cache[i], i \in ahead, i \in dropped,
               IF carried[1].stage = "added" THEN m.added ELSE {}, remote[i])
  BY <1>12, <1>13, <1>14
<1> QED  BY <1>2, <1>5, <1>6, <1>7, <1>8, <1>9, <1>10, <1>11, <1>15

\* A request to the server takes the resource one stage further.
LEMMA RequestKeeps ==
  ASSUME Repeatable, ReplayInv, NEW k \in DOMAIN handlers, UNCHANGED vars,
         workload' = workload, cache' = cache, raced' = raced, muddled' = muddled,
         displaced' = displaced, remote' \in Store, ahead' \subseteq Entities,
         dropped' \subseteq Entities, doubled' \subseteq Entities,
         NEW t \in Stages, Reach(k, t), StageFits(handlers[k], t), carried[k].stage # "done",
         \A i \in Entities \ handlers[k].entities :
           remote'[i] = remote[i] /\ (i \in ahead' <=> i \in ahead) /\ (i \in dropped' <=> i \in dropped),
         ~displaced =>
           \A i \in handlers[k].entities \ (raced \cup muddled) :
             Account(Recorded, IF t = "done" THEN 1 ELSE 0, i, cache[i], i \in ahead', i \in dropped',
                     IF t = "added" THEN handlers[k].added ELSE {}, remote'[i])
  PROVE  ReplayInv'
<1> DEFINE m == handlers[1]
<1>1. /\ Undisturbed /\ Attentive(heard) /\ LogInv /\ LogFacts /\ Shape(Recorded)
      /\ cache \in Store /\ remote \in Store /\ workload \in Workloads
      /\ carried \in [DOMAIN handlers -> [stage : Stages, data : Store]]
      /\ raced \subseteq Entities /\ muddled \subseteq Entities
      /\ displaced \in BOOLEAN
  BY ReplayFacts
<1>2. k = 1 /\ up /\ DOMAIN handlers = {1} /\ Out = {m}
  BY <1>1, OnlyOneOut
<1>3. carried' = [carried EXCEPT ![1].stage = t]
  BY <1>2 DEF Reach
<1>4. /\ rec' = rec /\ up' = up /\ heard' = heard /\ replaying' = replaying
      /\ handlers' = handlers /\ spent' = spent
  BY DEF vars
<1>5. LogInv' /\ TypeOK'
  <2>1. RecorderInv'
    BY <1>1, StepKeepsInv DEF LogInv
  <2>2. LogInv'
    BY <1>1, <1>4, <2>1 DEF LogInv
  <2> QED  BY <2>2, TypesOfLogNext
<1>6. Recorded' = Recorded /\ Out' = Out
  BY <1>4 DEF Recorded, Out
<1>7. carried[1] \in [stage : Stages, data : Store]
  BY <1>1, <1>2
<1>8. /\ carried'[1].stage = t /\ carried'[1].data = carried[1].data
      /\ carried' \in [DOMAIN handlers' -> [stage : Stages, data : Store]]
  BY <1>1, <1>2, <1>3, <1>4, <1>7
<1>9. /\ Uploaded = {}
      /\ Uploaded' = IF t = "done" THEN m.entities ELSE {}
      /\ \A i : SoFar(i) = IF carried[1].stage = "added" /\ i \in m.entities THEN m.added ELSE {}
      /\ \A i : SoFar(i)' = IF t = "added" /\ i \in m.entities THEN m.added ELSE {}
  BY <1>2, <1>4, <1>8, OneStaged, OneStagedNext DEF OnlyStaged
<1>10. CoreTypes'
  <2>1. \A items \in {raced', ahead', muddled', dropped', doubled'} : items \subseteq Entities
    BY <1>1
  <2> QED  BY <1>1, <1>5, <1>8, <2>1 DEF CoreTypes
<1>11. Shape(Recorded') /\ AllLive' /\ StagesFit'
  <2>1. StagesFit'
    BY <1>2, <1>4, <1>8 DEF StagesFit
  <2> QED  BY <1>1, <1>6, <2>1 DEF ReplayInv, AllLive
<1>12. CASE displaced
  BY <1>5, <1>10, <1>11, <1>12 DEF ReplayInv
<1>13. CASE ~displaced
  <2>1. FirstIsOut /\ DataIsFresh /\ AllRight
    BY <1>13 DEF ReplayInv
  <2>2. FirstIsOut'
    BY <1>6, <2>1 DEF FirstIsOut
  <2>3. DataIsFresh'
    BY <1>2, <1>4, <1>8, <2>1 DEF DataIsFresh
  <2>4. AllRight'
    <3> SUFFICES ASSUME NEW i \in Entities \ (raced \cup muddled)
                 PROVE  Account(Recorded, Since(Uploaded', i), i, cache[i], i \in ahead', i \in dropped',
                                SoFar(i)', remote'[i])
      BY <1>6 DEF AllRight
    <3>1. CASE i \in m.entities
      <4>1. /\ Since(Uploaded', i) = IF t = "done" THEN 1 ELSE 0
            /\ SoFar(i)' = IF t = "added" THEN m.added ELSE {}
        BY <1>9, <3>1 DEF Since
      <4>2. Account(Recorded, IF t = "done" THEN 1 ELSE 0, i, cache[i], i \in ahead', i \in dropped',
                    IF t = "added" THEN m.added ELSE {}, remote'[i])
        BY <1>2, <1>13, <3>1
      <4> QED  BY <4>1, <4>2
    <3>2. CASE i \notin m.entities
      <4>1. /\ Since(Uploaded', i) = 0 /\ SoFar(i)' = {}
            /\ Since(Uploaded, i) = 0 /\ SoFar(i) = {}
        BY <1>9, <3>2 DEF Since
      <4>2. remote'[i] = remote[i] /\ (i \in ahead' <=> i \in ahead) /\ (i \in dropped' <=> i \in dropped)
        BY <1>2, <3>2
      <4>3. Account(Recorded, 0, i, cache[i], i \in ahead, i \in dropped, {}, remote[i])
        <5>1. Account(Recorded, Since(Uploaded, i), i, cache[i], i \in ahead, i \in dropped,
                      SoFar(i), remote[i])
          BY <2>1 DEF AllRight
        <5> QED  BY <4>1, <5>1
      <4>4. Account(Recorded, 0, i, cache[i], i \in ahead', i \in dropped', {}, remote[i])
        BY <4>2, <4>3
      <4> QED  BY <4>1, <4>2, <4>4
    <3> QED  BY <3>1, <3>2
  <2> QED  BY <1>5, <1>10, <1>11, <2>2, <2>3, <2>4 DEF ReplayInv
<1> QED  BY <1>12, <1>13

\* What every request leaves alone, and what the change it is for is like.
LEMMA RequestFacts ==
  ASSUME Repeatable, ReplayInv, NEW k \in DOMAIN handlers
  PROVE  /\ handlers[k] \in Message /\ handlers[k].entities \subseteq Entities
         /\ carried[k] \in [stage : Stages, data : Store]
         /\ remote \in Store /\ cache \in Store /\ up /\ rec.pending = Recorded
         /\ ahead \subseteq Entities /\ dropped \subseteq Entities /\ doubled \subseteq Entities
         /\ Sent(k) \subseteq handlers[k].entities
         /\ handlers[k].entities \cap FlagsRecorded(rec) \subseteq Entities
<1>1. /\ LogFacts /\ remote \in Store /\ cache \in Store
      /\ carried \in [DOMAIN handlers -> [stage : Stages, data : Store]]
      /\ ahead \subseteq Entities /\ dropped \subseteq Entities /\ doubled \subseteq Entities
  BY ReplayFacts
<1>2. handlers[k] \in Message /\ handlers[k].entities \subseteq Entities
  <2>1. \A n \in DOMAIN handlers : handlers[n] \in Message
    BY <1>1 DEF LogFacts
  <2> QED  BY <2>1 DEF Message
<1>3. up
  BY <1>1, OnlyOneOut
<1> QED  BY <1>1, <1>2, <1>3 DEF LogFacts, Sent

\* A message is appended, which no item names yet.
LEMMA AppendMessageKeeps ==
  ASSUME Repeatable, ReplayInv, NEW k \in DOMAIN handlers, AppendMessage(k)
  PROVE  ReplayInv'
<1>1. /\ UNCHANGED vars /\ workload' = workload /\ cache' = cache /\ remote' = remote
      /\ raced' = raced /\ ahead' = ahead /\ muddled' = muddled /\ dropped' = dropped
      /\ doubled' = doubled /\ displaced' = displaced
      /\ Reach(k, "appended") /\ Uploading(k) /\ carried[k].stage = "given"
  BY DEF AppendMessage, history
<1>2. "appended" \in Stages /\ StageFits(handlers[k], "appended")
  BY <1>1 DEF Stages, StageFits, Uploading
<1>3. ASSUME ~displaced, NEW i \in handlers[k].entities \ (raced \cup muddled)
      PROVE  Account(Recorded, 0, i, cache[i], i \in ahead, i \in dropped, {}, remote[i])
  BY <1>1, <1>3, HeadFacts
<1>4. ASSUME ~displaced, NEW i \in handlers[k].entities \ (raced \cup muddled)
      PROVE  Account(Recorded, IF "appended" = "done" THEN 1 ELSE 0, i, cache[i], i \in ahead',
                     i \in dropped', IF "appended" = "added" THEN handlers[k].added ELSE {},
                     remote'[i])
  BY <1>1, <1>3, <1>4
<1> QED  BY <1>1, <1>2, <1>4, RequestFacts, RequestKeeps

\* Marking messages as deleted leaves data on the server.
LEMMA UnmessageType ==
  ASSUME NEW S \in SUBSET Entities, remote \in Store, Unmessage(S)
  PROVE  /\ remote' \in Store
         /\ \A i \in Entities \ S : remote'[i] = remote[i]
         /\ \A i \in S : remote'[i].there = FALSE
<1>1. remote' = [i \in Entities |->
                  IF i \in S THEN [remote[i] EXCEPT !.there = FALSE] ELSE remote[i]]
  BY DEF Unmessage
<1>2. ASSUME NEW i \in Entities PROVE remote[i] \in Data /\ [remote[i] EXCEPT !.there = FALSE] \in Data
  BY DEF Store, Data
<1>3. \A i \in Entities : [remote[i] EXCEPT !.there = FALSE].there = FALSE
  BY DEF Store, Data
<1> QED  BY <1>1, <1>2, <1>3 DEF Store

\* The message that is replaced is marked as deleted.
LEMMA ClearKeeps ==
  ASSUME Repeatable, ReplayInv, NEW k \in DOMAIN handlers, Clear(k)
  PROVE  ReplayInv'
<1>1. /\ UNCHANGED vars /\ workload' = workload /\ cache' = cache
      /\ raced' = raced /\ ahead' = ahead /\ muddled' = muddled /\ dropped' = dropped
      /\ doubled' = doubled /\ displaced' = displaced
      /\ Reach(k, "cleared") /\ handlers[k].op = "Modify" /\ carried[k].stage = "appended"
      /\ Unmessage(Sent(k))
  BY DEF Clear, history
<1>2. "cleared" \in Stages /\ StageFits(handlers[k], "cleared")
  BY <1>1 DEF Stages, StageFits
<1>3. /\ remote' \in Store
      /\ \A i \in Entities \ Sent(k) : remote'[i] = remote[i]
      /\ \A i \in Sent(k) : remote'[i].there = FALSE
  BY <1>1, RequestFacts, UnmessageType
<1>4. ASSUME ~displaced, NEW i \in handlers[k].entities \ (raced \cup muddled)
      PROVE  Account(Recorded, 0, i, cache[i], i \in ahead', i \in dropped', {}, remote'[i])
  <2>1. /\ Recorded[1] = handlers[k] /\ Heads(Recorded, i, cache[i])
        /\ carried[k].data[i] = cache[i] /\ i \in Entities
        /\ Account(Recorded, 0, i, cache[i], i \in ahead, i \in dropped, {}, remote[i])
    BY <1>1, <1>4, HeadFacts
  <2>2. CASE i \in Sent(k)
    <3>1. Recorded[1].op = "Modify" /\ cache[i].there /\ remote'[i].there = FALSE
      BY <1>1, <1>3, <2>1, <2>2 DEF Sent
    <3>2. ASSUME NEW late, NEW lost, Account(Recorded, 0, i, cache[i], late, lost, {}, remote[i])
          PROVE  Account(Recorded, 0, i, cache[i], late, lost, {}, remote'[i])
      BY <2>1, <3>1, <3>2, ClearedIsAccounted
    <3> QED  BY <1>1, <2>1, <3>2, Zenon
  <2>3. CASE i \notin Sent(k)
    BY <1>1, <1>3, <2>1, <2>3
  <2> QED  BY <2>2, <2>3
<1>5. ASSUME ~displaced, NEW i \in handlers[k].entities \ (raced \cup muddled)
      PROVE  Account(Recorded, IF "cleared" = "done" THEN 1 ELSE 0, i, cache[i], i \in ahead',
                     i \in dropped', IF "cleared" = "added" THEN handlers[k].added ELSE {},
                     remote'[i])
  BY <1>4, <1>5
<1>6. \A i \in Entities \ handlers[k].entities : remote'[i] = remote[i]
  BY <1>3, RequestFacts
<1> QED  BY <1>1, <1>2, <1>3, <1>5, <1>6, RequestFacts, RequestKeeps

\* What an upload makes of the flag changes that are recorded.
LEMMA EndOfUpload ==
  ASSUME Repeatable, ReplayInv, NEW k \in DOMAIN handlers, EndUpload(k)
  PROVE  /\ UNCHANGED vars /\ workload' = workload /\ cache' = cache
         /\ raced' = raced /\ muddled' = muddled /\ displaced' = displaced
         /\ Reach(k, "done") /\ "done" \in Stages /\ StageFits(handlers[k], "done")
         /\ handlers[k].op \in {"Add", "Modify"} /\ carried[k].stage # "done"
         /\ carried[k].stage # "added"
         /\ ahead' \subseteq Entities /\ ahead \subseteq ahead'
         /\ \A i \in Entities \ handlers[k].entities : i \in ahead' <=> i \in ahead
         /\ \A i \in handlers[k].entities : i \in ahead' \/ Silent(Recorded, i)
<1>1. /\ ahead' = ahead \cup (handlers[k].entities \cap FlagsRecorded(rec))
      /\ carried[k].stage \in {"appended", "cleared"}
  BY DEF EndUpload
<1>2. \A i : i \notin FlagsRecorded(rec) => Silent(Recorded, i)
  BY RequestFacts, SilentUnlessRecorded
<1>3. \A i \in handlers[k].entities : i \in ahead' \/ Silent(Recorded, i)
  BY <1>1, <1>2
<1>4. ahead' \subseteq Entities
  BY <1>1, RequestFacts
<1> QED  BY <1>1, <1>3, <1>4 DEF EndUpload, Stages, StageFits, Uploading

\* Less is known of an item that is ahead or lost.
LEMMA LaterIsAccounted ==
  ASSUME NEW q, NEW s, NEW i, NEW c, NEW late, NEW later, late => later,
         NEW lost, NEW missing, lost => missing, NEW plus, NEW e,
         Account(q, s, i, c, late, lost, plus, e)
  PROVE  Account(q, s, i, c, later, missing, plus, e)
<1>1. PICK d \in Data : ItemRight(q, s, i, c, d, late) /\ (lost \/ Shows(d, plus, e))
  BY DEF Account
<1>2. ASSUME NEW x \in Marks, FlagAt(q, s, i, x, c.flags, d, late)
      PROVE  FlagAt(q, s, i, x, c.flags, d, later)
  BY <1>2 DEF FlagAt
<1>3. ItemRight(q, s, i, c, d, later)
  BY <1>1, <1>2 DEF ItemRight
<1> QED  BY <1>1, <1>3 DEF Account

\* The item names its new message.
LEMMA CommitKeeps ==
  ASSUME Repeatable, ReplayInv, NEW k \in DOMAIN handlers, Commit(k)
  PROVE  ReplayInv'
<1> DEFINE named == {i \in Sent(k) : cache[i].there}
<1>1. /\ UNCHANGED vars /\ workload' = workload /\ cache' = cache
      /\ raced' = raced /\ muddled' = muddled /\ displaced' = displaced
      /\ Reach(k, "done") /\ "done" \in Stages /\ StageFits(handlers[k], "done")
      /\ handlers[k].op \in {"Add", "Modify"} /\ carried[k].stage # "done"
      /\ carried[k].stage # "added"
      /\ ahead' \subseteq Entities /\ ahead \subseteq ahead'
      /\ \A i \in Entities \ handlers[k].entities : i \in ahead' <=> i \in ahead
      /\ \A i \in handlers[k].entities : i \in ahead' \/ Silent(Recorded, i)
  BY EndOfUpload DEF Commit
<1>2. /\ remote' = [i \in Entities |-> IF i \in named THEN carried[k].data[i] ELSE remote[i]]
      /\ dropped' = dropped \ named
      /\ doubled' = IF LeavesOld(k) THEN doubled \cup Sent(k) ELSE doubled
  BY DEF Commit
<1>3. named \subseteq Sent(k)
  OBVIOUS
<1>4. /\ handlers[k].entities \subseteq Entities /\ Sent(k) \subseteq handlers[k].entities
      /\ carried[k].data \in Store /\ remote \in Store
      /\ dropped \subseteq Entities /\ doubled \subseteq Entities
  BY RequestFacts
<1>5. remote' \in Store /\ dropped' \subseteq Entities /\ doubled' \subseteq Entities
  <2>1. remote' \in Store
    BY <1>2, <1>4 DEF Store
  <2> QED  BY <1>2, <1>4, <2>1
<1>6. ASSUME ~displaced, NEW i \in handlers[k].entities \ (raced \cup muddled)
      PROVE  Account(Recorded, 1, i, cache[i], i \in ahead', i \in dropped', {}, remote'[i])
  <2>1. /\ Recorded \in Seq(Message) /\ Recorded[1] = handlers[k] /\ Heads(Recorded, i, cache[i])
        /\ carried[k].data[i] = cache[i] /\ i \in Entities
        /\ Account(Recorded, 0, i, cache[i], i \in ahead, i \in dropped, {}, remote[i])
    BY <1>1, <1>6, HeadFacts
  <2>2. Recorded[1].op \in {"Add", "Modify"} /\ (i \in ahead' \/ Silent(Recorded, i))
        /\ (i \in ahead => i \in ahead')
    BY <1>1, <2>1
  <2>3. CASE cache[i].there
    <3>1. i \in named
      BY <2>1, <2>3 DEF Sent
    <3>2. remote'[i] = cache[i] /\ i \notin dropped'
      BY <1>2, <2>1, <3>1
    <3>3. ASSUME NEW late, NEW later, late => later, later \/ Silent(Recorded, i), NEW lost,
                 NEW missing, Account(Recorded, 0, i, cache[i], late, lost, {}, remote[i])
          PROVE  Account(Recorded, 1, i, cache[i], later, missing, {}, cache[i])
      <4>1. Account(Recorded, 1, i, cache[i], later, FALSE, {}, cache[i])
        BY <2>1, <2>2, <2>3, <3>3, UploadIsAccounted
      <4> QED  BY <4>1 DEF Account
    <3>4. Account(Recorded, 1, i, cache[i], i \in ahead', i \in dropped', {}, cache[i])
      BY <2>1, <2>2, <3>3, Zenon
    <3> QED  BY <3>2, <3>4
  <2>4. CASE ~cache[i].there
    <3>1. i \notin named
      BY <2>4
    <3>2. remote'[i] = remote[i] /\ (i \in dropped => i \in dropped')
      BY <1>2, <2>1, <3>1
    <3>3. ASSUME NEW late, NEW later, late => later, NEW lost, NEW missing, lost => missing,
                 Account(Recorded, 0, i, cache[i], late, lost, {}, remote[i])
          PROVE  Account(Recorded, 1, i, cache[i], later, missing, {}, remote[i])
      <4>1. Account(Recorded, 1, i, cache[i], late, lost, {}, remote[i])
        BY <2>1, <2>2, <2>4, <3>3, NothingIsAccounted
      <4> QED  BY <3>3, <4>1, LaterIsAccounted
    <3>4. Account(Recorded, 1, i, cache[i], i \in ahead', i \in dropped', {}, remote[i])
      BY <2>1, <2>2, <3>2, <3>3, Zenon
    <3> QED  BY <3>2, <3>4
  <2> QED  BY <2>3, <2>4
<1>7. ASSUME ~displaced, NEW i \in handlers[k].entities \ (raced \cup muddled)
      PROVE  Account(Recorded, IF "done" = "done" THEN 1 ELSE 0, i, cache[i], i \in ahead',
                     i \in dropped', IF "done" = "added" THEN handlers[k].added ELSE {},
                     remote'[i])
  BY <1>6, <1>7
<1>8. \A i \in Entities \ handlers[k].entities :
        remote'[i] = remote[i] /\ (i \in dropped' <=> i \in dropped)
  BY <1>2, <1>4
<1> HIDE DEF named
<1> QED  BY <1>1, <1>5, <1>7, <1>8, RequestKeeps

\* The item does not name its new message.
LEMMA LoseKeeps ==
  ASSUME Repeatable, ReplayInv, NEW k \in DOMAIN handlers, Lose(k)
  PROVE  ReplayInv'
<1>1. /\ UNCHANGED vars /\ workload' = workload /\ cache' = cache
      /\ raced' = raced /\ muddled' = muddled /\ displaced' = displaced
      /\ Reach(k, "done") /\ "done" \in Stages /\ StageFits(handlers[k], "done")
      /\ handlers[k].op \in {"Add", "Modify"} /\ carried[k].stage # "done"
      /\ carried[k].stage # "added"
      /\ ahead' \subseteq Entities /\ ahead \subseteq ahead'
      /\ \A i \in Entities \ handlers[k].entities : i \in ahead' <=> i \in ahead
      /\ \A i \in handlers[k].entities : i \in ahead' \/ Silent(Recorded, i)
  BY EndOfUpload DEF Lose
<1>2. /\ \/ remote' = [i \in Entities |->
                        IF i \in Sent(k) THEN [remote[i] EXCEPT !.there = FALSE] ELSE remote[i]]
         \/ remote' = remote
      /\ dropped' = dropped \cup Sent(k) /\ doubled' = doubled \cup Sent(k)
  BY DEF Lose
<1>3. /\ handlers[k].entities \subseteq Entities /\ Sent(k) \subseteq handlers[k].entities
      /\ remote \in Store /\ dropped \subseteq Entities /\ doubled \subseteq Entities
  BY RequestFacts
<1>4. /\ remote' \in Store /\ dropped' \subseteq Entities /\ doubled' \subseteq Entities
      /\ \A i \in Entities \ Sent(k) : remote'[i] = remote[i]
  <2>1. \A i \in Entities : remote[i] \in Data /\ [remote[i] EXCEPT !.there = FALSE] \in Data
    BY <1>3 DEF Store, Data
  <2>2. remote' \in Store
    BY <1>2, <1>3, <2>1 DEF Store
  <2> QED  BY <1>2, <1>3, <2>2
<1>5. ASSUME ~displaced, NEW i \in handlers[k].entities \ (raced \cup muddled)
      PROVE  Account(Recorded, 1, i, cache[i], i \in ahead', i \in dropped', {}, remote'[i])
  <2>1. /\ Recorded[1] = handlers[k] /\ Heads(Recorded, i, cache[i])
        /\ carried[k].data[i] = cache[i] /\ i \in Entities
        /\ Account(Recorded, 0, i, cache[i], i \in ahead, i \in dropped, {}, remote[i])
    BY <1>1, <1>5, HeadFacts
  <2>2. Recorded[1].op \in {"Add", "Modify"} /\ (i \in ahead' \/ Silent(Recorded, i))
        /\ (i \in ahead => i \in ahead')
    BY <1>1, <2>1
  <2>3. CASE i \in Sent(k)
    <3>1. i \in dropped'
      BY <1>2, <2>3
    <3>2. ASSUME NEW late, NEW later, late => later, later \/ Silent(Recorded, i), NEW lost,
                 NEW missing, missing, Account(Recorded, 0, i, cache[i], late, lost, {}, remote[i])
          PROVE  Account(Recorded, 1, i, cache[i], later, missing, {}, remote'[i])
      <4>1. Recorded[1].op \in {"Add", "Modify"} /\ cache[i].there => later \/ Silent(Recorded, i)
        BY <3>2
      <4>2. Account(Recorded, 1, i, cache[i], later, TRUE, {}, remote'[i])
        BY <2>1, <3>2, <4>1, DoneIsAccounted
      <4> QED  BY <3>2, <4>2 DEF Account
    <3> QED  BY <2>1, <2>2, <3>1, <3>2, Zenon
  <2>4. CASE i \notin Sent(k)
    <3>1. ~cache[i].there
      BY <1>5, <2>1, <2>4 DEF Sent
    <3>2. remote'[i] = remote[i] /\ (i \in dropped => i \in dropped')
      BY <1>2, <1>4, <2>1, <2>4
    <3>3. ASSUME NEW late, NEW later, late => later, NEW lost, NEW missing, lost => missing,
                 Account(Recorded, 0, i, cache[i], late, lost, {}, remote[i])
          PROVE  Account(Recorded, 1, i, cache[i], later, missing, {}, remote[i])
      <4>1. Account(Recorded, 1, i, cache[i], late, lost, {}, remote[i])
        BY <2>1, <2>2, <3>1, <3>3, NothingIsAccounted
      <4> QED  BY <3>3, <4>1, LaterIsAccounted
    <3>4. Account(Recorded, 1, i, cache[i], i \in ahead', i \in dropped', {}, remote[i])
      BY <2>1, <2>2, <3>2, <3>3, Zenon
    <3> QED  BY <3>2, <3>4
  <2> QED  BY <2>3, <2>4
<1>6. ASSUME ~displaced, NEW i \in handlers[k].entities \ (raced \cup muddled)
      PROVE  Account(Recorded, IF "done" = "done" THEN 1 ELSE 0, i, cache[i], i \in ahead',
                     i \in dropped', IF "done" = "added" THEN handlers[k].added ELSE {},
                     remote'[i])
  BY <1>5, <1>6
<1>7. \A i \in Entities \ handlers[k].entities :
        remote'[i] = remote[i] /\ (i \in dropped' <=> i \in dropped)
  BY <1>2, <1>3, <1>4
<1> QED  BY <1>1, <1>4, <1>6, <1>7, RequestKeeps

\* What a request for flags does to the messages.
Reflagged(S, plus, minus) ==
  /\ UNCHANGED vars /\ workload' = workload /\ cache' = cache
  /\ raced' = raced /\ ahead' = ahead /\ muddled' = muddled /\ dropped' = dropped
  /\ doubled' = doubled /\ displaced' = displaced
  /\ remote' \in Store
  /\ \A i \in Entities \ S : remote'[i] = remote[i]
  /\ \A i \in S :
       /\ remote'[i] \in Data /\ remote'[i].there = remote[i].there
       /\ remote[i].there => /\ remote'[i].body = remote[i].body
                             /\ remote'[i].flags = (remote[i].flags \cup plus) \ minus

LEMMA ReflagType ==
  ASSUME NEW k \in DOMAIN handlers, handlers[k].entities \subseteq Entities, remote \in Store,
         NEW plus \in SUBSET Marks, NEW minus \in SUBSET Marks, Reflag(k, plus, minus)
  PROVE  handlers[k].op = "ModifyFlags" /\ Reflagged(handlers[k].entities, plus, minus)
<1>1. remote' = [i \in Entities |->
                  IF i \in handlers[k].entities /\ remote[i].there
                  THEN [remote[i] EXCEPT !.flags = (@ \cup plus) \ minus] ELSE remote[i]]
  BY DEF Reflag
<1>2. ASSUME NEW i \in Entities
      PROVE  /\ remote[i] \in Data /\ remote'[i] \in Data /\ remote'[i].there = remote[i].there
             /\ i \notin handlers[k].entities => remote'[i] = remote[i]
             /\ i \in handlers[k].entities /\ remote[i].there =>
                  /\ remote'[i].body = remote[i].body
                  /\ remote'[i].flags = (remote[i].flags \cup plus) \ minus
  <2>1. remote[i] \in Data
    BY DEF Store
  <2>2. remote'[i] = IF i \in handlers[k].entities /\ remote[i].there
                     THEN [remote[i] EXCEPT !.flags = (remote[i].flags \cup plus) \ minus]
                     ELSE remote[i]
    BY <1>1
  <2> QED  BY <2>1, <2>2 DEF Data
<1>3. remote' \in Store
  BY <1>1, <1>2 DEF Store
<1> QED  BY <1>2, <1>3 DEF Reflag, Reflagged, history

\* Flags are added.
LEMMA StoreAddedKeeps ==
  ASSUME Repeatable, ReplayInv, NEW k \in DOMAIN handlers, StoreAdded(k)
  PROVE  ReplayInv'
<1> DEFINE m == handlers[k]
           t == IF m.removed = {} THEN "done" ELSE "added"
<1>1. m \in Message /\ m.entities \subseteq Entities /\ remote \in Store
      /\ m.added \in SUBSET Marks /\ m.removed \in SUBSET Marks /\ {} \in SUBSET Marks
      /\ ahead \subseteq Entities /\ dropped \subseteq Entities /\ doubled \subseteq Entities
  <2>1. m \in Message
    BY RequestFacts
  <2>2. m.added \in SUBSET Marks /\ m.removed \in SUBSET Marks
    BY <2>1 DEF Message
  <2> QED  BY <2>1, <2>2, RequestFacts
<1>2. carried[k].stage = "given" /\ Reach(k, t) /\ Reflag(k, m.added, {})
  BY DEF StoreAdded
<1>0. m.op = "ModifyFlags" /\ Reflagged(m.entities, m.added, {})
  BY <1>1, <1>2, ReflagType
<1>3. /\ m.op = "ModifyFlags"
      /\ UNCHANGED vars /\ workload' = workload /\ cache' = cache
      /\ raced' = raced /\ ahead' = ahead /\ muddled' = muddled /\ dropped' = dropped
      /\ doubled' = doubled /\ displaced' = displaced
      /\ remote' \in Store
      /\ \A i \in Entities \ m.entities : remote'[i] = remote[i]
      /\ \A i \in m.entities :
           /\ remote'[i] \in Data /\ remote'[i].there = remote[i].there
           /\ remote[i].there => /\ remote'[i].body = remote[i].body
                                 /\ remote'[i].flags = (remote[i].flags \cup m.added) \ {}
  BY <1>0 DEF Reflagged
<1>4. t \in Stages /\ StageFits(m, t)
  BY <1>3 DEF Stages, StageFits
<1>5. ASSUME ~displaced, NEW i \in m.entities \ (raced \cup muddled)
      PROVE  Account(Recorded, IF t = "done" THEN 1 ELSE 0, i, cache[i], i \in ahead', i \in dropped',
                     IF t = "added" THEN m.added ELSE {}, remote'[i])
  <2>1. /\ Recorded[1] = m /\ Heads(Recorded, i, cache[i]) /\ remote[i] \in Data
        /\ Account(Recorded, 0, i, cache[i], i \in ahead, i \in dropped, {}, remote[i])
    BY <1>2, <1>5, HeadFacts
  <2>2. /\ remote'[i] \in Data /\ remote'[i].there = remote[i].there
        /\ remote[i].there => /\ remote'[i].body = remote[i].body
                              /\ remote'[i].flags = remote[i].flags \cup m.added
    <3>1. \A S : S \ {} = S
      OBVIOUS
    <3> QED  BY <1>3, <1>5, <3>1
  <2>3. CASE m.removed = {}
    <3>1. ASSUME NEW late, NEW lost, Account(Recorded, 0, i, cache[i], late, lost, {}, remote[i])
          PROVE  Account(Recorded, 1, i, cache[i], late, lost, {}, remote'[i])
      <4>1. remote[i].there => remote'[i].body = remote[i].body
              /\ remote'[i].flags = (remote[i].flags \cup m.added) \ Recorded[1].removed
        BY <2>1, <2>2, <2>3
      <4>2. {} \cup m.added = Recorded[1].added
        BY <2>1
      <4>3. Recorded[1].op = "ModifyFlags"
        BY <1>3, <2>1
      <4> QED  BY <2>1, <2>2, <3>1, <4>1, <4>2, <4>3, FlagsAreAccounted
    <3>2. Account(Recorded, 1, i, cache[i], i \in ahead, i \in dropped, {}, remote'[i])
      BY <2>1, <3>1, Zenon
    <3> QED  BY <1>3, <2>3, <3>2
  <2>4. CASE m.removed # {}
    <3>1. ASSUME NEW late, NEW lost, Account(Recorded, 0, i, cache[i], late, lost, {}, remote[i])
          PROVE  Account(Recorded, 0, i, cache[i], late, lost, m.added, remote'[i])
      BY <2>1, <2>2, <3>1, AddedIsAccounted
    <3>2. Account(Recorded, 0, i, cache[i], i \in ahead, i \in dropped, m.added, remote'[i])
      BY <2>1, <3>1, Zenon
    <3> QED  BY <1>3, <2>4, <3>2
  <2> QED  BY <2>3, <2>4
<1> HIDE DEF t
<1> QED  BY <1>1, <1>2, <1>3, <1>4, <1>5, RequestKeeps

\* Flags are removed.
LEMMA StoreRemovedKeeps ==
  ASSUME Repeatable, ReplayInv, NEW k \in DOMAIN handlers, StoreRemoved(k)
  PROVE  ReplayInv'
<1> DEFINE m == handlers[k]
<1>1. m \in Message /\ m.entities \subseteq Entities /\ remote \in Store
      /\ m.added \in SUBSET Marks /\ m.removed \in SUBSET Marks /\ {} \in SUBSET Marks
      /\ ahead \subseteq Entities /\ dropped \subseteq Entities /\ doubled \subseteq Entities
  <2>1. m \in Message
    BY RequestFacts
  <2>2. m.added \in SUBSET Marks /\ m.removed \in SUBSET Marks
    BY <2>1 DEF Message
  <2> QED  BY <2>1, <2>2, RequestFacts
<1>2. /\ carried[k].stage = IF m.added = {} THEN "given" ELSE "added"
      /\ Reach(k, "done") /\ Reflag(k, {}, m.removed)
  BY DEF StoreRemoved
<1>0. m.op = "ModifyFlags" /\ Reflagged(m.entities, {}, m.removed)
  BY <1>1, <1>2, ReflagType
<1>3. /\ m.op = "ModifyFlags"
      /\ UNCHANGED vars /\ workload' = workload /\ cache' = cache
      /\ raced' = raced /\ ahead' = ahead /\ muddled' = muddled /\ dropped' = dropped
      /\ doubled' = doubled /\ displaced' = displaced
      /\ remote' \in Store
      /\ \A i \in Entities \ m.entities : remote'[i] = remote[i]
      /\ \A i \in m.entities :
           /\ remote'[i] \in Data /\ remote'[i].there = remote[i].there
           /\ remote[i].there => /\ remote'[i].body = remote[i].body
                                 /\ remote'[i].flags = (remote[i].flags \cup {}) \ m.removed
  BY <1>0 DEF Reflagged
<1>4. "done" \in Stages /\ StageFits(m, "done")
  BY DEF Stages, StageFits
<1>5. ASSUME ~displaced, NEW i \in m.entities \ (raced \cup muddled)
      PROVE  Account(Recorded, 1, i, cache[i], i \in ahead', i \in dropped', {}, remote'[i])
  <2>1. /\ Recorded[1] = m /\ Heads(Recorded, i, cache[i]) /\ remote[i] \in Data
        /\ Account(Recorded, IF carried[k].stage = "done" THEN 1 ELSE 0, i, cache[i],
                   i \in ahead, i \in dropped,
                   IF carried[k].stage = "added" THEN m.added ELSE {}, remote[i])
    BY <1>5, HeadFacts
  <2>2. Account(Recorded, 0, i, cache[i], i \in ahead, i \in dropped, m.added, remote[i])
    <3>1. carried[k].stage # "done"
      BY <1>2
    <3>2. (IF carried[k].stage = "added" THEN m.added ELSE {}) = m.added
      BY <1>2
    <3> QED  BY <2>1, <3>1, <3>2
  <2>3. /\ remote'[i] \in Data /\ remote'[i].there = remote[i].there
        /\ remote[i].there => /\ remote'[i].body = remote[i].body
                              /\ remote'[i].flags = (remote[i].flags \cup {}) \ Recorded[1].removed
    BY <1>3, <1>5, <2>1
  <2>4. Recorded[1].op = "ModifyFlags" /\ m.added \cup {} = Recorded[1].added
    BY <1>3, <2>1
  <2>5. ASSUME NEW late, NEW lost, Account(Recorded, 0, i, cache[i], late, lost, m.added, remote[i])
        PROVE  Account(Recorded, 1, i, cache[i], late, lost, {}, remote'[i])
    BY <2>1, <2>3, <2>4, <2>5, FlagsAreAccounted
  <2>6. Account(Recorded, 1, i, cache[i], i \in ahead, i \in dropped, {}, remote'[i])
    BY <2>2, <2>5, Zenon
  <2> QED  BY <1>3, <2>6
<1>6. ASSUME ~displaced, NEW i \in m.entities \ (raced \cup muddled)
      PROVE  Account(Recorded, IF "done" = "done" THEN 1 ELSE 0, i, cache[i], i \in ahead',
                     i \in dropped', IF "done" = "added" THEN m.added ELSE {}, remote'[i])
  BY <1>5, <1>6
<1>7. carried[k].stage # "done"
  BY <1>2
<1> QED  BY <1>1, <1>2, <1>3, <1>4, <1>6, <1>7, RequestKeeps

\* Messages are marked as deleted.
LEMMA MarkDeletedKeeps ==
  ASSUME Repeatable, ReplayInv, NEW k \in DOMAIN handlers, MarkDeleted(k)
  PROVE  ReplayInv'
<1> DEFINE m == handlers[k]
<1>1. /\ UNCHANGED vars /\ workload' = workload /\ cache' = cache
      /\ raced' = raced /\ ahead' = ahead /\ muddled' = muddled
      /\ dropped' = dropped \ m.entities
      /\ doubled' = doubled /\ displaced' = displaced
      /\ Reach(k, "done") /\ m.op = "Remove" /\ carried[k].stage = "given"
      /\ Unmessage(m.entities)
  BY DEF MarkDeleted
<1>2. "done" \in Stages /\ StageFits(m, "done")
  BY DEF Stages, StageFits
<1>3. /\ m.entities \subseteq Entities /\ remote \in Store
      /\ ahead \subseteq Entities /\ dropped \subseteq Entities /\ doubled \subseteq Entities
  BY RequestFacts
<1>4. /\ remote' \in Store
      /\ \A i \in Entities \ m.entities : remote'[i] = remote[i]
      /\ \A i \in m.entities : remote'[i].there = FALSE
  BY <1>1, <1>3, UnmessageType
<1>5. ASSUME ~displaced, NEW i \in m.entities \ (raced \cup muddled)
      PROVE  Account(Recorded, 1, i, cache[i], i \in ahead', i \in dropped', {}, remote'[i])
  <2>1. /\ Recorded[1] = m /\ Heads(Recorded, i, cache[i])
        /\ Account(Recorded, 0, i, cache[i], i \in ahead, i \in dropped, {}, remote[i])
    BY <1>1, <1>5, HeadFacts
  <2>2. Recorded[1].op = "Remove" /\ remote'[i].there = FALSE
    BY <1>1, <1>4, <1>5, <2>1
  <2>3. ASSUME NEW late, NEW lost, NEW missing,
               Account(Recorded, 0, i, cache[i], late, lost, {}, remote[i])
        PROVE  Account(Recorded, 1, i, cache[i], late, missing, {}, remote'[i])
    <3>1. Account(Recorded, 1, i, cache[i], late, FALSE, {}, remote'[i])
      BY <2>1, <2>2, <2>3, DeletionIsAccounted
    <3> QED  BY <3>1 DEF Account
  <2>4. Account(Recorded, 1, i, cache[i], i \in ahead, i \in dropped', {}, remote'[i])
    BY <2>1, <2>3, Zenon
  <2> QED  BY <1>1, <2>4
<1>6. ASSUME ~displaced, NEW i \in m.entities \ (raced \cup muddled)
      PROVE  Account(Recorded, IF "done" = "done" THEN 1 ELSE 0, i, cache[i], i \in ahead',
                     i \in dropped', IF "done" = "added" THEN m.added ELSE {}, remote'[i])
  BY <1>5, <1>6
<1>7. \A i \in Entities \ m.entities : i \in dropped' <=> i \in dropped
  BY <1>1
<1>8. dropped' \subseteq Entities
  BY <1>1, <1>3
<1> QED  BY <1>1, <1>2, <1>3, <1>4, <1>6, <1>7, <1>8, RequestKeeps

\* The change leaves the record, whatever was done of it.
LEMMA ReleasedKeeps ==
  ASSUME Repeatable, ReplayInv, NEW k \in DOMAIN handlers, ChangeProcessed(k, TRUE),
         carried' = Without(carried, k), workload' = workload, cache' = cache,
         remote' = remote, raced' = raced, muddled' = muddled, displaced' = displaced,
         NEW X \in SUBSET Entities, ahead' = X \cap FlagsRecorded(rec'),
         dropped' \subseteq Entities, doubled' \subseteq Entities,
         \A i \in Entities \ handlers[k].entities :
           (i \in X <=> i \in ahead) /\ (i \in dropped' <=> i \in dropped),
         ~displaced =>
           \A i \in handlers[k].entities \ (raced \cup muddled) :
             Account(Recorded, 1, i, cache[i], i \in X, i \in dropped', {}, remote[i]),
         copies' = copies, doubled \subseteq doubled', Appended \subseteq doubled'
  PROVE  ReplayInv' /\ Rests
<1> DEFINE m == handlers[1]
           q == Recorded
<1>1. /\ Undisturbed /\ Attentive(heard) /\ LogInv /\ LogFacts /\ Shape(q)
      /\ cache \in Store /\ remote \in Store /\ workload \in Workloads
      /\ carried \in [DOMAIN handlers -> [stage : Stages, data : Store]]
      /\ raced \subseteq Entities /\ muddled \subseteq Entities
      /\ displaced \in BOOLEAN
  BY ReplayFacts
<1>2. /\ k = 1 /\ up /\ DOMAIN handlers = {1} /\ Out = {m} /\ Without(handlers, k) = <<>>
      /\ rec.pipeline = <<>>
  BY <1>1, OnlyOneOut
<1>3. ChangeProcessed(1, TRUE) /\ carried' = Without(carried, 1)
  BY <1>2
<1>4. LogInv' /\ LogFacts' /\ TypeOK'
  <2>1. LogInv'
    BY <1>1, <1>2, <1>3, ChangeProcessedIsDone
  <2> QED  BY <2>1, OutAndRecordedNext, TypesOfLogNext
<1>5. up' /\ rec' = changeProcessed(rec, TRUE) /\ handlers' = <<>>
  BY <1>2, <1>3 DEF ChangeProcessed
<1>6. q = rec.pending /\ q \in Seq(Message)
  BY <1>1, <1>2 DEF LogFacts
<1>7. /\ rec'.pending = IF q = <<>> THEN <<>> ELSE Tail(q)
      /\ rec'.pipeline = <<>>
  BY <1>1, <1>2, <1>5, <1>6, DequeuesFirst DEF changeProcessed, LogFacts
<1>8. Recorded' = rec'.pending
  BY <1>4, <1>5 DEF LogFacts
<1>9. /\ Out' = {} /\ Uploaded' = {} /\ \A i : SoFar(i)' = {}
      /\ DataIsFresh' /\ StagesFit' /\ Appended' = {} /\ ClearedGone'
  BY <1>5, <1>7, NothingOutNext
<1>10. \A i \in Entities \ m.entities : Since(Uploaded, i) = 0 /\ SoFar(i) = {}
  BY <1>2, OneStaged DEF OnlyStaged, Since
<1>11. CoreTypes'
  <2>1. carried' = <<>>
    BY <1>1, <1>2, <1>3, NothingCarried
  <2>2. carried' \in [DOMAIN handlers' -> [stage : Stages, data : Store]]
    BY <1>5, <2>1
  <2>3. \A items \in {raced', ahead', muddled', dropped', doubled'} : items \subseteq Entities
    BY <1>1
  <2> QED  BY <1>1, <1>4, <2>2, <2>3 DEF CoreTypes
<1>12. Shape(Recorded')
  BY <1>1, <1>6, <1>7, <1>8, TailKeepsLife
<1>13. AllLive'
  <2> SUFFICES ASSUME NEW i \in Entities PROVE Life(Recorded', i, cache[i])
    BY DEF AllLive
  <2>1. Life(q, i, cache[i])
    BY DEF ReplayInv, AllLive
  <2> HIDE DEF q
  <2> QED  BY <1>6, <1>7, <1>8, <2>1, TailKeepsLife
<1>14. ASSUME ~displaced PROVE AllRight'
  <2>1. FirstIsOut /\ AllRight
    BY <1>14 DEF ReplayInv
  <2>2. q # <<>> /\ q[1].entities = m.entities
    <3>1. q # <<>> /\ Head(q).entities = m.entities
      BY <1>2, <2>1 DEF FirstIsOut
    <3> QED  BY <1>6, <3>1
  <2>3. Recorded' = Tail(q)
    BY <1>7, <1>8, <2>2
  <2> SUFFICES ASSUME NEW i \in Entities \ (raced \cup muddled)
               PROVE  Account(Tail(q), 0, i, cache[i], i \in ahead', i \in dropped', {}, remote[i])
    BY <1>9, <2>3 DEF AllRight, Since
  <2>4. i \notin ahead' => i \notin X \/ Silent(Tail(q), i)
    BY <1>8, <2>3, SilentUnlessRecorded
  <2> DEFINE s == Since(m.entities, i)
             c == cache[i]
             e == remote[i]
  <2>5. s \in {0, 1} /\ (s = 0 => i \notin q[1].entities)
    BY <2>2 DEF Since
  <2>6. Account(q, s, i, c, i \in X, i \in dropped', {}, e)
    <3>1. CASE i \in m.entities
      <4>1. s = 1
        BY <3>1 DEF Since
      <4> HIDE DEF s
      <4>2. Account(q, 1, i, c, i \in X, i \in dropped', {}, e)
        BY <1>2, <1>14, <3>1
      <4> QED  BY <4>1, <4>2
    <3>2. CASE i \notin m.entities
      <4>1. Since(Uploaded, i) = 0 /\ SoFar(i) = {} /\ s = 0
        BY <1>10, <3>2 DEF Since
      <4> HIDE DEF s
      <4>2. (i \in X <=> i \in ahead) /\ (i \in dropped' <=> i \in dropped)
        BY <1>2, <3>2
      <4>3. Account(q, Since(Uploaded, i), i, c, i \in ahead, i \in dropped, SoFar(i), e)
        BY <2>1 DEF AllRight
      <4> QED  BY <4>1, <4>2, <4>3
    <3> QED  BY <3>1, <3>2
  <2> HIDE DEF q, m, s, c, e
  <2>7. ASSUME NEW late, NEW later, NEW lost, ~later => ~late \/ Silent(Tail(q), i),
               Account(q, s, i, c, late, lost, {}, e)
        PROVE  Account(Tail(q), 0, i, c, later, lost, {}, e)
    BY <1>6, <2>2, <2>5, <2>7, AnsweredIsAccounted
  <2>8. Account(Tail(q), 0, i, c, i \in ahead', i \in dropped', {}, e)
    BY <2>4, <2>6, <2>7, Zenon
  <2> QED  BY <2>8 DEF q, c, e
<1>15. ASSUME ~displaced, NEW i \in Entities, Unmade(i)' PROVE Unmade(i)
  <2>1. FirstIsOut /\ Life(q, i, cache[i])
    BY <1>15 DEF ReplayInv, AllLive
  <2>2. q # <<>> /\ q[1].entities = m.entities
    <3>1. q # <<>> /\ Head(q).entities = m.entities
      BY <1>2, <2>1 DEF FirstIsOut
    <3> QED  BY <1>6, <3>1
  <2>3. Recorded' = Tail(q)
    BY <1>7, <1>8, <2>2
  <2>4. PICK a \in DOMAIN Tail(q) : Adds(Tail(q)[a], i)
    BY <1>15, <2>3 DEF Unmade
  <2> HIDE DEF q, m
  <2>5. /\ a + 1 \in DOMAIN q /\ Tail(q)[a] = q[a + 1] /\ 1 \in DOMAIN q /\ 1 < a + 1
    BY <1>6, <2>2, <2>4
  <2>6. i \notin q[1].entities
    BY <2>1, <2>4, <2>5 DEF Life
  <2>7. i \notin Uploaded
    BY <1>2, <2>2, <2>6, OneStaged DEF OnlyStaged, m
  <2> QED  BY <2>4, <2>5, <2>7 DEF Unmade, q
<1>16. ReplayInv'
  BY <1>4, <1>9, <1>11, <1>12, <1>13, <1>14 DEF ReplayInv, FirstIsOut
<1>17. Rests
  BY <1>9, <1>15 DEF Rests
<1> QED  BY <1>16, <1>17

\* A change of which there was nothing to tell has taken effect.
LEMMA NothingToTell ==
  ASSUME Repeatable, ReplayInv, ~displaced, NEW k \in DOMAIN handlers, ~HasWork(k),
         NEW i \in handlers[k].entities \ (raced \cup muddled), carried[k].stage # "done"
  PROVE  Account(Recorded, 1, i, cache[i], i \in ahead, i \in dropped, {}, remote[i])
<1> DEFINE m == handlers[k]
<1>1. /\ Recorded[1] = m /\ Heads(Recorded, i, cache[i]) /\ remote[i] \in Data
      /\ carried[k].data[i] = cache[i] /\ StageFits(m, carried[k].stage)
      /\ Account(Recorded, 0, i, cache[i], i \in ahead, i \in dropped,
                 IF carried[k].stage = "added" THEN m.added ELSE {}, remote[i])
  BY HeadFacts
<1>2. m.op \in Kinds
  <2>1. 1 \in DOMAIN Recorded
    BY <1>1 DEF Heads
  <2> QED  BY <1>1, <2>1 DEF Heads
<1>3. CASE m.op \in {"Add", "Modify"}
  <2>1. ~cache[i].there
    BY <1>1, <1>3 DEF HasWork, Uploading, Sent
  <2>2. carried[k].stage # "added"
    BY <1>1, <1>3 DEF StageFits
  <2>3. Account(Recorded, 0, i, cache[i], i \in ahead, i \in dropped, {}, remote[i])
    BY <1>1, <2>2
  <2>4. ASSUME NEW late, NEW lost, Account(Recorded, 0, i, cache[i], late, lost, {}, remote[i])
        PROVE  Account(Recorded, 1, i, cache[i], late, lost, {}, remote[i])
    BY <1>1, <1>3, <2>1, <2>4, NothingIsAccounted
  <2> QED  BY <2>3, <2>4, Zenon
<1>4. CASE m.op = "ModifyFlags"
  <2>1. m.added = {} /\ m.removed = {}
    BY <1>4 DEF HasWork
  <2>2. Account(Recorded, 0, i, cache[i], i \in ahead, i \in dropped, {}, remote[i])
    <3>1. (IF carried[k].stage = "added" THEN m.added ELSE {}) = {}
      BY <2>1
    <3> QED  BY <1>1, <3>1
  <2>3. /\ Recorded[1].op = "ModifyFlags" /\ {} \cup {} = Recorded[1].added
        /\ remote[i].flags = (remote[i].flags \cup {}) \ Recorded[1].removed
    BY <1>1, <1>4, <2>1
  <2>4. ASSUME NEW late, NEW lost, Account(Recorded, 0, i, cache[i], late, lost, {}, remote[i])
        PROVE  Account(Recorded, 1, i, cache[i], late, lost, {}, remote[i])
    BY <1>1, <2>3, <2>4, FlagsAreAccounted
  <2> QED  BY <2>2, <2>4, Zenon
<1>5. m.op # "Remove"
  BY DEF HasWork
<1> QED  BY <1>2, <1>3, <1>4, <1>5 DEF Kinds

\* The answer takes the change out of the record.
LEMMA AnswerKeeps ==
  ASSUME Repeatable, ReplayInv, NEW k \in DOMAIN handlers, Answer(k)
  PROVE  ReplayInv' /\ Rests
<1>1. /\ ChangeProcessed(k, TRUE) /\ carried' = Without(carried, k)
      /\ ahead' = ahead \cap FlagsRecorded(rec')
      /\ workload' = workload /\ cache' = cache /\ remote' = remote /\ raced' = raced
      /\ muddled' = muddled /\ dropped' = dropped /\ doubled' = doubled
      /\ displaced' = displaced /\ copies' = copies
      /\ carried[k].stage = "done" \/ ~HasWork(k)
  BY DEF Answer, server
<1>2. ASSUME ~displaced, NEW i \in handlers[k].entities \ (raced \cup muddled)
      PROVE  Account(Recorded, 1, i, cache[i], i \in ahead, i \in dropped', {}, remote[i])
  <2>1. CASE carried[k].stage = "done"
    <3>1. Account(Recorded, IF carried[k].stage = "done" THEN 1 ELSE 0, i, cache[i],
                  i \in ahead, i \in dropped,
                  IF carried[k].stage = "added" THEN handlers[k].added ELSE {}, remote[i])
      BY <1>2, HeadFacts
    <3> QED  BY <1>1, <2>1, <3>1
  <2>2. CASE carried[k].stage # "done"
    BY <1>1, <1>2, <2>2, NothingToTell
  <2> QED  BY <2>1, <2>2
<1>3. Appended = {}
  <2>1. k = 1 /\ DOMAIN handlers = {1} /\ StageFits(handlers[1], carried[1].stage)
    BY ReplayFacts, OnlyOneOut DEF ReplayInv, StagesFit
  <2>2. Appended = IF carried[1].stage \in {"appended", "cleared"} THEN Sent(1) ELSE {}
    BY <2>1, OneStaged DEF OnlyStaged
  <2>3. carried[1].stage \in {"appended", "cleared"} => Sent(1) = {}
    BY <1>1, <2>1 DEF HasWork, Uploading, StageFits
  <2> QED  BY <2>2, <2>3
<1> QED  BY <1>1, <1>2, <1>3, RequestFacts, ReleasedKeeps

\* So does a task that gives up, and then the change is lost.
LEMMA CancelKeeps ==
  ASSUME Repeatable, ReplayInv, NEW k \in DOMAIN handlers, Cancel(k)
  PROVE  ReplayInv' /\ Rests
<1> DEFINE m == handlers[k]
           X == ahead \cup (IF Uploading(k) THEN m.entities ELSE {})
<1>1. /\ ChangeProcessed(k, TRUE) /\ carried' = Without(carried, k)
      /\ ahead' = X \cap FlagsRecorded(rec')
      /\ workload' = workload /\ cache' = cache /\ remote' = remote /\ raced' = raced
      /\ muddled' = muddled /\ dropped' = dropped \cup m.entities
      /\ doubled' = IF carried[k].stage \in {"appended", "cleared"}
                    THEN doubled \cup m.entities ELSE doubled
      /\ displaced' = displaced /\ copies' = copies /\ carried[k].stage # "done"
  BY DEF Cancel, server
<1>2. /\ m.entities \subseteq Entities /\ ahead \subseteq Entities
      /\ dropped \subseteq Entities /\ doubled \subseteq Entities
  BY RequestFacts
<1>3. X \in SUBSET Entities /\ dropped' \subseteq Entities /\ doubled' \subseteq Entities
  BY <1>1, <1>2
<1>4. \A i \in Entities \ m.entities : (i \in X <=> i \in ahead) /\ (i \in dropped' <=> i \in dropped)
  BY <1>1
<1>5. ASSUME ~displaced, NEW i \in m.entities \ (raced \cup muddled)
      PROVE  Account(Recorded, 1, i, cache[i], i \in X, i \in dropped', {}, remote[i])
  <2> DEFINE plus == IF carried[k].stage = "added" THEN m.added ELSE {}
  <2>1. /\ Recorded[1] = m /\ Heads(Recorded, i, cache[i])
        /\ Account(Recorded, 0, i, cache[i], i \in ahead, i \in dropped, plus, remote[i])
    BY <1>1, <1>5, HeadFacts
  <2>2. i \in dropped' /\ (i \in ahead => i \in X)
    BY <1>1
  <2>3. Recorded[1].op \in {"Add", "Modify"} => i \in X
    BY <2>1 DEF Uploading
  <2> HIDE DEF X, plus
  <2>4. ASSUME NEW late, NEW later, late => later, Recorded[1].op \in {"Add", "Modify"} => later,
               NEW lost, NEW missing, missing,
               Account(Recorded, 0, i, cache[i], late, lost, plus, remote[i])
        PROVE  Account(Recorded, 1, i, cache[i], later, missing, {}, remote[i])
    <3>1. Recorded[1].op \in {"Add", "Modify"} /\ cache[i].there => later \/ Silent(Recorded, i)
      BY <2>4
    <3>2. Account(Recorded, 1, i, cache[i], later, TRUE, {}, remote[i])
      BY <2>1, <2>4, <3>1, DoneIsAccounted
    <3> QED  BY <2>4, <3>2 DEF Account
  <2> QED  BY <2>1, <2>2, <2>3, <2>4, Zenon
<1>6. Appended \subseteq doubled' /\ doubled \subseteq doubled'
  <2>1. k = 1 /\ DOMAIN handlers = {1}
    BY ReplayFacts, OnlyOneOut
  <2>2. Appended = IF carried[1].stage \in {"appended", "cleared"} THEN Sent(1) ELSE {}
    BY <2>1, OneStaged DEF OnlyStaged
  <2>3. Sent(1) \subseteq m.entities
    BY <2>1, RequestFacts
  <2> QED  BY <1>1, <2>1, <2>2, <2>3
<1> HIDE DEF X
<1> QED  BY <1>1, <1>3, <1>4, <1>5, <1>6, ReleasedKeeps

\* After a crash, what was repeated and not answered is repeated again.
LEMMA AgentCrashKeeps ==
  ASSUME Repeatable, ReplayInv, AgentCrash
  PROVE  ReplayInv' /\ Rests
<1> DEFINE Begun == {k \in DOMAIN handlers : carried[k].stage \in {"added", "done"}}
           Redone == UNION {handlers[k].entities : k \in Begun}
           Left == UNION {handlers[k].entities : k \in {n \in DOMAIN handlers : LeavesMessage(n)}}
<1>1. /\ Undisturbed /\ Attentive(heard) /\ LogInv /\ LogFacts /\ Shape(Recorded)
      /\ cache \in Store /\ remote \in Store /\ workload \in Workloads
      /\ carried \in [DOMAIN handlers -> [stage : Stages, data : Store]]
      /\ raced \subseteq Entities /\ ahead \subseteq Entities /\ muddled \subseteq Entities
      /\ dropped \subseteq Entities /\ doubled \subseteq Entities
      /\ displaced \in BOOLEAN
  BY ReplayFacts
<1>2. /\ Crash /\ carried' = <<>>
      /\ workload' = workload /\ cache' = cache /\ remote' = remote /\ copies' = copies
      /\ raced' = raced /\ muddled' = muddled /\ dropped' = dropped /\ displaced' = displaced
      /\ ahead' = ahead \cup (FlagsRecorded(rec) \cap Redone)
      /\ doubled' = doubled \cup Left
  BY DEF AgentCrash, server
<1>3. LogInv' /\ LogFacts' /\ TypeOK'
  <2>1. LogInv'
    BY <1>1, <1>2, CrashLosesWhatWasGiven
  <2> QED  BY <2>1, OutAndRecordedNext, TypesOfLogNext
<1>4. up /\ rec' = EmptyRecorder(rec.file) /\ handlers' = <<>>
  BY <1>2 DEF Crash, Died
<1>5. rec'.file = rec.file /\ rec'.pipeline = <<>>
  BY <1>4 DEF EmptyRecorder
<1>6. Recorded' = Recorded /\ Recorded = rec.pending
  BY <1>1, <1>4, <1>5 DEF Recorded, LogFacts
<1>7. /\ Uploaded' = {} /\ Out' = {} /\ \A i : SoFar(i)' = {}
      /\ DataIsFresh' /\ StagesFit' /\ Appended' = {} /\ ClearedGone'
  BY <1>4, <1>5, NothingOutNext
<1>8. Redone \subseteq Entities /\ Left \subseteq Entities
  <2>1. \A k \in DOMAIN handlers : handlers[k].entities \subseteq Entities
    BY RequestFacts
  <2> QED  BY <2>1
<1> HIDE DEF Left
<1>9. CoreTypes'
  <2>1. ahead' \subseteq Entities /\ doubled' \subseteq Entities
    BY <1>1, <1>2, <1>8
  <2>2. carried' \in [DOMAIN handlers' -> [stage : Stages, data : Store]]
    BY <1>2, <1>4
  <2>3. \A items \in {raced', ahead', muddled', dropped', doubled'} : items \subseteq Entities
    BY <1>1, <1>2, <2>1
  <2> QED  BY <1>1, <1>2, <1>3, <2>2, <2>3 DEF CoreTypes
<1>10. Shape(Recorded') /\ AllLive'
  BY <1>1, <1>2, <1>6 DEF ReplayInv, AllLive
<1>11. ASSUME ~displaced PROVE AllRight'
  <2> SUFFICES ASSUME NEW i \in Entities \ (raced \cup muddled)
               PROVE  Account(Recorded, 0, i, cache[i], i \in ahead', i \in dropped, {}, remote[i])
    BY <1>2, <1>6, <1>7 DEF AllRight, Since
  <2>1. Account(Recorded, Since(Uploaded, i), i, cache[i], i \in ahead, i \in dropped,
                SoFar(i), remote[i])
    BY <1>11 DEF ReplayInv, AllRight
  <2>2. i \in ahead => i \in ahead'
    BY <1>2
  <2>3. i \notin FlagsRecorded(rec) => Silent(Recorded, i)
    BY <1>6, SilentUnlessRecorded
  <2>4. CASE i \in Uploaded
    <3>1. PICK k \in DOMAIN handlers : i \in handlers[k].entities /\ carried[k].stage = "done"
      BY <2>4 DEF Uploaded, Staged
    <3>2. ~(i \in ahead') => Silent(Recorded, i)
      BY <1>2, <2>3, <3>1
    <3>3. Account(Recorded, 1, i, cache[i], i \in ahead, i \in dropped, {}, remote[i])
      BY <1>11, <3>1, HeadFacts
    <3>4. ASSUME NEW late, NEW later, ~later => Silent(Recorded, i), NEW lost,
                 Account(Recorded, 1, i, cache[i], late, lost, {}, remote[i])
          PROVE  Account(Recorded, 0, i, cache[i], later, lost, {}, remote[i])
      BY <1>1, <3>4, AgainIsAccounted DEF LogFacts
    <3> QED  BY <3>2, <3>3, <3>4, Zenon
  <2>5. CASE i \notin Uploaded /\ SoFar(i) # {}
    <3>1. PICK k \in DOMAIN handlers : i \in handlers[k].entities /\ carried[k].stage = "added"
      BY <2>5 DEF SoFar, Staged
    <3>2. /\ Recorded[1] = handlers[k] /\ Heads(Recorded, i, cache[i]) /\ Recorded # <<>>
          /\ Recorded \in Seq(Message)
          /\ Account(Recorded, 0, i, cache[i], i \in ahead, i \in dropped, handlers[k].added, remote[i])
          /\ handlers[k].op = "ModifyFlags"
      BY <1>11, <3>1, HeadFacts DEF StageFits
    <3>3. i \in FlagsRecorded(rec)
      <4>1. rec.pending[1] \in Elements(rec.pending)
        BY <1>6, <3>2 DEF Elements
      <4> QED  BY <1>6, <3>1, <3>2, <4>1 DEF FlagsRecorded
    <3>4. i \in ahead'
      BY <1>2, <3>1, <3>3
    <3>5. ASSUME NEW late, NEW later, later, NEW lost,
                 Account(Recorded, 0, i, cache[i], late, lost, handlers[k].added, remote[i])
          PROVE  Account(Recorded, 0, i, cache[i], later, lost, {}, remote[i])
      <4>1. Recorded[1].op = "ModifyFlags" /\ Recorded[1].added = handlers[k].added
        BY <3>2
      <4>2. Account(Recorded, 0, i, cache[i], late, lost, Recorded[1].added, remote[i])
        BY <3>5, <4>1
      <4>3. Account(Recorded, 0, i, cache[i], TRUE, lost, {}, remote[i])
        BY <3>2, <4>1, <4>2, HalfIsAccounted
      <4> QED  BY <3>5, <4>3, LaterIsAccounted
    <3> QED  BY <3>2, <3>4, <3>5, Zenon
  <2>6. CASE i \notin Uploaded /\ SoFar(i) = {}
    <3>1. Account(Recorded, 0, i, cache[i], i \in ahead, i \in dropped, {}, remote[i])
      BY <2>1, <2>6 DEF Since
    <3>2. ASSUME NEW late, NEW later, late => later, NEW lost,
                 Account(Recorded, 0, i, cache[i], late, lost, {}, remote[i])
          PROVE  Account(Recorded, 0, i, cache[i], later, lost, {}, remote[i])
      BY <3>2, LaterIsAccounted
    <3> QED  BY <2>2, <3>1, <3>2, Zenon
  <2> QED  BY <2>4, <2>5, <2>6
<1>12. ASSUME NEW k \in DOMAIN handlers, LeavesMessage(k) PROVE handlers[k].entities \subseteq doubled'
  BY <1>2, <1>12 DEF Left
<1>13. Appended \subseteq doubled'
  <2> SUFFICES ASSUME NEW i \in Appended PROVE i \in doubled'
    OBVIOUS
  <2>1. PICK k \in DOMAIN handlers : i \in Sent(k) /\ carried[k].stage \in {"appended", "cleared"}
    BY DEF Appended, Staged
  <2>2. LeavesMessage(k) /\ i \in handlers[k].entities
    BY <2>1 DEF LeavesMessage, Uploading, Sent, ReplayInv, StagesFit, StageFits
  <2> QED  BY <1>12, <2>2
<1>14. ASSUME ~displaced, NEW i \in Entities \ (raced \cup doubled'), Unmade(i)' PROVE Unmade(i)
  <2>1. PICK a \in DOMAIN Recorded : Adds(Recorded[a], i)
    BY <1>6, <1>14 DEF Unmade
  <2>2. i \notin Uploaded
    <3> SUFFICES ASSUME i \in Uploaded PROVE FALSE
      OBVIOUS
    <3>1. PICK k \in DOMAIN handlers : i \in handlers[k].entities /\ carried[k].stage = "done"
      BY DEF Uploaded, Staged
    <3>2. handlers[k].op # "Add"
      BY <1>12, <1>14, <3>1 DEF LeavesMessage
    <3>3. Recorded # <<>> /\ Recorded[1] = handlers[k] /\ Recorded \in Seq(Message)
      <4>1. handlers[k] \in Out
        BY DEF Out, Elements
      <4>2. Recorded # <<>> /\ Head(Recorded) = handlers[k]
        BY <1>14, <3>1, <4>1 DEF ReplayInv, FirstIsOut
      <4> QED  BY <1>1, <4>2 DEF LogFacts
    <3>4. 1 \in DOMAIN Recorded /\ (a = 1 \/ 1 < a)
      BY <3>3
    <3>5. Life(Recorded, i, cache[i])
      BY <1>14 DEF ReplayInv, AllLive
    <3> QED  BY <2>1, <3>1, <3>2, <3>3, <3>4, <3>5 DEF Life, Adds
  <2> QED  BY <2>1, <2>2 DEF Unmade
<1>15. ReplayInv'
  BY <1>2, <1>3, <1>7, <1>9, <1>10, <1>11 DEF ReplayInv, FirstIsOut
<1>16. Rests
  <2>1. doubled \subseteq doubled'
    BY <1>2
  <2> QED  BY <1>2, <1>7, <1>13, <1>14, <2>1 DEF Rests
<1> QED  BY <1>15, <1>16

\* A change of which nobody is notified: what is recorded stays right about the
\* others.
LEMMA UnnotifiedKeeps ==
  ASSUME Repeatable, ReplayInv, NEW msg \in Message, msg.entities \subseteq Entities,
         TouchesRight(msg), Notified(msg), ~up
  PROVE  ReplayInv' /\ Recorded' = Recorded /\ handlers' = handlers
<1>1. /\ Undisturbed /\ Attentive(heard) /\ LogInv /\ LogFacts /\ Shape(Recorded)
      /\ cache \in Store /\ remote \in Store /\ workload \in Workloads
      /\ carried \in [DOMAIN handlers -> [stage : Stages, data : Store]]
      /\ raced \subseteq Entities /\ ahead \subseteq Entities /\ muddled \subseteq Entities
      /\ dropped \subseteq Entities /\ doubled \subseteq Entities
      /\ displaced \in BOOLEAN
  BY ReplayFacts
<1>2. handlers = <<>> /\ rec.pipeline = <<>>
  BY <1>1 DEF LogFacts
<1>3. /\ Spend("notices", 1) /\ rec' = rec /\ up' = up /\ heard' = heard
      /\ replaying' = replaying /\ handlers' = handlers
      /\ workload' = workload /\ remote' = remote /\ carried' = carried
      /\ raced' = raced \cup (msg.entities \cap InFlight) \cup msg.entities
      /\ ahead' \subseteq ahead \cup msg.entities /\ ahead \subseteq ahead'
      /\ muddled' = muddled \/ muddled' = muddled \cup msg.entities
      /\ dropped' = dropped /\ doubled' = doubled
      /\ displaced' = (displaced \/ Displaces)
  BY DEF Notified, server
<1>4. LogInv' /\ TypeOK'
  <2>1. spent' \in [DOMAIN Bound -> Nat] /\ spent'.failures = spent.failures
    <3>1. spent \in [DOMAIN Bound -> Nat]
      BY <1>1 DEF LogInv, RecorderInv, TypeOK
    <3>2. spent' = [spent EXCEPT !["notices"] = spent["notices"] + 1]
      BY <1>3 DEF Spend
    <3> QED  BY <3>1, <3>2, BoundsAreNumbers
  <2>2. RecorderInv'
    BY <1>1, <1>3, <2>1 DEF LogInv, RecorderInv, TypeOK
  <2>3. LogInv'
    BY <1>1, <1>3, <2>1, <2>2 DEF LogInv
  <2> QED  BY <2>3, TypesOfLogNext
<1>5. /\ Out' = {} /\ Uploaded' = {} /\ \A i : SoFar(i)' = {}
      /\ DataIsFresh' /\ StagesFit'
      /\ Uploaded = {} /\ \A i : SoFar(i) = {}
  BY <1>2, <1>3, NothingOutNext, NoneStaged DEF NothingStaged
<1>6. Recorded' = Recorded
  BY <1>3 DEF Recorded
<1>7. cache' \in Store /\ \A i \in Entities \ msg.entities : cache'[i] = cache[i]
  BY DEF TouchesRight
<1>8. CoreTypes'
  <2>1. raced' \subseteq Entities /\ ahead' \subseteq Entities /\ muddled' \subseteq Entities
    BY <1>1, <1>3
  <2>2. displaced' \in BOOLEAN
    BY <1>3
  <2> QED  BY <1>1, <1>3, <1>4, <1>7, <2>1, <2>2 DEF CoreTypes
<1>9. AllLive'
  <2> SUFFICES ASSUME NEW i \in Entities PROVE Life(Recorded, i, cache'[i])
    BY <1>6 DEF AllLive
  <2>1. Life(Recorded, i, cache[i]) /\ cache[i] \in Data
    BY <1>1 DEF ReplayInv, AllLive, Store
  <2>2. CASE i \notin msg.entities
    BY <1>7, <2>1, <2>2
  <2>3. CASE i \in msg.entities
    <3>1. Touched(msg, i, cache[i], cache'[i])
      BY <2>3 DEF TouchesRight
    <3>2. /\ i \notin DOMAIN AtFirst => cache'[i] # Absent /\ cache'[i].body > 0
          /\ cache'[i].there => \A k \in DOMAIN Recorded : ~Removes(Recorded[k], i)
      BY <2>1, <3>1, TouchedLives
    <3> QED  BY <2>1, <3>2, LifeUnrecorded
  <2> QED  BY <2>2, <2>3
<1>10. ASSUME ~displaced PROVE AllRight'
  <2>1. AllRight
    BY <1>10 DEF ReplayInv
  <2> SUFFICES ASSUME NEW i \in Entities \ (raced' \cup muddled')
               PROVE  Account(Recorded, 0, i, cache'[i], i \in ahead', i \in dropped, {}, remote[i])
    BY <1>3, <1>5, <1>6 DEF AllRight, Since
  <2>2. i \notin raced \cup muddled /\ i \notin msg.entities /\ (i \in ahead <=> i \in ahead')
    BY <1>3
  <2>3. Account(Recorded, 0, i, cache[i], i \in ahead, i \in dropped, {}, remote[i])
    BY <1>5, <2>1, <2>2 DEF AllRight, Since
  <2> QED  BY <1>7, <2>2, <2>3
<1>11. ReplayInv'
  BY <1>1, <1>3, <1>4, <1>5, <1>6, <1>8, <1>9, <1>10 DEF ReplayInv, FirstIsOut
<1> QED  BY <1>3, <1>6, <1>11

-----------------------------------------------------------------------------
(* A change reaches a running agent *)

\* What a change does to the record, where it is not merged out of order.
LEMMA ClearUnlessMuddled ==
  ASSUME NEW msg, NEW later, NEW j, ~Muddles(msg, j),
         j = FirstIn(rec.pending, Stops(rec.pending, msg)),
         later => msg.entities \cap ahead' # {}
  PROVE  Clearly(rec.pending, j, msg, later)
BY DEF Muddles, Clearly

\* A change the agent is notified of is recorded.
LEMMA NotifiedKeeps ==
  ASSUME Repeatable, ReplayInv, NEW msg \in Message, msg.type = "Items", msg.op \in Kinds,
         msg.entities \subseteq Entities, Single(msg), Shape(<<msg>>),
         TouchesRight(msg), Notified(msg), up
  PROVE  ReplayInv' /\ Recorded' = appendAndCompress(Recorded, msg).list /\ handlers' = handlers
<1> DEFINE q == Recorded
           p == appendAndCompress(q, msg).list
<1>1. /\ Undisturbed /\ Attentive(heard) /\ LogInv /\ LogFacts /\ Shape(q)
      /\ cache \in Store /\ remote \in Store /\ workload \in Workloads
      /\ carried \in [DOMAIN handlers -> [stage : Stages, data : Store]]
      /\ raced \subseteq Entities /\ ahead \subseteq Entities /\ muddled \subseteq Entities
      /\ dropped \subseteq Entities /\ doubled \subseteq Entities
      /\ displaced \in BOOLEAN
  BY ReplayFacts
<1>2. /\ Notify(<<msg>>, TRUE)
      /\ workload' = workload /\ remote' = remote /\ carried' = carried
      /\ raced' = raced \cup (msg.entities \cap InFlight)
      /\ ahead' = ahead \cup {i \in msg.entities : \/ msg.added \cap cache[i].flags # {}
                                                   \/ ~(msg.removed \subseteq cache[i].flags)}
      /\ muddled' = IF \E j \in DOMAIN rec.pending : Muddles(msg, j)
                    THEN muddled \cup msg.entities ELSE muddled
      /\ dropped' = dropped /\ doubled' = doubled
      /\ displaced' = (displaced \/ Displaces)
  BY DEF Notified, server
<1>3. up' /\ handlers' = handlers /\ rec' = slotNotify(rec, heard, <<msg>>, TRUE)
  BY <1>2 DEF Notify
<1>4. q = rec.pending /\ q \in Seq(Message)
  BY <1>1 DEF LogFacts
<1>5. /\ LogInv' /\ LogFacts' /\ TypeOK'
      /\ rec'.pipeline = rec.pipeline
      /\ rec'.pending = slotNotify(rec, heard, <<msg>>, TRUE).pending
  <2>1. <<msg>> \in Seq(Message)
    OBVIOUS
  <2>2. /\ LogInv' /\ rec'.pipeline = rec.pipeline
        /\ rec'.pending = slotNotify(rec, heard, <<msg>>, TRUE).pending
    BY <1>1, <1>2, <2>1, NotifyKeepsLog
  <2> QED  BY <2>2, OutAndRecordedNext, TypesOfLogNext
<1>6. rec'.pending = p /\ Recorded' = p /\ p \in Seq(Message)
  <2>1. Sound(rec)
    BY <1>1, RunningLog
  <2>2. rec'.pending = p
    <3>1. TRUE \in BOOLEAN /\ Attentive(heard)
      BY <1>1
    <3>2. slotNotify(rec, heard, <<msg>>, TRUE).pending
            = appendAndCompress(rec.pending, msg).list
      BY <2>1, <3>1, ChangeIsQueued, ZenonT(30)
    <3> QED  BY <1>4, <1>5, <3>2
  <2>3. p \in Seq(Message)
    BY <1>4, appendAndCompressType DEF Outcomes
  <2> QED  BY <1>3, <1>5, <2>2, <2>3 DEF LogFacts
<1>7. /\ Out' = Out /\ Uploaded' = Uploaded /\ \A i : SoFar(i)' = SoFar(i)
      /\ StagesFit'
  BY <1>2, <1>3, <1>5 DEF Out, Uploaded, SoFar, Staged, ReplayInv, StagesFit
<1>8. cache' \in Store /\ \A i \in Entities \ msg.entities : cache'[i] = cache[i]
  BY DEF TouchesRight
<1>9. CoreTypes'
  <2>1. raced' \subseteq Entities /\ ahead' \subseteq Entities /\ muddled' \subseteq Entities
    BY <1>1, <1>2
  <2>2. displaced' \in BOOLEAN
    BY <1>2
  <2> QED  BY <1>1, <1>2, <1>3, <1>5, <1>8, <2>1, <2>2 DEF CoreTypes
<1>10. Shape(Recorded')
  BY <1>1, <1>4, <1>6, ShapeRecorded
<1>11. ASSUME NEW i \in Entities PROVE Life(q, i, cache[i]) /\ cache[i] \in Data
  BY <1>1 DEF ReplayInv, AllLive, Store
<1>12. ASSUME NEW i \in msg.entities PROVE Touched(msg, i, cache[i], cache'[i])
  BY DEF TouchesRight
<1>13. AllLive'
  <2> SUFFICES ASSUME NEW i \in Entities PROVE Life(p, i, cache'[i])
    BY <1>6 DEF AllLive
  <2>1. Life(q, i, cache[i]) /\ (i \notin msg.entities => cache'[i] = cache[i])
    BY <1>8, <1>11
  <2>2. i \in msg.entities =>
          /\ i \notin DOMAIN AtFirst => cache'[i] # Absent /\ cache'[i].body > 0
          /\ cache'[i].there => msg.op # "Remove" /\ \A k \in DOMAIN q : ~Removes(q[k], i)
          /\ msg.op = "Add" => \A k \in DOMAIN q : i \notin q[k].entities
    BY <1>11, <1>12, TouchedLives
  <2> HIDE DEF q
  <2> QED  BY <1>4, <2>1, <2>2, LifeRecorded
<1>14. ASSUME displaced' PROVE ReplayInv'
  BY <1>5, <1>7, <1>9, <1>10, <1>13, <1>14 DEF ReplayInv
<1>15. ASSUME ~displaced' PROVE FirstIsOut' /\ DataIsFresh' /\ AllRight'
  <2>1. ~displaced /\ ~Displaces
    BY <1>2, <1>15
  <2>2. FirstIsOut /\ DataIsFresh /\ AllRight
    BY <2>1 DEF ReplayInv
  <2>3. InFlight = UNION {m.entities : m \in Out}
    BY DEF InFlight, Out
  <2>4. ASSUME NEW m \in Out PROVE m.entities \subseteq InFlight
    BY <2>3
  <2>5. ASSUME NEW m \in Out
        PROVE  /\ p # <<>> /\ Head(p).entities = m.entities
               /\ Head(p) = m \/ m.entities \subseteq raced'
    <3>1. /\ q # <<>> /\ Head(q).entities = m.entities
          /\ Head(q) = m \/ m.entities \subseteq raced
      BY <2>2 DEF FirstIsOut
    <3>2. m.entities # {}
      <4>1. 1 \in DOMAIN q /\ Head(q) = q[1]
        BY <1>4, <3>1
      <4> QED  BY <1>1, <3>1, <4>1 DEF Shape
    <3>3. InFlight # {}
      BY <2>4, <3>2
    <3>4. p # <<>> /\ SameSubject(Head(q), Head(p))
      BY <1>4, <1>6, <2>1, <3>3 DEF Displaces
    <3>5. Head(p).entities = m.entities
      BY <3>1, <3>4 DEF SameSubject
    <3>6. Head(p) # Head(q) => msg.entities = m.entities
      BY <1>4, <3>1, <3>4, HeadRecorded
    <3>7. msg.entities = m.entities => m.entities \subseteq raced'
      BY <1>2, <2>4
    <3>8. raced \subseteq raced'
      BY <1>2
    <3> QED  BY <3>1, <3>4, <3>5, <3>6, <3>7, <3>8
  <2>6. FirstIsOut'
    BY <1>6, <1>7, <2>5 DEF FirstIsOut
  <2>7. DataIsFresh'
    <3> SUFFICES ASSUME NEW k \in DOMAIN handlers, NEW i \in handlers[k].entities \ raced'
                 PROVE  carried[k].data[i] = cache'[i]
      BY <1>2, <1>3 DEF DataIsFresh
    <3>1. handlers[k] \in Out
      BY DEF Out, Elements
    <3>2. i \in InFlight /\ i \notin raced /\ i \notin msg.entities
      BY <1>2, <2>4, <3>1
    <3>3. i \in Entities
      <4>1. \A n \in DOMAIN handlers : handlers[n] \in Message
        BY <1>1 DEF LogFacts
      <4> QED  BY <4>1 DEF Message
    <3>4. carried[k].data[i] = cache[i]
      BY <2>2, <3>2 DEF DataIsFresh
    <3> QED  BY <1>8, <3>2, <3>3, <3>4
  <2>8. AllRight'
    <3> SUFFICES ASSUME NEW i \in Entities \ (raced' \cup muddled')
                 PROVE  Account(p, Since(Uploaded, i), i, cache'[i], i \in ahead', i \in dropped,
                                SoFar(i), remote[i])
      BY <1>2, <1>6, <1>7 DEF AllRight
    <3> DEFINE s == Since(Uploaded, i)
               c == cache[i]
               after == cache'[i]
    <3>0. PICK d \in Data : /\ ItemRight(q, s, i, c, d, i \in ahead)
                            /\ i \in dropped \/ Shows(d, SoFar(i), remote[i])
      <4>1. i \notin raced \cup muddled
        BY <1>2
      <4> QED  BY <2>2, <4>1 DEF AllRight, Account
    <3> SUFFICES ItemRight(p, s, i, after, d, i \in ahead')
      BY <3>0 DEF Account
    <3>1. i \notin raced \cup muddled /\ (i \in ahead => i \in ahead')
      BY <1>2
    <3>2. ItemRight(q, s, i, c, d, i \in ahead)
      BY <3>0
    <3>3. i \in Uploaded => i \in InFlight /\ q # <<>> /\ i \in q[1].entities
      <4> SUFFICES ASSUME i \in Uploaded PROVE i \in InFlight /\ q # <<>> /\ i \in q[1].entities
        OBVIOUS
      <4>1. PICK k \in DOMAIN handlers : i \in handlers[k].entities
        BY DEF Uploaded, Staged
      <4>2. handlers[k] \in Out
        BY DEF Out, Elements
      <4>3. q # <<>> /\ Head(q).entities = handlers[k].entities
        BY <2>2, <4>2 DEF FirstIsOut
      <4>4. Head(q) = q[1]
        BY <1>4, <4>3
      <4> QED  BY <2>4, <4>1, <4>2, <4>3, <4>4
    <3>4. CASE i \notin msg.entities
      <4>1. after = c
        BY <1>8, <3>4
      <4>2. s \in {0, 1} /\ (s = 1 => q # <<>> /\ i \in q[1].entities)
        BY <3>3 DEF Since
      <4> HIDE DEF q, p, s, c, after
      <4>3. PICK g : DerivesBy(q, msg, p, g)
        BY <1>4, CompressionDerives DEF p
      <4>4. ASSUME NEW late, NEW later, late => later, ItemRight(q, s, i, c, d, late)
            PROVE  ItemRight(p, s, i, c, d, later)
        BY <1>4, <1>6, <3>4, <4>2, <4>3, <4>4, OthersStayRight
      <4> QED  BY <3>1, <3>2, <4>1, <4>4, Zenon DEF s, c, after
    <3>5. CASE i \in msg.entities
      <4>1. i \notin InFlight /\ s = 0
        BY <1>2, <3>3, <3>5 DEF Since
      <4>2. ~\E j \in DOMAIN rec.pending : Muddles(msg, j)
        BY <1>2, <3>5
      <4>3. i \notin ahead' => \A x \in Marks : News(msg, x, c.flags)
        <5>1. i \notin ahead' => msg.added \cap c.flags = {} /\ msg.removed \subseteq c.flags
          BY <1>2, <3>5
        <5> HIDE DEF c
        <5> QED  BY <5>1 DEF News
      <4> DEFINE j == FirstIn(q, Stops(q, msg))
      <4>4. j \in DOMAIN q => Clearly(q, j, msg, i \in ahead')
        <5> SUFFICES ASSUME j \in DOMAIN q PROVE Clearly(q, j, msg, i \in ahead')
          OBVIOUS
        <5>1. i \in ahead' => msg.entities \cap ahead' # {}
          BY <3>5
        <5>2. ~Muddles(msg, j) /\ j = FirstIn(rec.pending, Stops(rec.pending, msg))
          BY <1>4, <4>2
        <5> HIDE DEF j
        <5>3. ASSUME NEW later, later => msg.entities \cap ahead' # {}
              PROVE  Clearly(q, j, msg, later)
          BY <1>4, <5>2, <5>3, ClearUnlessMuddled
        <5> QED  BY <5>1, <5>3, Zenon
      <4>5. c \in Data /\ Life(q, i, c) /\ Touched(msg, i, c, after)
        BY <1>11, <1>12, <3>5
      <4> HIDE DEF q, p, c, after
      <4>6. ASSUME NEW late, NEW later, late => later, ItemRight(q, 0, i, c, d, late),
                   ~later => \A x \in Marks : News(msg, x, c.flags),
                   j \in DOMAIN q => Clearly(q, j, msg, later)
            PROVE  ItemRight(p, 0, i, after, d, later)
        <5>1. Tellable(q, msg, i, c, after, late, later)
          BY <1>1, <4>5, <4>6 DEF Tellable, q
        <5> QED  BY <1>4, <3>5, <4>5, <4>6, <5>1, TouchedIsRight DEF p
      <4> HIDE DEF j, s
      <4>7. ItemRight(q, 0, i, c, d, i \in ahead)
        BY <3>2, <4>1
      <4>8. ItemRight(p, 0, i, after, d, i \in ahead')
        BY <3>1, <4>3, <4>4, <4>6, <4>7, Zenon
      <4> QED  BY <4>1, <4>8 DEF s, after
    <3> QED  BY <3>4, <3>5
  <2> QED  BY <2>6, <2>7, <2>8
<1>16. ASSUME ~displaced' PROVE ReplayInv'
  BY <1>5, <1>7, <1>9, <1>10, <1>13, <1>15, <1>16 DEF ReplayInv
<1> QED  BY <1>3, <1>6, <1>14, <1>16

-----------------------------------------------------------------------------
(* The messages on the server are counted *)

\* The number of messages of an item that is expected at a stage.
Tallied(there, k, i, stage) ==
  (IF there THEN 1 ELSE 0)
    + (IF stage \in {"appended", "cleared"} /\ i \in Sent(k) THEN 1 ELSE 0)

\* A step that leaves the messages alone.
LEMMA RestCounts ==
  ASSUME CountInv, Rests
  PROVE  CountInv'
<1>1. \A i : Expected(i)' = (IF remote[i].there THEN 1 ELSE 0) + (IF i \in Appended' THEN 1 ELSE 0)
  BY DEF Expected, Rests
<1>2. /\ copies \in [Entities -> Nat] /\ copies' = copies
      /\ Appended' \subseteq Appended
  BY DEF CountInv, Rests
<1>3. \A i \in Entities : copies'[i] >= Expected(i)'
  <2> SUFFICES ASSUME NEW i \in Entities PROVE copies[i] >= Expected(i)'
    BY <1>2
  <2>1. copies[i] \in Nat /\ copies[i] >= Expected(i)
    BY <1>2 DEF CountInv
  <2> QED  BY <1>1, <1>2, <2>1 DEF Expected
<1>4. ASSUME ~displaced, NEW i \in Entities \ (raced \cup doubled')
      PROVE  copies[i] = Expected(i)' /\ (Unmade(i)' => ~remote[i].there)
  <2>1. i \notin raced \cup doubled /\ (i \in Appended <=> i \in Appended') /\ (Unmade(i)' => Unmade(i))
    BY <1>4 DEF Rests
  <2>2. copies[i] = Expected(i) /\ (Unmade(i) => ~remote[i].there)
    BY <1>4, <2>1 DEF CountInv
  <2> QED  BY <1>1, <2>1, <2>2 DEF Expected
<1> QED  BY <1>2, <1>3, <1>4 DEF CountInv, Rests

\* What is known of an item of the change that is out, merged or not.
LEMMA OutFacts ==
  ASSUME Repeatable, ReplayInv, NEW k \in DOMAIN handlers
  PROVE  /\ k = 1 /\ DOMAIN handlers = {1}
         /\ Appended = IF carried[k].stage \in {"appended", "cleared"} THEN Sent(k) ELSE {}
         /\ Uploaded = IF carried[k].stage = "done" THEN handlers[k].entities ELSE {}
         /\ ~displaced => \A i \in handlers[k].entities \ raced :
              /\ 1 \in DOMAIN Recorded /\ Recorded[1] = handlers[k]
              /\ carried[k].data[i] = cache[i]
<1>1. LogFacts
  BY ReplayFacts
<1>2. k = 1 /\ up /\ DOMAIN handlers = {1} /\ Out = {handlers[1]}
  BY <1>1, OnlyOneOut
<1>3. ASSUME ~displaced, NEW i \in handlers[1].entities \ raced
      PROVE  /\ 1 \in DOMAIN Recorded /\ Recorded[1] = handlers[1]
             /\ carried[1].data[i] = cache[i]
  <2>1. Recorded # <<>> /\ Head(Recorded) = handlers[1]
    BY <1>2, <1>3 DEF ReplayInv, FirstIsOut
  <2>2. 1 \in DOMAIN Recorded /\ Recorded[1] = handlers[1]
    BY <1>1, <2>1 DEF LogFacts
  <2> QED  BY <1>2, <1>3, <2>2 DEF ReplayInv, DataIsFresh
<1> QED  BY <1>2, <1>3, OneStaged DEF OnlyStaged

\* A request, which leaves as many messages as expected.
LEMMA RequestCounts ==
  ASSUME Repeatable, ReplayInv, CountInv, NEW k \in DOMAIN handlers, UNCHANGED vars,
         cache' = cache, raced' = raced, displaced' = displaced, doubled \subseteq doubled',
         NEW t \in Stages, Reach(k, t), carried[k].stage # "done",
         copies' \in [Entities -> Nat],
         \A i \in Entities : copies'[i] >= Tallied(remote'[i].there, k, i, t),
         t = "cleared" => \A i \in Sent(k) : ~remote'[i].there,
         \A i \in Entities :
           remote'[i].there => remote[i].there \/ (cache[i].there /\ t = "done" /\ i \in handlers[k].entities),
         ~displaced => \A i \in Entities \ (raced \cup doubled') :
                         copies'[i] = Tallied(remote'[i].there, k, i, t)
  PROVE  CountInv'
<1>1. k = 1 /\ DOMAIN handlers = {1} /\ Uploaded = {} /\ handlers' = handlers /\ rec' = rec
  BY OutFacts DEF vars
<1>2. carried' = [carried EXCEPT ![1].stage = t] /\ carried[1] \in [stage : Stages, data : Store]
      /\ DOMAIN carried = {1}
  <2>1. carried \in [DOMAIN handlers -> [stage : Stages, data : Store]]
    BY ReplayFacts
  <2> QED  BY <1>1, <2>1 DEF Reach
<1>3. carried'[1].stage = t /\ carried'[1].data = carried[1].data
  BY <1>2
<1>4. Sent(1)' = Sent(1)
  BY <1>1, <1>3 DEF Sent
<1>5. /\ Uploaded' = IF t = "done" THEN handlers[1].entities ELSE {}
      /\ Appended' = IF t \in {"appended", "cleared"} THEN Sent(1) ELSE {}
  BY <1>1, <1>3, <1>4, OneStagedNext DEF OnlyStaged
<1>6. \A i : Expected(i)' = Tallied(remote'[i].there, k, i, t)
  BY <1>1, <1>5 DEF Expected, Tallied
<1>7. ClearedGone'
  <2>1. Staged("cleared")' = IF t = "cleared" THEN {1} ELSE {}
    BY <1>1, <1>3 DEF Staged
  <2> QED  BY <1>1, <1>4, <2>1 DEF ClearedGone
<1>8. ASSUME NEW i \in Entities \ DOMAIN AtFirst, cache[i] = Absent PROVE ~remote'[i].there
  <2>1. ~remote[i].there /\ ~cache[i].there
    BY <1>8 DEF CountInv, Absent
  <2> QED  BY <2>1
<1>9. Recorded' = Recorded
  BY <1>1 DEF Recorded
<1>10. ASSUME ~displaced, NEW i \in Entities \ (raced \cup doubled'), Unmade(i)'
       PROVE  ~remote'[i].there
  <2>1. Unmade(i) /\ i \notin Uploaded'
    BY <1>1, <1>9, <1>10 DEF Unmade
  <2>2. ~remote[i].there
    BY <1>10, <2>1 DEF CountInv
  <2> QED  BY <1>1, <1>5, <2>1, <2>2
<1> QED  BY <1>6, <1>7, <1>8, <1>10 DEF CountInv

\* How many messages there were before a request.
LEMMA CountedBefore ==
  ASSUME Repeatable, ReplayInv, CountInv, NEW k \in DOMAIN handlers
  PROVE  /\ copies \in [Entities -> Nat] /\ remote \in Store /\ cache \in Store
         /\ \A i \in Entities : copies[i] >= Tallied(remote[i].there, k, i, carried[k].stage)
         /\ ~displaced => \A i \in Entities \ (raced \cup doubled) :
                            copies[i] = Tallied(remote[i].there, k, i, carried[k].stage)
<1>1. \A i : Expected(i) = Tallied(remote[i].there, k, i, carried[k].stage)
  BY OutFacts DEF Expected, Tallied
<1> QED  BY <1>1, RequestFacts DEF CountInv

\* A message is appended: there is one more.
LEMMA AppendMessageCounts ==
  ASSUME Repeatable, ReplayInv, CountInv, NEW k \in DOMAIN handlers, AppendMessage(k)
  PROVE  CountInv'
<1>1. /\ UNCHANGED vars /\ cache' = cache /\ remote' = remote /\ raced' = raced
      /\ displaced' = displaced /\ doubled' = doubled
      /\ Reach(k, "appended") /\ carried[k].stage = "given" /\ "appended" \in Stages
      /\ copies' = [i \in Entities |-> IF i \in Sent(k) THEN copies[i] + 1 ELSE copies[i]]
  BY DEF AppendMessage, history, Stages
<1>2. /\ copies \in [Entities -> Nat]
      /\ \A i \in Entities : copies[i] >= Tallied(remote[i].there, k, i, "given")
      /\ ~displaced => \A i \in Entities \ (raced \cup doubled) :
                         copies[i] = Tallied(remote[i].there, k, i, "given")
  BY <1>1, CountedBefore
<1>3. ASSUME NEW i \in Entities
      PROVE  /\ copies'[i] \in Nat /\ copies'[i] >= Tallied(remote'[i].there, k, i, "appended")
             /\ copies[i] = Tallied(remote[i].there, k, i, "given")
                  => copies'[i] = Tallied(remote'[i].there, k, i, "appended")
  <2>1. copies[i] \in Nat /\ copies[i] >= Tallied(remote[i].there, k, i, "given")
    BY <1>2
  <2> QED  BY <1>1, <2>1 DEF Tallied
<1>4. copies' \in [Entities -> Nat]
  BY <1>1, <1>3
<1>5. ~displaced => \A i \in Entities \ (raced \cup doubled') :
                      copies'[i] = Tallied(remote'[i].there, k, i, "appended")
  BY <1>1, <1>2, <1>3
<1> QED  BY <1>1, <1>3, <1>4, <1>5, RequestCounts

\* The numbers of messages when some are marked as deleted.
LEMMA UnmessageCounts ==
  ASSUME NEW S \in SUBSET Entities, remote \in Store, Unmessage(S), copies \in [Entities -> Nat],
         \A i \in Entities : remote[i].there => copies[i] >= 1
  PROVE  /\ copies' \in [Entities -> Nat]
         /\ \A i \in Entities :
              /\ copies'[i] = copies[i] - (IF i \in S /\ remote[i].there THEN 1 ELSE 0)
              /\ remote'[i].there <=> remote[i].there /\ i \notin S
<1>1. copies' = [i \in Entities |-> IF i \in S /\ remote[i].there THEN copies[i] - 1 ELSE copies[i]]
  BY DEF Unmessage
<1>2. ASSUME NEW i \in Entities
      PROVE  /\ copies'[i] \in Nat
             /\ copies'[i] = copies[i] - (IF i \in S /\ remote[i].there THEN 1 ELSE 0)
  <2>1. copies[i] \in Nat /\ (remote[i].there => copies[i] >= 1)
    OBVIOUS
  <2> QED  BY <1>1, <2>1
<1>3. \A i \in Entities : remote'[i].there <=> remote[i].there /\ i \notin S
  BY UnmessageType
<1> QED  BY <1>1, <1>2, <1>3

\* The message that is replaced is marked as deleted: there is one less.
LEMMA ClearCounts ==
  ASSUME Repeatable, ReplayInv, CountInv, NEW k \in DOMAIN handlers, Clear(k)
  PROVE  CountInv'
<1>1. /\ UNCHANGED vars /\ cache' = cache /\ raced' = raced
      /\ displaced' = displaced /\ doubled' = doubled
      /\ Reach(k, "cleared") /\ carried[k].stage = "appended" /\ "cleared" \in Stages
      /\ Unmessage(Sent(k))
  BY DEF Clear, history, Stages
<1>2. /\ copies \in [Entities -> Nat] /\ remote \in Store
      /\ \A i \in Entities : copies[i] >= Tallied(remote[i].there, k, i, "appended")
      /\ ~displaced => \A i \in Entities \ (raced \cup doubled) :
                         copies[i] = Tallied(remote[i].there, k, i, "appended")
  BY <1>1, CountedBefore
<1>3. \A i \in Entities : copies[i] \in Nat /\ (remote[i].there => copies[i] >= 1)
  BY <1>2 DEF Tallied
<1>4. /\ copies' \in [Entities -> Nat]
      /\ \A i \in Entities :
           /\ copies'[i] = copies[i] - (IF i \in Sent(k) /\ remote[i].there THEN 1 ELSE 0)
           /\ remote'[i].there <=> remote[i].there /\ i \notin Sent(k)
  <2>1. Sent(k) \in SUBSET Entities
    BY RequestFacts
  <2> QED  BY <1>1, <1>2, <1>3, <2>1, UnmessageCounts
<1>5. ASSUME NEW i \in Entities
      PROVE  /\ copies'[i] >= Tallied(remote'[i].there, k, i, "cleared")
             /\ copies[i] = Tallied(remote[i].there, k, i, "appended")
                  => copies'[i] = Tallied(remote'[i].there, k, i, "cleared")
  BY <1>2, <1>3, <1>4 DEF Tallied
<1>6. ~displaced => \A i \in Entities \ (raced \cup doubled') :
                      copies'[i] = Tallied(remote'[i].there, k, i, "cleared")
  BY <1>1, <1>2, <1>5
<1>7. \A i \in Sent(k) : ~remote'[i].there
  BY <1>4, RequestFacts
<1> QED  BY <1>1, <1>4, <1>5, <1>6, <1>7, RequestCounts

\* The item names the new message, which counts as its only one.
LEMMA CommitCounts ==
  ASSUME Repeatable, ReplayInv, CountInv, NEW k \in DOMAIN handlers, Commit(k)
  PROVE  CountInv'
<1> DEFINE named == {i \in Sent(k) : cache[i].there}
           stage == carried[k].stage
<1>1. /\ UNCHANGED vars /\ cache' = cache /\ copies' = copies /\ raced' = raced
      /\ displaced' = displaced /\ Uploading(k) /\ stage \in {"appended", "cleared"}
      /\ Reach(k, "done") /\ "done" \in Stages
      /\ remote' = [i \in Entities |-> IF i \in named THEN carried[k].data[i] ELSE remote[i]]
      /\ doubled' = IF LeavesOld(k) THEN doubled \cup Sent(k) ELSE doubled
  BY DEF Commit, EndUpload, Stages
<1>2. /\ copies \in [Entities -> Nat]
      /\ \A i \in Entities : copies[i] >= Tallied(remote[i].there, k, i, stage)
      /\ ~displaced => \A i \in Entities \ (raced \cup doubled) :
                         copies[i] = Tallied(remote[i].there, k, i, stage)
  BY CountedBefore
<1>3. \A i \in named : i \in Entities /\ i \in handlers[k].entities /\ cache[i].there /\ carried[k].data[i].there
  BY RequestFacts DEF Sent
<1>4. \A i \in Entities : remote'[i].there <=> i \in named \/ remote[i].there
  BY <1>1, <1>3
<1>5. named \subseteq Sent(k) /\ Sent(k) \subseteq handlers[k].entities
  BY RequestFacts
<1>6. \A i \in Entities : copies'[i] >= Tallied(remote'[i].there, k, i, "done")
  BY <1>1, <1>2, <1>4, <1>5 DEF Tallied
<1>7. ASSUME ~displaced, NEW i \in Entities \ (raced \cup doubled')
      PROVE  copies'[i] = Tallied(remote'[i].there, k, i, "done")
  <2>1. i \notin raced \cup doubled
    BY <1>1, <1>7
  <2>2. copies[i] = Tallied(remote[i].there, k, i, stage)
    BY <1>2, <1>7, <2>1
  <2>3. CASE i \notin Sent(k)
    BY <1>1, <1>4, <1>5, <2>2, <2>3 DEF Tallied
  <2>4. CASE i \in Sent(k)
    <3>1. /\ carried[k].data[i] = cache[i] /\ 1 \in DOMAIN Recorded /\ Recorded[1] = handlers[k]
          /\ i \in handlers[k].entities /\ Uploaded = {} /\ k = 1
      BY <1>1, <1>5, <1>7, <2>4, OutFacts
    <3>2. i \in named
      BY <2>4, <3>1 DEF Sent
    <3>3. ~remote[i].there
      <4>1. CASE stage = "cleared"
        <5>1. k \in Staged("cleared")
          BY <4>1 DEF Staged
        <5> QED  BY <2>4, <5>1 DEF CountInv, ClearedGone
      <4>2. CASE stage = "appended"
        <5>1. handlers[k].op = "Add"
          BY <1>1, <1>7, <2>4, <4>2 DEF LeavesOld, Uploading
        <5>2. Unmade(i)
          BY <3>1, <5>1 DEF Unmade, Adds
        <5> QED  BY <1>7, <2>1, <5>2 DEF CountInv
      <4> QED  BY <1>1, <4>1, <4>2
    <3>4. remote'[i].there
      BY <1>4, <3>2
    <3> HIDE DEF named, stage
    <3>5. Tallied(remote[i].there, k, i, stage) = 1
      BY <1>1, <2>4, <3>3 DEF Tallied
    <3>6. Tallied(remote'[i].there, k, i, "done") = 1
      BY <3>4 DEF Tallied
    <3> QED  BY <1>1, <2>2, <3>5, <3>6
  <2> QED  BY <2>3, <2>4
<1>8. doubled \subseteq doubled' /\ stage # "done"
  BY <1>1
<1>9. \A i \in Entities : remote'[i].there =>
        remote[i].there \/ (cache[i].there /\ "done" = "done" /\ i \in handlers[k].entities)
  BY <1>3, <1>4
<1>10. copies' \in [Entities -> Nat]
  BY <1>1, <1>2
<1> HIDE DEF named
<1> QED  BY <1>1, <1>6, <1>7, <1>8, <1>9, <1>10, RequestCounts

\* No item names the new message.
LEMMA LoseCounts ==
  ASSUME Repeatable, ReplayInv, CountInv, NEW k \in DOMAIN handlers, Lose(k)
  PROVE  CountInv'
<1> DEFINE stage == carried[k].stage
<1>1. /\ UNCHANGED vars /\ cache' = cache /\ copies' = copies /\ raced' = raced
      /\ displaced' = displaced /\ Uploading(k) /\ stage \in {"appended", "cleared"}
      /\ Reach(k, "done") /\ "done" \in Stages
      /\ \/ remote' = [i \in Entities |->
                        IF i \in Sent(k) THEN [remote[i] EXCEPT !.there = FALSE] ELSE remote[i]]
         \/ remote' = remote
      /\ doubled' = doubled \cup Sent(k)
  BY DEF Lose, EndUpload, Stages
<1>2. /\ copies \in [Entities -> Nat] /\ remote \in Store
      /\ \A i \in Entities : copies[i] >= Tallied(remote[i].there, k, i, stage)
      /\ ~displaced => \A i \in Entities \ (raced \cup doubled) :
                         copies[i] = Tallied(remote[i].there, k, i, stage)
  BY CountedBefore
<1>3. ASSUME NEW i \in Entities
      PROVE  (remote'[i].there => remote[i].there) /\ (i \notin Sent(k) => remote'[i] = remote[i])
  <2>1. remote[i] \in Data
    BY <1>2 DEF Store
  <2>2. [remote[i] EXCEPT !.there = FALSE].there = FALSE
    BY <2>1 DEF Data
  <2> QED  BY <1>1, <2>2
<1>4. \A i \in Entities : copies'[i] >= Tallied(remote'[i].there, k, i, "done")
  BY <1>1, <1>2, <1>3 DEF Tallied
<1>5. ASSUME ~displaced, NEW i \in Entities \ (raced \cup doubled')
      PROVE  copies'[i] = Tallied(remote'[i].there, k, i, "done")
  <2>1. i \notin raced \cup doubled /\ i \notin Sent(k)
    BY <1>1, <1>5
  <2>2. copies[i] = Tallied(remote[i].there, k, i, stage) /\ remote'[i] = remote[i]
    BY <1>2, <1>3, <1>5, <2>1
  <2> QED  BY <1>1, <2>1, <2>2 DEF Tallied
<1>6. doubled \subseteq doubled' /\ stage # "done" /\ copies' \in [Entities -> Nat]
  BY <1>1, <1>2
<1> QED  BY <1>1, <1>3, <1>4, <1>5, <1>6, RequestCounts

\* Flags are no messages.
LEMMA FlagsCount ==
  ASSUME Repeatable, ReplayInv, CountInv, NEW k \in DOMAIN handlers,
         NEW plus \in SUBSET Marks, NEW minus \in SUBSET Marks, Reflag(k, plus, minus),
         NEW t \in {"added", "done"}, Reach(k, t), carried[k].stage \in {"given", "added"}
  PROVE  CountInv'
<1>1. remote \in Store /\ handlers[k].entities \subseteq Entities
  BY RequestFacts
<1>2. Reflagged(handlers[k].entities, plus, minus) /\ copies' = copies
  BY <1>1, ReflagType DEF Reflag
<1>3. /\ UNCHANGED vars /\ cache' = cache /\ raced' = raced
      /\ displaced' = displaced /\ doubled' = doubled
      /\ \A i \in Entities : remote'[i].there = remote[i].there
  BY <1>2 DEF Reflagged
<1>4. /\ copies \in [Entities -> Nat]
      /\ \A i \in Entities : copies[i] >= Tallied(remote[i].there, k, i, carried[k].stage)
      /\ ~displaced => \A i \in Entities \ (raced \cup doubled) :
                         copies[i] = Tallied(remote[i].there, k, i, carried[k].stage)
  BY CountedBefore
<1>5. \A i \in Entities :
        Tallied(remote'[i].there, k, i, t) = Tallied(remote[i].there, k, i, carried[k].stage)
  BY <1>3 DEF Tallied
<1>6. t \in Stages /\ t # "cleared" /\ carried[k].stage # "done"
  BY DEF Stages
<1>7. /\ \A i \in Entities : copies'[i] >= Tallied(remote'[i].there, k, i, t)
      /\ ~displaced => \A i \in Entities \ (raced \cup doubled') :
                         copies'[i] = Tallied(remote'[i].there, k, i, t)
  BY <1>2, <1>3, <1>4, <1>5
<1> QED  BY <1>2, <1>3, <1>4, <1>6, <1>7, RequestCounts

LEMMA StoreAddedCounts ==
  ASSUME Repeatable, ReplayInv, CountInv, NEW k \in DOMAIN handlers, StoreAdded(k)
  PROVE  CountInv'
<1>1. handlers[k].added \in SUBSET Marks /\ {} \in SUBSET Marks
  BY RequestFacts DEF Message
<1>2. \E t \in {"added", "done"} : Reach(k, t)
  BY DEF StoreAdded
<1>3. Reflag(k, handlers[k].added, {}) /\ carried[k].stage \in {"given", "added"}
  BY DEF StoreAdded
<1> QED  BY <1>1, <1>2, <1>3, FlagsCount

LEMMA StoreRemovedCounts ==
  ASSUME Repeatable, ReplayInv, CountInv, NEW k \in DOMAIN handlers, StoreRemoved(k)
  PROVE  CountInv'
<1>1. handlers[k].removed \in SUBSET Marks /\ {} \in SUBSET Marks
  BY RequestFacts DEF Message
<1>2. Reach(k, "done") /\ "done" \in {"added", "done"}
  BY DEF StoreRemoved
<1>3. Reflag(k, {}, handlers[k].removed) /\ carried[k].stage \in {"given", "added"}
  BY DEF StoreRemoved
<1> QED  BY <1>1, <1>2, <1>3, FlagsCount

\* Messages are marked as deleted: there is one less of each.
LEMMA MarkDeletedCounts ==
  ASSUME Repeatable, ReplayInv, CountInv, NEW k \in DOMAIN handlers, MarkDeleted(k)
  PROVE  CountInv'
<1> DEFINE S == handlers[k].entities
<1>1. /\ UNCHANGED vars /\ cache' = cache /\ raced' = raced
      /\ displaced' = displaced /\ doubled' = doubled
      /\ Reach(k, "done") /\ carried[k].stage = "given" /\ "done" \in Stages
      /\ Unmessage(S)
  BY DEF MarkDeleted, Stages
<1>2. /\ copies \in [Entities -> Nat] /\ remote \in Store /\ S \in SUBSET Entities
      /\ \A i \in Entities : copies[i] >= Tallied(remote[i].there, k, i, "given")
      /\ ~displaced => \A i \in Entities \ (raced \cup doubled) :
                         copies[i] = Tallied(remote[i].there, k, i, "given")
  BY <1>1, CountedBefore, RequestFacts
<1>3. \A i \in Entities : copies[i] \in Nat /\ (remote[i].there => copies[i] >= 1)
  BY <1>2 DEF Tallied
<1>4. /\ copies' \in [Entities -> Nat]
      /\ \A i \in Entities :
           /\ copies'[i] = copies[i] - (IF i \in S /\ remote[i].there THEN 1 ELSE 0)
           /\ remote'[i].there <=> remote[i].there /\ i \notin S
  BY <1>1, <1>2, <1>3, UnmessageCounts
<1> HIDE DEF S
<1>5. ASSUME NEW i \in Entities
      PROVE  /\ copies'[i] >= Tallied(remote'[i].there, k, i, "done")
             /\ copies[i] = Tallied(remote[i].there, k, i, "given")
                  => copies'[i] = Tallied(remote'[i].there, k, i, "done")
  BY <1>2, <1>3, <1>4 DEF Tallied
<1>6. ~displaced => \A i \in Entities \ (raced \cup doubled') :
                      copies'[i] = Tallied(remote'[i].there, k, i, "done")
  BY <1>1, <1>2, <1>5
<1>7. carried[k].stage # "done" /\ "done" # "cleared"
  BY <1>1
<1> QED  BY <1>1, <1>4, <1>5, <1>6, <1>7, RequestCounts

\* What clients do to items is not done to messages.
LEMMA ChangeCounts ==
  ASSUME Repeatable, ReplayInv, CountInv, NEW msg \in Message, msg.entities \subseteq Entities,
         TouchesRight(msg), Notified(msg), handlers' = handlers,
         Recorded' = Recorded \/ Recorded' = appendAndCompress(Recorded, msg).list
  PROVE  CountInv'
<1>1. /\ remote' = remote /\ copies' = copies /\ carried' = carried /\ doubled' = doubled
      /\ raced \subseteq raced' /\ (displaced => displaced')
  BY DEF Notified, server
<1>2. /\ Appended' = Appended /\ Uploaded' = Uploaded /\ (ClearedGone => ClearedGone')
      /\ \A i : Expected(i)' = Expected(i)
  BY <1>1 DEF Appended, Uploaded, ClearedGone, Staged, Sent, Expected
<1>3. ASSUME NEW i \in Entities
      PROVE  /\ Life(Recorded, i, cache[i]) /\ cache[i] \in Data
             /\ i \in msg.entities => Touched(msg, i, cache[i], cache'[i])
             /\ i \notin msg.entities => cache'[i] = cache[i]
  BY ReplayFacts DEF ReplayInv, AllLive, Store, TouchesRight
<1>4. ASSUME NEW i \in Entities \ DOMAIN AtFirst, cache'[i] = Absent PROVE ~remote[i].there
  <2>1. i \in msg.entities => cache'[i] # Absent
    BY <1>3, TouchedLives
  <2> QED  BY <1>3, <1>4, <2>1 DEF CountInv
<1>5. ASSUME ~displaced', NEW i \in Entities \ (raced' \cup doubled), Unmade(i)'
      PROVE  ~remote[i].there
  <2>1. i \notin raced \cup doubled /\ ~displaced
    BY <1>1, <1>5
  <2>2. CASE Unmade(i)
    BY <2>1, <2>2 DEF CountInv
  <2>3. CASE ~Unmade(i)
    <3>1. ~\E k \in DOMAIN Recorded : Adds(Recorded[k], i)
      BY <1>2, <1>5, <2>3 DEF Unmade
    <3> DEFINE q == Recorded
               p == appendAndCompress(q, msg).list
    <3>2. PICK a \in DOMAIN p : Adds(p[a], i)
      BY <1>5, <3>1 DEF Unmade
    <3>3. q \in Seq(Message) /\ p \in Seq(Message)
      <4>1. q \in Seq(Message)
        BY ReplayFacts DEF LogFacts
      <4> HIDE DEF q
      <4> QED  BY <4>1, appendAndCompressType DEF Outcomes
    <3>4. PICK g : DerivesBy(q, msg, p, g)
      BY <3>3, CompressionDerives
    <3> HIDE DEF q, p
    <3>5. \/ p[a] = msg
          \/ g[a] \in DOMAIN q /\ p[a].entities = q[g[a]].entities /\ p[a].op = q[g[a]].op
      BY <3>2, <3>3, <3>4, DerivedEntry
    <3>6. Adds(msg, i)
      BY <3>1, <3>2, <3>5 DEF Adds, q
    <3>7. cache[i] = Absent /\ i \notin DOMAIN AtFirst
      BY <1>3, <3>6 DEF Touched, Adds
    <3> QED  BY <3>7 DEF CountInv
  <2> QED  BY <2>2, <2>3
<1>6. ASSUME ~displaced', NEW i \in Entities \ (raced' \cup doubled)
      PROVE  copies[i] = Expected(i)
  BY <1>1, <1>6 DEF CountInv
<1>7. copies \in [Entities -> Nat] /\ ClearedGone /\ \A i \in Entities : copies[i] >= Expected(i)
  BY DEF CountInv
<1> QED  BY <1>1, <1>2, <1>4, <1>5, <1>6, <1>7 DEF CountInv

\* At first there is a message of each item.
LEMMA InitCounts ==
  ASSUME Repeatable
  PROVE  ReplayInit => CountInv
<1> SUFFICES ASSUME ReplayInit PROVE CountInv
  OBVIOUS
<1>1. /\ handlers = <<>> /\ remote = cache
      /\ copies = [i \in Entities |-> IF i \in DOMAIN AtFirst THEN 1 ELSE 0]
      /\ cache = [i \in Entities |->
                    IF i \in DOMAIN AtFirst
                    THEN [there |-> TRUE, body |-> 0, flags |-> AtFirst[i]] ELSE Absent]
  BY DEF ReplayInit, Init
<1>2. Appended = {} /\ ClearedGone
  BY <1>1, NoneStaged DEF NothingStaged
<1>3. \A i \in Entities : remote[i].there <=> i \in DOMAIN AtFirst
  BY <1>1 DEF Absent
<1>4. \A i \in Entities : copies[i] \in Nat /\ copies[i] = Expected(i)
  BY <1>1, <1>2, <1>3 DEF Expected
<1>5. Recorded = <<>>
  <2>1. PICK file \in OldFiles : rec = loadNotifications(file)
    BY DEF ReplayInit, Init
  <2> QED  BY <2>1 DEF Repeatable, Recorded, loadNotifications
<1>6. \A i : ~Unmade(i)
  BY <1>5 DEF Unmade
<1> QED  BY <1>1, <1>2, <1>3, <1>4, <1>6 DEF CountInv

-----------------------------------------------------------------------------
(* The specification of the replay *)

\* A client changes items, and the agent is told or is down.
LEMMA ChangeKeeps ==
  ASSUME Repeatable, ReplayInv, CountInv, NEW tiding \in Tidings, Change(tiding)
  PROVE  ReplayInv' /\ CountInv'
<1>1. cache \in Store /\ workload \in Workloads
  BY ReplayFacts
<1>2. Touches(tiding)
  BY DEF Change, Touches
<1>3. TouchesRight(tiding)
  BY <1>1, <1>2, ClientsTouch
<1>4. PICK s \in workload.sessions : Notified(Told(tiding, s))
  BY DEF Change
<1> DEFINE msg == Told(tiding, s)
<1>5. /\ msg \in Message /\ msg.type = "Items" /\ msg.op \in Kinds
      /\ msg.entities \subseteq Entities
      /\ Single(msg) /\ TouchesRight(msg) /\ Shape(<<msg>>) /\ Notified(msg)
  BY <1>1, <1>3, <1>4, ToldRight
<1> HIDE DEF msg
<1>6. /\ ReplayInv' /\ handlers' = handlers
      /\ Recorded' = Recorded \/ Recorded' = appendAndCompress(Recorded, msg).list
  <2>1. CASE up
    BY <1>5, <2>1, NotifiedKeeps
  <2>2. CASE ~up
    BY <1>5, <2>2, UnnotifiedKeeps
  <2> QED  BY <2>1, <2>2
<1>7. CountInv'
  BY <1>5, <1>6, ChangeCounts
<1> QED  BY <1>6, <1>7

\* Every step keeps the invariants.
LEMMA StepKeepsReplay ==
  ASSUME Repeatable
  PROVE  ReplayInv /\ CountInv /\ [ReplayStep]_replayVars => ReplayInv' /\ CountInv'
<1> SUFFICES ASSUME ReplayInv, CountInv, [ReplayStep]_replayVars
             PROVE  ReplayInv' /\ CountInv'
  OBVIOUS
<1>1. CASE Clients
  BY <1>1, ChangeKeeps DEF Clients
<1>2. CASE \E cached \in SUBSET Elements(rec.pending) : Replay(cached)
  BY <1>2, ReplayKeeps, RestCounts
<1>3. CASE \E n \in 1..Len(rec.pipeline) : Arrive(n)
  BY <1>3, ArriveKeeps, RestCounts
<1>4. CASE \E k \in DOMAIN handlers : AppendMessage(k)
  BY <1>4, AppendMessageKeeps, AppendMessageCounts
<1>5. CASE \E k \in DOMAIN handlers : Answer(k)
  BY <1>5, AnswerKeeps, RestCounts
<1>10. CASE \E k \in DOMAIN handlers : Clear(k)
  BY <1>10, ClearKeeps, ClearCounts
<1>11. CASE \E k \in DOMAIN handlers : Commit(k)
  BY <1>11, CommitKeeps, CommitCounts
<1>12. CASE \E k \in DOMAIN handlers : Lose(k)
  BY <1>12, LoseKeeps, LoseCounts
<1>13. CASE \E k \in DOMAIN handlers : StoreAdded(k)
  BY <1>13, StoreAddedKeeps, StoreAddedCounts
<1>14. CASE \E k \in DOMAIN handlers : StoreRemoved(k)
  BY <1>14, StoreRemovedKeeps, StoreRemovedCounts
<1>15. CASE \E k \in DOMAIN handlers : MarkDeleted(k)
  BY <1>15, MarkDeletedKeeps, MarkDeletedCounts
<1>16. CASE \E k \in DOMAIN handlers : Cancel(k)
  BY <1>16, CancelKeeps, RestCounts
<1>6. CASE \E k \in DOMAIN handlers : PutOff(k)
  BY <1>6, PutOffKeeps, RestCounts
<1>7. CASE AgentCrash
  BY <1>7, AgentCrashKeeps, RestCounts
<1>8. CASE AgentRestart
  BY <1>8, AgentRestartKeeps, RestCounts
<1>9. CASE UNCHANGED replayVars
  BY <1>9, ReplayStutters, RestCounts
<1> QED  BY <1>1, <1>2, <1>3, <1>4, <1>5, <1>6, <1>7, <1>8, <1>9, <1>10, <1>11, <1>12,
             <1>13, <1>14, <1>15, <1>16 DEF ReplayStep

\* When nothing is recorded any more, the items are the same.
LEMMA RightWhenQuiet ==
  ASSUME NEW i, NEW c \in Data, NEW d \in Data, NEW late, ItemRight(<<>>, 0, i, c, d, late)
  PROVE  Same(c, d)
<1>1. Settled(<<>>, 0, i, c, d)
  BY DEF ItemRight
<1>2. c.there = d.there /\ (c.there => c.body = d.body)
  BY <1>1 DEF Settled, Data
<1>3. ASSUME c.there, NEW x \in Marks PROVE x \in d.flags <=> x \in c.flags
  <2>1. FlagAt(<<>>, 0, i, x, c.flags, d, late)
    BY <1>3 DEF ItemRight
  <2>2. Seen(<<>>, 0, i, d) /\ Untold(<<>>, 0, i, x)
    BY <1>2, <1>3 DEF Seen, Untold
  <2> QED  BY <2>1, <2>2 DEF FlagAt
<1>4. c.there => c.flags = d.flags
  BY <1>3 DEF Data
<1>5. c.there => c = d
  <2>1. \A e \in Data : e = [there |-> e.there, body |-> e.body, flags |-> e.flags]
    BY DEF Data
  <2> QED  BY <1>2, <1>4, <2>1
<1> QED  BY <1>2, <1>5 DEF Same

\* The invariants say of a quiet agent what the properties say.
LEMMA QuietConverges == ReplayInv => ConvergedUndisturbed
<1> SUFFICES ASSUME ReplayInv, ~displaced, Quiet,
                    NEW i \in Entities \ (raced \cup muddled \cup dropped)
             PROVE  Same(cache[i], remote[i])
  BY DEF ConvergedUndisturbed, Converged
<1>1. up /\ rec.pending = <<>> /\ handlers = <<>>
  BY DEF Quiet
<1>2. Recorded = <<>>
  BY <1>1, OutAndRecorded DEF ReplayInv, LogFacts
<1>3. Uploaded = {} /\ SoFar(i) = {}
  BY <1>1, NoneStaged DEF NothingStaged
<1>4. Account(<<>>, 0, i, cache[i], i \in ahead, i \in dropped, {}, remote[i])
  BY <1>2, <1>3 DEF ReplayInv, AllRight, Since
<1>5. PICK d \in Data : ItemRight(<<>>, 0, i, cache[i], d, i \in ahead) /\ Shows(d, {}, remote[i])
  BY <1>4 DEF Account
<1>6. cache[i] \in Data /\ remote[i] \in Data
  BY DEF ReplayInv, CoreTypes, Store
<1>7. Same(cache[i], d)
  <2>1. ASSUME NEW late, ItemRight(<<>>, 0, i, cache[i], d, late) PROVE Same(cache[i], d)
    BY <1>6, <2>1, RightWhenQuiet
  <2> QED  BY <1>5, <2>1, Zenon
<1>8. d.there => d = remote[i]
  <2>1. \A e \in Data : e = [there |-> e.there, body |-> e.body, flags |-> e.flags]
    BY DEF Data
  <2>2. d.there => d.body = remote[i].body /\ d.flags = remote[i].flags /\ d.there = remote[i].there
    BY <1>5 DEF Shows
  <2> QED  BY <1>5, <1>6, <2>1, <2>2
<1>9. d.there = remote[i].there
  BY <1>5 DEF Shows
<1> QED  BY <1>7, <1>8, <1>9 DEF Same

LEMMA QuietCounts == CountInv => OnceEachUndisturbed
<1> SUFFICES ASSUME CountInv, ~displaced, Quiet, NEW i \in Entities \ (raced \cup doubled)
             PROVE  copies[i] = IF remote[i].there THEN 1 ELSE 0
  BY DEF OnceEachUndisturbed, OnceEach
<1>1. Appended = {}
  BY NoneStaged DEF NothingStaged, Quiet
<1>2. copies[i] = Expected(i)
  BY DEF CountInv
<1> QED  BY <1>1, <1>2 DEF Expected

\* The record accounts for every difference between the cache and the server, and
\* the messages there are as many as it leads to expect.
THEOREM ReplayInvariant ==
  ASSUME Repeatable
  PROVE  ReplaySpec => [](ReplayInv /\ CountInv)
<1>1. ReplayInit => ReplayInv /\ CountInv
  BY InitReplay, InitCounts
<1>2. ReplayInv /\ CountInv /\ [ReplayStep]_replayVars => ReplayInv' /\ CountInv'
  BY StepKeepsReplay
<1> QED  BY <1>1, <1>2, PTL DEF ReplaySpec

\* Every variable of the replay has its type.
THEOREM ReplayTypes ==
  ASSUME Repeatable
  PROVE  ReplaySpec => []ReplayTypeOK
<1>1. ReplayInv /\ CountInv => ReplayTypeOK
  BY DEF ReplayInv, CountInv, CoreTypes, ReplayTypeOK
<1> QED  BY <1>1, ReplayInvariant, PTL

\* When all is replayed, the server holds what the cache holds, of every item of
\* which no change was given up.
THEOREM ServerConverges ==
  ASSUME Repeatable
  PROVE  ReplaySpec => []ConvergedUndisturbed
BY QuietConverges, ReplayInvariant, PTL

\* When all is replayed, the server has each message once, but for what an upload
\* left behind that was cut short.
THEOREM NothingTwice ==
  ASSUME Repeatable
  PROVE  ReplaySpec => []OnceEachUndisturbed
BY QuietCounts, ReplayInvariant, PTL
=============================================================================
