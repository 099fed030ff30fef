------------------------------ MODULE Monitor ------------------------------
(***************************************************************************)
(* MonitorPrivate, the client side of change notification: which messages  *)
(* are wanted, how a message is turned into the ones that are queued, and  *)
(* what becomes of moves in and out of the collections that are watched.   *)
(*                                                                         *)
(* A signal is named by the type and the operation it reports and by       *)
(* whether it takes one item or many: itemMoved() is <<"Items", "Move",    *)
(* "one">>, itemsMoved() is <<"Items", "Move", "many">>.  "sig" is the     *)
(* set of the signals that have receivers.                                 *)
(*                                                                         *)
(* The monitor of a resource does no reference counting and fetches no     *)
(* statistics; the paths that do are left out.                             *)
(***************************************************************************)
EXTENDS Notifications, FiniteSets

CONSTANT Watched        \* the collections of the resources monitored

One == "one"
Many == "many"
Signal == {"Items", "Collections"} \X Operation \X {One, Many}

ItemChanged == <<"Items", "Modify", One>>

\* receivers( SIGNAL(...) ) > 0 for one of the signals that report a message.
Hears(sig, msg) == \E n \in {One, Many} : <<msg.type, msg.op, n>> \in sig

\* isLazilyIgnored(): newly delivered flag changes may still be converted.
isLazilyIgnored(sig, msg, allowModifyFlagsConversion) ==
  /\ msg.type = "Items"
  /\ ~Hears(sig, msg)
  /\ ~ /\ msg.op = "ModifyFlags"
       /\ allowModifyFlagsConversion
       /\ ItemChanged \in sig

\* checkBatchSupport(), its two results.
BatchSupported(sig, msg) ==
  /\ msg.type = "Items"
  /\ msg.op = "ModifyTags" \/ <<"Items", msg.op, Many>> \in sig

NeedsSplit(sig, msg) ==
  /\ Cardinality(msg.entities) > 1
  /\ CASE msg.type = "Collections" \/ msg.op \in {"Add", "Modify"} -> TRUE
       [] msg.op = "ModifyFlags" ->
            ~BatchSupported(sig, msg) /\ ItemChanged \in sig
       [] msg.op = "ModifyTags" -> FALSE
       [] OTHER -> <<"Items", msg.op, One>> \in sig

\* splitMessage(): one message per entity; for a legacy client a change of
\* flags becomes a change of the part "FLAGS".
Piece(msg, legacy, e) ==
  LET one == [msg EXCEPT !.entities = {e}] IN
  IF legacy /\ msg.op = "ModifyFlags"
  THEN [one EXCEPT !.op = "Modify", !.parts = {"FLAGS"}]
  ELSE one

\* The order is the one of the entities' ids.
InOrder(S) ==
  CHOOSE q \in [1..Cardinality(S) -> S] : \A e \in S : \E i \in DOMAIN q : q[i] = e

splitMessage(msg, legacy) ==
  LET ids == InOrder(msg.entities)
  IN [i \in 1..Cardinality(msg.entities) |-> Piece(msg, legacy, ids[i])]

\* translateAndCompress(): a move is seen as a removal or an insertion where
\* only one end is watched, and ignored where none is.  A resource switches the
\* translation off for collections; an insertion comes entity by entity.
translateAndCompress(list, msg) ==
  LET from == msg.parent \in Watched
      to   == msg.dest \in Watched
      removal   == [msg EXCEPT !.op = "Remove", !.dest = None]
      insertion == [msg EXCEPT !.op = "Add", !.parent = msg.dest, !.dest = None]
      added == splitMessage(insertion, FALSE)
  IN IF msg.op # "Move" THEN appendAndCompress(list, msg)
     ELSE IF ~from /\ ~to THEN Outcome(list, 0)
     ELSE IF (from /\ to) \/ msg.type = "Collections"
     THEN appendAndCompress(list, msg)
     ELSE IF from THEN appendAndCompress(list, removal)
     ELSE Outcome(list \o added, Len(added))

\* Whether slotNotify() queues the message as it is, and whether it queues one
\* message per entity.
QueuesWhole(sig, msg) ==
  \/ BatchSupported(sig, msg)
  \/ ~NeedsSplit(sig, msg) /\ msg.op # "ModifyFlags"
  \/ msg.type = "Collections"

QueuesPieces(sig, msg) ==
  \/ NeedsSplit(sig, msg)
  \/ ~BatchSupported(sig, msg) /\ msg.op = "ModifyFlags"

\* Mutant: the messages of a split are queued but not counted.
RoundMiscounts(sig, done, msg) ==
  LET whole == IF QueuesWhole(sig, msg)
               THEN translateAndCompress(done.list, msg)
               ELSE Outcome(done.list, 0)
      pieces == IF QueuesPieces(sig, msg)
                THEN splitMessage(msg, ~BatchSupported(sig, msg))
                ELSE <<>>
  IN [list |-> whole.list \o pieces,
      appended |-> done.appended + whole.appended,
      erased |-> done.erased]

\* One round of slotNotify(): what the loop has done so far is the list, the
\* messages appended, and whether messages were erased.
Round(sig, done, msg) ==
  LET whole == IF QueuesWhole(sig, msg)
               THEN translateAndCompress(done.list, msg)
               ELSE Outcome(done.list, 0)
      pieces == IF QueuesPieces(sig, msg)
                THEN splitMessage(msg, ~BatchSupported(sig, msg))
                ELSE <<>>
  IN [list |-> whole.list \o pieces,
      appended |-> done.appended + whole.appended + Len(pieces),
      erased |-> \/ done.erased
                 \/ Len(whole.list) # Len(done.list) + whole.appended]

\* slotNotify() up to its end, where it reports the counts.
Enqueued(sig, list, msgs) ==
  LET step[done \in [list : Seq(Message), appended : Nat, erased : BOOLEAN,
                     next : Nat]] ==
        LET msg == msgs[done.next]
            r == Round(sig, done, msg)
        IN [list |-> r.list, appended |-> r.appended, erased |-> r.erased,
            next |-> done.next + 1]
  IN Iterate(step, [list |-> list, appended |-> 0, erased |-> FALSE, next |-> 1],
             Len(msgs))

\* The messages slotNotify() does not skip.
Wanted(sig, msgs) ==
  Keep(msgs, {m \in Elements(msgs) : ~isLazilyIgnored(sig, m, TRUE)})
=============================================================================
