--------------------------- MODULE Notifications ---------------------------
(***************************************************************************)
(* NotificationMessageV2/V3: the change notifications the server sends,    *)
(* and the compression both the server's collector and the client's        *)
(* monitor apply when they put one into a list.                            *)
(*                                                                         *)
(* Remote ids, revisions and mime types are left out: they follow from the *)
(* entities.  So are the resources: they follow from the collections.      *)
(***************************************************************************)
EXTENDS Lists

CONSTANTS
  Entities,      \* the items (or collections) a notification is about
  Sessions,      \* the sessions that make changes
  Collections,   \* the collections notifications come from
  Parts,         \* parts of an item's payload
  Marks          \* flags of an item; for ModifyTags, its tags

\* The invalid parent a notification without a destination has.
None == "none"

Modifications == {"Modify", "ModifyFlags", "ModifyTags"}
FastPath == {"Add", "Link", "Unlink", "Subscribe", "Unsubscribe", "Move"}
Operation == Modifications \cup FastPath \cup {"Remove"}

Message ==
  [type : {"Items", "Collections"}, op : Operation,
   entities : SUBSET Entities, session : Sessions,
   parent : Collections \cup {None}, dest : Collections \cup {None},
   parts : SUBSET (Parts \cup {"FLAGS"}),
   added : SUBSET Marks, removed : SUBSET Marks]

\* Mutant: the entities are not compared.
SameOrigin(l, r) ==
  l.type = r.type /\ l.session = r.session /\ l.parent = r.parent /\ l.dest = r.dest

\* compareWithoutOpAndParts()
SameSubject(l, r) ==
  /\ l.entities = r.entities /\ l.type = r.type /\ l.session = r.session
  /\ l.parent = r.parent /\ l.dest = r.dest

\* Two modifications of one kind become one.
Merges(msg, old) ==
  SameSubject(msg, old) /\ msg.op = old.op /\ msg.op \in Modifications

\* The recipient will look at the entity anyway: the new one is dropped.
Covers(msg, old) ==
  /\ SameSubject(msg, old)
  /\ msg.op \in {"Modify", "ModifyFlags"} /\ old.op \notin Modifications

\* A deletion makes the modifications before it pointless.
Supersedes(msg, old) ==
  SameSubject(msg, old) /\ msg.op = "Remove" /\ old.op \in Modifications

Merged(msg, old) ==
  IF msg.op = "Modify" THEN [old EXCEPT !.parts = @ \cup msg.parts]
  ELSE [old EXCEPT !.added = @ \cup msg.added, !.removed = @ \cup msg.removed]

\* "If merged notifications result in no-change notification, drop both."
NoChange(msg) == msg.op # "Modify" /\ msg.added = msg.removed

\* QList::erase
Without(list, i) == SubSeq(list, 1, i - 1) \o SubSeq(list, i + 1, Len(list))

\* A list, and how many messages were appended to get it.
Outcome(list, appended) == [list |-> list, appended |-> appended]

MergeAt(list, i, msg) ==
  LET m == Merged(msg, list[i]) IN
  IF NoChange(m) THEN Outcome(Without(list, i), 0)
  ELSE Outcome([list EXCEPT ![i] = m], 0)

\* The elements at which the loop over a list stops for a message.
Stops(list, msg) ==
  {old \in Elements(list) : Merges(msg, old) \/ Covers(msg, old)}

\* What a deletion leaves of a list.
Purged(list, msg) ==
  Keep(list, {old \in Elements(list) : ~Supersedes(msg, old)})

\* appendAndCompress(): a message meets the list element by element; the first
\* one that absorbs it ends the loop.
appendAndCompress(list, msg) ==
  LET i == FirstIn(list, Stops(list, msg)) IN
  IF msg.op = "Remove" THEN Outcome(Append(Purged(list, msg), msg), 1)
  ELSE IF msg.op \in FastPath \/ i = 0 THEN Outcome(Append(list, msg), 1)
  ELSE IF Merges(msg, list[i]) THEN MergeAt(list, i, msg)
  ELSE Outcome(list, 0)
=============================================================================
