-------------------------- MODULE MCChangeRecorder --------------------------
(***************************************************************************)
(* Finite instances of ChangeRecorder: the messages a server sends about   *)
(* two items, and about a collection nobody listens for, to agents of two  *)
(* versions.                                                               *)
(***************************************************************************)
EXTENDS ChangeRecorder, TLC

CONSTANTS i1, i2, s1, s2, home, away, f, g

Msg(type, op, entities, session) ==
  [type |-> type, op |-> op, entities |-> entities, session |-> session,
   parent |-> home, dest |-> None, parts |-> {}, added |-> {}, removed |-> {}]

Added(i)      == Msg("Items", "Add", {i}, s1)
Changed(i, s) == [Msg("Items", "Modify", {i}, s) EXCEPT !.parts = {"body"}]
Flagged(S, s, plus, minus) ==
  [Msg("Items", "ModifyFlags", S, s) EXCEPT !.added = plus, !.removed = minus]
Removed(S)    == Msg("Items", "Remove", S, s1)
Moved(S, to)  == [Msg("Items", "Move", S, s1) EXCEPT !.dest = to]
Entered(S)    == [Msg("Items", "Move", S, s1) EXCEPT !.parent = away, !.dest = home]
Renamed       == [Msg("Collections", "Modify", {i1}, s1) EXCEPT !.parts = {"name"}]

\* An agent that implements the oldest observer, and one that takes batches.
OldAgent == {<<"Items", "Add", One>>, <<"Items", "Modify", One>>,
             <<"Items", "Remove", One>>, <<"Items", "Move", One>>}
NewAgent == {<<"Items", "Add", One>>, <<"Items", "Modify", One>>,
             <<"Items", "ModifyFlags", Many>>, <<"Items", "Move", Many>>,
             <<"Items", "Remove", Many>>}

\* An addition, an edit and a deletion, flags of two items set and taken back,
\* moves, which the old agent needs converted and split, and a change nobody
\* listens for.
Life == {Added(i1), Changed(i1, s1), Flagged({i1, i2}, s1, {f}, {}),
         Flagged({i1, i2}, s1, {}, {f}), Removed({i1}), Entered({i1}),
         Moved({i1, i2}, home), Renamed}

Edits    == {Changed(i1, s1), Removed({i1}), Flagged({i1}, s1, {f}, {})}

\* The versions of the agent that are installed.
Newest  == {NewAgent}
Both    == {OldAgent, NewAgent}

\* The files found at the first start: none, or one of the format before with
\* two changes, of which the first was processed.
FreshStart == {[version |-> 3, offset |-> 0, entries |-> <<>>]}
LeftBehind == {[version |-> 2, offset |-> 1,
                entries |-> <<Changed(i2, s1), Changed(i1, s1)>>]}
AnyStart   == FreshStart \cup LeftBehind
=============================================================================
