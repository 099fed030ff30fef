--------------------------- MODULE MCChangeReplay ---------------------------
(***************************************************************************)
(* Finite instances of ChangeReplay.  The messages come from the clients,  *)
(* so Notices is not used; the agent connects the signals of the IMAP      *)
(* resource.                                                               *)
(***************************************************************************)
EXTENDS ChangeReplay, TLC

CONSTANTS i1, i2, s1, s2, home, f, g

NoNotices == {}
ImapAgent == {{<<"Items", "Add", One>>, <<"Items", "Modify", One>>,
               <<"Items", "ModifyFlags", Many>>, <<"Items", "Move", Many>>,
               <<"Items", "Remove", Many>>}}
FreshStart == {[version |-> 3, offset |-> 0, entries |-> <<>>]}

\* One item is there and flagged, the other is not there yet.
OneFlagged == i1 :> {f}

\* Two clients create, edit and delete items, alone or together ...
Payloads == [sessions |-> {s1, s2}, kinds |-> {"Add", "Modify", "Remove"},
             groups |-> {{i1}, {i1, i2}}, most |-> 3, faults |-> 2, errors |-> FALSE]

\* ... or one client creates items and flags them again and again, ...
Flags == [sessions |-> {s1}, kinds |-> {"Add", "ModifyFlags"},
          groups |-> {{i1}, {i1, i2}}, most |-> 4, faults |-> 0, errors |-> FALSE]

\* ... or one does all of it, and the mail server refuses some requests.
Everything == [sessions |-> {s1}, kinds |-> {"Add", "Modify", "ModifyFlags", "Remove"},
               groups |-> {{i1}, {i1, i2}}, most |-> 3, faults |-> 1, errors |-> TRUE]

SomeWorkloads == {Payloads, Everything, Flags}

\* The clients are alike.
SessionsAlike == Permutations({s1, s2})
=============================================================================
