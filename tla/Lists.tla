------------------------------- MODULE Lists -------------------------------
(***************************************************************************)
(* The QList operations the server and the client library build their      *)
(* queues from.  A QList is a sequence; the loops that erase while they    *)
(* iterate are one operator, written as a recursive function so that facts *)
(* about it can be proved (ListFacts).                                     *)
(***************************************************************************)
EXTENDS Integers, Sequences

\* The elements of a list.
Elements(q) == {q[i] : i \in DOMAIN q}

\* for ( it = list.begin(); it != list.end(); )
\*     if ( *it in S ) ++it; else it = list.erase( it );
Keep(q, S) ==
  LET kept[i \in 0..Len(q)] ==
        IF i = 0 THEN <<>>
        ELSE IF q[i] \in S THEN Append(kept[i-1], q[i]) ELSE kept[i-1]
  IN kept[Len(q)]

\* A loop of n rounds over a state: the state after the last one.
Iterate(step, s, n) ==
  LET after[i \in 0..n] == IF i = 0 THEN s ELSE step[after[i-1]]
  IN after[n]

\* QList::prepend
Prepend(q, e) == <<e>> \o q

\* The first position of a list whose element is in S; 0 when there is none.
FirstIn(q, S) ==
  IF \E i \in DOMAIN q : q[i] \in S
  THEN CHOOSE i \in DOMAIN q :
         q[i] \in S /\ \A j \in DOMAIN q : q[j] \in S => i <= j
  ELSE 0
=============================================================================
