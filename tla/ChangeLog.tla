----------------------------- MODULE ChangeLog -----------------------------
(***************************************************************************)
(* What a change recorder promises: a log of changes that is never lost.   *)
(* A change enters the log when the server notifies of it, is given out,   *)
(* and leaves the log when the one it was given to has answered, or when   *)
(* nobody wants to hear of it.  A crash loses what was given out, and      *)
(* nothing else.                                                           *)
(***************************************************************************)
EXTENDS Monitor

CONSTANTS Notices, Listenings, MaxBatch

VARIABLES
  log,      \* the changes recorded
  heard,    \* the signals that have receivers
  given     \* how many changes are given out and not answered

vars == <<log, heard, given>>

Init == log \in Seq(Message) /\ heard \in Listenings /\ given = 0

Record ==
  /\ \E n \in 1..MaxBatch : \E msgs \in [1..n -> Notices] :
       log' = Enqueued(heard, log, Wanted(heard, msgs)).list
  /\ UNCHANGED <<heard, given>>

\* What nobody hears of, and a move that concerns nobody.
Idle(msg) ==
  \/ ~Hears(heard, msg)
  \/ msg.op = "Move" /\ msg.parent \notin Watched /\ msg.dest \notin Watched

\* Changes are skipped up to the first that is given out, if there is one.
Give ==
  /\ \E k \in 0..Len(log) :
       /\ \A i \in 1..k : Idle(log[i])
       /\ log' = SubSeq(log, k + 1, Len(log))
  /\ given' \in Nat /\ given' >= given
  /\ UNCHANGED heard

\* Each answer takes at most one change out of the log.
Done ==
  /\ given > 0
  /\ given' = given - 1
  /\ log' = IF log = <<>> THEN log ELSE Tail(log)
  /\ UNCHANGED heard

\* A change may be put off: it stays in the log.
PutOff == given > 0 /\ given' = given - 1 /\ UNCHANGED <<log, heard>>

Crash == given' = 0 /\ UNCHANGED <<log, heard>>

Upgrade == heard' \in Listenings /\ UNCHANGED <<log, given>>

Next == Give \/ Done \/ PutOff \/ Crash \/ Upgrade \/ Record

Spec == Init /\ [][Next]_vars
=============================================================================
