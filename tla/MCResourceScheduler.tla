------------------------ MODULE MCResourceScheduler ------------------------
(***************************************************************************)
(* A finite instance of ResourceScheduler.  Clients are interchangeable,   *)
(* so the requests may be permuted.                                        *)
(***************************************************************************)
EXTENDS ResourceScheduler, TLC

CONSTANTS c1, f1, m1, v1, r1, r2

RequestSymmetry == Permutations(Requests)
=============================================================================
