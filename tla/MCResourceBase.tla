-------------------------- MODULE MCResourceBase --------------------------
(***************************************************************************)
(* A finite instance of ResourceBase.                                      *)
(***************************************************************************)
EXTENDS ResourceBase

CONSTANTS c1, f1, m1, v1, v2, r1

\* What users, timers and the server ask for.  SyncAll leads to SyncCollection.
Asked == {MkTask("SyncAll", NoArg), MkTask("SyncCollectionTree", NoArg),
          MkTask("DeleteResourceCollection", NoArg),
          MkTask("SyncCollectionAttributes", c1), MkTask("Custom", m1)}
===========================================================================
