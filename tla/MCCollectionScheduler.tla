----------------------- MODULE MCCollectionScheduler -----------------------
(***************************************************************************)
(* Finite instances of CollectionScheduler.                                *)
(***************************************************************************)
EXTENDS CollectionScheduler, TLC

CONSTANTS inbox, sent, copy
=============================================================================
