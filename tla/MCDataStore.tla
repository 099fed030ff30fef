---------------------------- MODULE MCDataStore ----------------------------
(***************************************************************************)
(* A finite instance of DataStore.                                         *)
(***************************************************************************)
EXTENDS DataStore
=============================================================================
