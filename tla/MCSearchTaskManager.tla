------------------------ MODULE MCSearchTaskManager ------------------------
(***************************************************************************)
(* Finite instances of SearchTaskManager.                                  *)
(***************************************************************************)
EXTENDS SearchTaskManager, TLC

CONSTANTS c1, c2, imap, maildir, inbox, archive

\* One collection of each resource.
TwoCollections == (inbox :> imap) @@ (archive :> maildir)
=============================================================================
