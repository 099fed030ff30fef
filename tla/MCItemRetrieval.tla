-------------------------- MODULE MCItemRetrieval --------------------------
(***************************************************************************)
(* Finite instances of ItemRetrieval.                                      *)
(***************************************************************************)
EXTENDS ItemRetrieval, TLC

CONSTANTS t1, t2, i1, i2, i3, imap, maildir, head, body

\* Two items of one resource and one of another.
TwoResources == (i1 :> imap) @@ (i2 :> imap) @@ (i3 :> maildir)

\* One item, one part or the other or both of it, items of one resource, items of
\* both, and the item of the other resource.
AskedFor == {[item : {1}, parts : {{head}}], [item : {1}, parts : {{body}}],
             [item : {1, 2}, parts : {{head, body}}],
             [item : {1, 2, 3}, parts : {{head}}], [item : {3}, parts : {{body}}]}
=============================================================================
