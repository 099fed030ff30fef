----------------------- MODULE MCPreprocessorManager -----------------------
(***************************************************************************)
(* Finite instances of PreprocessorManager.                                *)
(***************************************************************************)
EXTENDS PreprocessorManager, TLC

CONSTANTS c1, i1, i2, i3, spam, virus
=============================================================================
