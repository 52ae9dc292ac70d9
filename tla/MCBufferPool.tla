---------------------------- MODULE MCBufferPool ----------------------------
(***************************************************************************)
(* The instance of BufferPool that TLC checks.                             *)
(***************************************************************************)
EXTENDS BufferPool, TLC

Symmetry == Permutations(Tasks)

\* Of the seven classes of the code, each four times the one before.
TwoClasses == <<2, 8>>
=============================================================================
