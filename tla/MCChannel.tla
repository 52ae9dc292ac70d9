----------------------------- MODULE MCChannel -----------------------------
(***************************************************************************)
(* The instances of Channel that TLC checks.                               *)
(***************************************************************************)
EXTENDS ChannelProperties, TLC, FiniteSets

Symmetry == Permutations(Senders)
=============================================================================
