-------------------------------- MODULE MCMux --------------------------------
(***************************************************************************)
(* The instance of Mux that TLC checks.                                    *)
(***************************************************************************)
EXTENDS MuxProperties, TLC

CONSTANTS c1, c2

\* Two messages in a row on the first channel, and on the second one of any kind:
\* what is skipped at either end, and what ends the send task.
SomeKinds == c1 :> {"plain"} @@ c2 :> AllKinds
TwoAndOne == c1 :> 2 @@ c2 :> 1
=============================================================================
