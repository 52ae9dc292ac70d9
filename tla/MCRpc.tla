------------------------------- MODULE MCRpc -------------------------------
(***************************************************************************)
(* The instances of Rpc that TLC checks.                                   *)
(***************************************************************************)
EXTENDS RpcProperties

\* Two calls of an RpcChannel, so that a late answer to the first meets the
\* second, beside one call of a generated client.
OneOrTwo == [c \in Callers |-> IF c \in Generated THEN 1 ELSE 2]
=============================================================================
