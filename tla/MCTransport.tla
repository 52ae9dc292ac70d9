----------------------------- MODULE MCTransport -----------------------------
(***************************************************************************)
(* The instances of Transport that TLC checks.                             *)
(***************************************************************************)
EXTENDS TransportProperties, TLC

CONSTANTS m1, a1, b1, c1, d1, breaker, steady, limited

\* m1 belongs to the manager; the others stand alone, and a1 and b1 share a breaker.
Uses == m1 :> steady @@ a1 :> breaker @@ b1 :> breaker @@ c1 :> steady @@ d1 :> limited
Policies == breaker :> "circuit" @@ steady :> "delay" @@ limited :> "delay"
Limits == breaker :> Unlimited @@ steady :> Unlimited @@ limited :> 1

\* One caller of the manager.
UseOne == m1 :> steady
OnePolicy == steady :> "delay"
OneLimit == steady :> Unlimited
=============================================================================
