------------------------------ MODULE MCEndpoint ------------------------------
(***************************************************************************)
(* The instance of Endpoint that TLC checks.                               *)
(***************************************************************************)
EXTENDS EndpointProperties, TLC

CONSTANTS p, q

Can(versions, direction, features) ==
    [versions |-> versions, direction |-> direction, features |-> features]

\* The first choice leaves the call of p to the client, the second leaves nothing,
\* and with the third the server cannot listen.
ClientChoices ==
    {p :> Can({1, 2, 3}, "call_only", {"f", "g"}) @@ q :> Can({1}, "respond_only", {})}
ServerChoices ==
    {p :> Can({1, 2, 4}, "bidirectional", {"f"}) @@ q :> Can({1}, "respond_only", {}),
     p :> Can({4}, "respond_only", {}) @@ q :> Can({1}, "respond_only", {}),
     p :> Can({1}, "call_only", {}) @@ q :> Can({1}, "call_only", {})}
=============================================================================
