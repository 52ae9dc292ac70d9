------------------------------- MODULE Endpoint -------------------------------
(***************************************************************************)
(* A client endpoint that connects to a server and requests channels.      *)
(* connect borrows the endpoint mutably, get_channels and request_channel  *)
(* do not: requests and connecting exclude each other.  What the server    *)
(* still has to do then commutes with every step of a request, so requests *)
(* are taken to begin when both sides are done.                            *)
(***************************************************************************)
EXTENDS ChannelRequests

vars == <<handshakeVars, requestVars>>

Init == HandshakeInit /\ RequestsInit

ConnectAlone(k) ==
    /\ \A r \in Requests : req[r].at \in Gone
    /\ Connect(k)

Request(r) ==
    /\ \A k \in Conns : \A e \in Ends : at[k][e] \in Over
    /\ \/ \E k \in Conns, p \in Protocols : GetChannels(r, k, p)
       \/ \E i \in Ids : RequestChannel(r, i)

Next ==
    \/ /\ \E k \in Conns : ConnectAlone(k) \/ ClientStep(k) \/ ServerStep(k) \/ Break(k)
       /\ UNCHANGED requestVars
    \/ /\ \/ \E r \in Requests : Request(r) \/ RequestStep(r)
          \/ HandlerStep
       /\ UNCHANGED handshakeVars

Spec == Init /\ [][Next]_vars

\* Tasks that have begun go on, on both sides: nobody has to call anything.  Neither a
\* request that waits for room in the system channel nor its handler is sure to.
FairSpec ==
    /\ Spec
    /\ \A k \in Conns : WF_vars(ClientStep(k) /\ UNCHANGED requestVars)
    /\ \A k \in Conns : WF_vars(ServerStep(k) /\ UNCHANGED requestVars)
    /\ \A r \in Requests : WF_vars(RequestGoesOn(r) /\ UNCHANGED handshakeVars)
=============================================================================
