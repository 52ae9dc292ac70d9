------------------------------ MODULE Handshake ------------------------------
(***************************************************************************)
(* The handshake of a client endpoint with a server endpoint over several  *)
(* connections: negotiation (endpoint/handshake.rs, direction.rs), and the *)
(* exchange of messages in Endpoint::try_connect and in the three ways in  *)
(* which a server takes a connection: listen, listen_manual and accept     *)
(* (endpoint/endpoint.rs).                                                 *)
(***************************************************************************)
EXTENDS Naturals, Sequences, FiniteSets

CONSTANTS
    Conns,
    Protocols,
    ClientCaps, ServerCaps, \* what each endpoint may have registered
    Serializers,            \* "json" and others
    Modes                   \* how the server takes connections

Ends == {"client", "server"}
Peer(e) == IF e = "client" THEN "server" ELSE "client"
Directions == {"call_only", "respond_only", "bidirectional"}

IsCapabilities(c) ==
    /\ DOMAIN c \subseteq Protocols
    /\ \A p \in DOMAIN c : c[p].versions \subseteq Nat /\ c[p].direction \in Directions

ASSUME CapsAssumption == \A c \in ClientCaps \cup ServerCaps : IsCapabilities(c)
ASSUME ConnsAssumption == Conns \subseteq Nat
ASSUME ModesAssumption == Modes \subseteq {"listen", "manual", "accept"}

-----------------------------------------------------------------------------
(***************************************************************************)
(* Negotiation                                                             *)
(***************************************************************************)
CanCall(d) == d \in {"call_only", "bidirectional"}
CanRespond(d) == d \in {"respond_only", "bidirectional"}

IsCompatibleWith(d, other) ==
    (CanCall(d) /\ CanRespond(other)) \/ (CanRespond(d) /\ CanCall(other))

CommonVersions(our, peer) == our.versions \cap peer.versions

\* Mutant: our own highest version, if it is a common one or not.
NegotiateVersionOurs(our, peer) ==
    CHOOSE v \in our.versions : \A w \in our.versions : w <= v

NegotiateVersion(our, peer) ==
    CHOOSE v \in CommonVersions(our, peer) : \A w \in CommonVersions(our, peer) : w <= v

NegotiatedProtocol(p, our, peer) ==
    [name |-> p,
     version |-> NegotiateVersion(our, peer),
     features |-> our.features \cap peer.features,
     weCall |-> CanCall(our.direction) /\ CanRespond(peer.direction),
     weRespond |-> CanRespond(our.direction) /\ CanCall(peer.direction)]

NegotiateProtocols(our, peer) ==
    {NegotiatedProtocol(p, our[p], peer[p]) :
        p \in {q \in DOMAIN our \cap DOMAIN peer :
                  /\ IsCompatibleWith(our[q].direction, peer[q].direction)
                  /\ CommonVersions(our[q], peer[q]) # {}}}

-----------------------------------------------------------------------------
VARIABLES
    caps,           \* the capabilities of each endpoint
    serializer,     \* its serializer's name
    mode,           \* how the server takes connections
    at,             \* where each side of each connection is
    wire,           \* the handshake messages on their way to each side
    result,         \* what each side has negotiated, before it is stored
    negotiated,     \* Endpoint.negotiated: the result by connection
    system          \* whether an endpoint's channel manager has a system channel

handshakeVars == <<caps, serializer, mode, at, wire, result, negotiated, system>>
fixedVars == <<caps, serializer, mode>>

Stages == {"idle", "begin", "hello", "send_ack", "await_ack", "store", "system", "up", "kept",
           "failed"}
Over == {"idle", "up", "kept", "failed"}

\* Without a protocol that it may respond to, an endpoint does not listen.
HasResponder(c) == \E p \in DOMAIN c : CanRespond(c[p].direction)

HandshakeInit ==
    /\ caps \in {c \in [Ends -> ClientCaps \cup ServerCaps] :
                    /\ c["client"] \in ClientCaps /\ c["server"] \in ServerCaps
                    /\ HasResponder(c["server"])}
    /\ serializer \in [Ends -> Serializers]
    /\ mode \in Modes
    /\ at = [k \in Conns |-> [e \in Ends |-> "idle"]]
    /\ wire = [k \in Conns |-> [e \in Ends |-> <<>>]]
    /\ result = [k \in Conns |-> [e \in Ends |-> {}]]
    /\ negotiated = [e \in Ends |-> [k \in Conns |-> {}]]
    /\ system = [e \in Ends |-> FALSE]

\* try_connect and the listening servers always speak JSON; accept uses the
\* serializer of its endpoint.
Coding(e) == IF e = "server" /\ mode = "accept" THEN serializer["server"] ELSE "json"

\* Hello names its sender's capabilities, or rather who has them.
Message(e, kind, name) ==
    [kind |-> kind, coding |-> Coding(e), serializer |-> name, protocols |-> e]

Hello(e, name) == Message(e, "hello", name)
Ack(e) == Message(e, "ack", "none")
Error(e) == Message(e, "error", "none")

Step(k, e, stage) == at' = [at EXCEPT ![k][e] = stage]

\* Mutant: a server that fails keeps its transport.
ClosedByClient(k, e) == e = "client" /\ at[k][e] \in {"up", "failed"}

\* A side that returns an error drops its transport, and so does the client when
\* try_connect returns, be it with success.
Closed(k, e) == at[k][e] = "failed" \/ (e = "client" /\ at[k][e] = "up")

\* Side e takes the first message that waits for it, or none, and sends these.
Exchange(k, e, taken, sent) ==
    wire' = [wire EXCEPT ![k][e] = IF taken THEN Tail(@) ELSE @,
                         ![k][Peer(e)] = IF Closed(k, Peer(e)) THEN @ ELSE @ \o sent]

\* What a side has not read goes with its transport.
Fail(k, e) ==
    /\ Step(k, e, "failed")
    /\ result' = [result EXCEPT ![k][e] = {}]

Unread(k, e) == wire' = [wire EXCEPT ![k][e] = <<>>]

First(k, e) == Head(wire[k][e])
Readable(k, e) == wire[k][e] # <<>>
Understood(k, e) == First(k, e).coding = Coding(e)
Negotiate(k, e) == NegotiateProtocols(caps[e], caps[First(k, e).protocols])

-----------------------------------------------------------------------------
(***************************************************************************)
(* connect takes &mut self: the client makes one connection at a time, and *)
(* they are numbered in their order.                                       *)
(***************************************************************************)
Connecting == \E k \in Conns : at[k]["client"] \notin Over

Connect(k) ==
    /\ at[k]["client"] = "idle" /\ \A j \in Conns : j < k => at[j]["client"] # "idle"
    /\ ~Connecting
    /\ at' = [at EXCEPT ![k] = [e \in Ends |-> IF e = "client" THEN "hello" ELSE "begin"]]
    /\ Exchange(k, "client", FALSE, <<Hello("client", serializer["client"])>>)
    /\ UNCHANGED <<fixedVars, result, negotiated, system>>

\* The client negotiates, and if nothing is left fails without telling the server.
ClientReadsHello(k) ==
    /\ at[k]["client"] = "hello" /\ Readable(k, "client")
    /\ IF /\ Understood(k, "client") /\ First(k, "client").kind = "hello"
          /\ First(k, "client").serializer = serializer["client"]
          /\ Negotiate(k, "client") # {}
       THEN /\ Exchange(k, "client", TRUE, <<>>)
            /\ Step(k, "client", "send_ack")
            /\ result' = [result EXCEPT ![k]["client"] = Negotiate(k, "client")]
       ELSE Unread(k, "client") /\ Fail(k, "client")
    /\ UNCHANGED <<fixedVars, negotiated, system>>

ClientSendsAck(k) ==
    /\ at[k]["client"] = "send_ack"
    /\ Exchange(k, "client", FALSE, <<Ack("client")>>)
    /\ Step(k, "client", "store")
    /\ UNCHANGED <<fixedVars, result, negotiated, system>>

-----------------------------------------------------------------------------
(***************************************************************************)
(* The server: listen and listen_manual read first, accept writes first    *)
(***************************************************************************)

\* accept_channels borrows its listener mutably and takes one connection after the
\* other; listen and accept have a task for each.
HasTurn(k) == mode = "manual" => \A j \in Conns : j < k => at[j]["server"] \in Over

AcceptBegins(k) ==
    /\ at[k]["server"] = "begin" /\ mode = "accept"
    /\ Exchange(k, "server", FALSE, <<Hello("server", serializer["server"])>>)
    /\ Step(k, "server", "hello")
    /\ UNCHANGED <<fixedVars, result, negotiated, system>>

\* Mutant: a server that goes on to the ack without having answered.
ServerGoesOnSilently(k, sent) ==
    /\ Exchange(k, "server", TRUE, <<>>)
    /\ Step(k, "server", "await_ack")
    /\ result' = [result EXCEPT ![k]["server"] = Negotiate(k, "server")]
    /\ UNCHANGED <<fixedVars, negotiated, system>>

\* The server has read a Hello and answers it with these, or fails after them.
ServerGoesOn(k, sent) ==
    /\ Exchange(k, "server", TRUE, sent)
    /\ Step(k, "server", "await_ack")
    /\ result' = [result EXCEPT ![k]["server"] = Negotiate(k, "server")]
    /\ UNCHANGED <<fixedVars, negotiated, system>>

ServerRefuses(k, sent) ==
    /\ wire' = [wire EXCEPT ![k]["server"] = <<>>,
                            ![k]["client"] = IF Closed(k, "client") THEN @ ELSE @ \o sent]
    /\ Fail(k, "server")
    /\ UNCHANGED <<fixedVars, negotiated, system>>

\* listen compares the serializers, listen_manual says that it has the client's.
ListenerReadsHello(k) ==
    /\ at[k]["server"] = "begin" /\ mode # "accept" /\ HasTurn(k) /\ Readable(k, "server")
    /\ LET theirs == First(k, "server").serializer
           name == IF mode = "manual" THEN theirs ELSE serializer["server"]
           hello == Hello("server", name)
       IN  CASE name # theirs -> ServerRefuses(k, <<Error("server")>>)
             [] name = theirs /\ Negotiate(k, "server") = {} ->
                    ServerRefuses(k, <<hello, Error("server")>>)
             [] OTHER -> ServerGoesOn(k, <<hello>>)

\* accept compares no serializers, but what it cannot decode is an error.
AcceptReadsHello(k) ==
    /\ at[k]["server"] = "hello" /\ Readable(k, "server")
    /\ CASE ~Understood(k, "server") -> ServerRefuses(k, <<>>)
         [] Understood(k, "server") /\ Negotiate(k, "server") = {} ->
                ServerRefuses(k, <<Error("server")>>)
         [] OTHER -> ServerGoesOn(k, <<Ack("server")>>)

\* Mutant: a server does not wait for the acknowledgment.
ServerSkipsAck(k) ==
    /\ at[k]["server"] = "await_ack"
    /\ Step(k, "server", "store")
    /\ UNCHANGED <<fixedVars, wire, result, negotiated, system>>

\* The client's acknowledgment; its content is not compared with the result.
ServerReadsAck(k) ==
    /\ at[k]["server"] = "await_ack" /\ Readable(k, "server")
    /\ Exchange(k, "server", TRUE, <<>>)
    /\ Step(k, "server", "store")
    /\ UNCHANGED <<fixedVars, result, negotiated, system>>

-----------------------------------------------------------------------------
(***************************************************************************)
(* Both sides                                                              *)
(***************************************************************************)
StoreNegotiated(k, e) ==
    /\ at[k][e] = "store"
    /\ negotiated' = [negotiated EXCEPT ![e][k] = result[k][e]]
    /\ result' = [result EXCEPT ![k][e] = {}]
    /\ Step(k, e, "system")
    /\ UNCHANGED <<fixedVars, wire, system>>

\* The message loop of a server reads on, the client leaves what is unread.
Succeed(k, e) ==
    /\ Step(k, e, "up")
    /\ IF e = "client" THEN Unread(k, e) ELSE UNCHANGED wire
    /\ UNCHANGED result

\* accept has given the transport to the manager before, where it stays.
Keep(k) == Step(k, "server", "kept") /\ UNCHANGED <<wire, result>>

\* create_channel refuses a second system channel.
CreateSystem(k, e) ==
    /\ at[k][e] = "system"
    /\ system' = [system EXCEPT ![e] = TRUE]
    /\ CASE ~system[e] -> Succeed(k, e)
         [] system[e] /\ e = "server" /\ mode = "accept" -> Keep(k)
         [] OTHER -> Unread(k, e) /\ Fail(k, e)
    /\ UNCHANGED <<fixedVars, negotiated>>

\* A read or a write that fails.
IoFails(k, e) ==
    /\ at[k][e] \in {"begin", "hello", "send_ack", "await_ack"}
    /\ at[k][e] = "begin" => HasTurn(k)
    /\ Unread(k, e) /\ Fail(k, e)
    /\ UNCHANGED <<fixedVars, negotiated, system>>

\* The other side has closed: a read finds the end of the stream, and a write, or
\* a read of what was sent before, may find the connection reset.
PeerClosed(k, e) == Closed(k, Peer(e)) /\ IoFails(k, e)

\* External: the connection breaks, as one side notices first.
Break(k) == \E e \in Ends : IoFails(k, e)

ClientStep(k) ==
    \/ ClientReadsHello(k) \/ ClientSendsAck(k)
    \/ StoreNegotiated(k, "client") \/ CreateSystem(k, "client") \/ PeerClosed(k, "client")

ServerStep(k) ==
    \/ AcceptBegins(k) \/ ListenerReadsHello(k) \/ AcceptReadsHello(k) \/ ServerReadsAck(k)
    \/ StoreNegotiated(k, "server") \/ CreateSystem(k, "server") \/ PeerClosed(k, "server")
=============================================================================
