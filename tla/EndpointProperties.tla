-------------------------- MODULE EndpointProperties --------------------------
(***************************************************************************)
(* What the handshake and channel requests have to guarantee.              *)
(***************************************************************************)
EXTENDS Endpoint

Messages ==
    [kind : {"hello", "ack", "error"}, coding : Serializers \cup {"json"},
     serializer : Serializers \cup {"none"}, protocols : Ends]

\* Hello names the capabilities of its sender.
From(e) == {m \in Messages : m.protocols = e}

SystemMessages ==
    [kind : {"request", "response"}, id : Ids, no : Requests, ok : BOOLEAN]

Progress ==
    [at : {"idle", "insert", "send", "wait", "remove", "finish", "dropped"}, id : Ids \cup {0},
     local : BOOLEAN, by : Requests \cup {Nobody},
     answer : {"none", "ok", "no", "closed", "timeout", "refused", "no_system"}]

HandshakeType ==
    /\ caps \in [Ends -> ClientCaps \cup ServerCaps]
    /\ serializer \in [Ends -> Serializers]
    /\ mode \in Modes
    /\ at \in [Conns -> [Ends -> Stages]]
    /\ DOMAIN wire = Conns /\ DOMAIN result = Conns
    /\ \A k \in Conns : DOMAIN wire[k] = Ends /\ DOMAIN result[k] = Ends
    /\ \A k \in Conns : \A e \in Ends : wire[k][e] \in Seq(From(Peer(e)))
    /\ DOMAIN negotiated = Ends /\ \A e \in Ends : DOMAIN negotiated[e] = Conns
    /\ system \in [Ends -> BOOLEAN]

RequestsType ==
    /\ made \in 0..MaxRequests /\ lastId \in 0..MaxRequests
    /\ channels \subseteq 1..lastId
    /\ pending \in [Ids -> 0..made]
    /\ queue \in Seq(SystemMessages) /\ Len(queue) <= SystemBuffer
    /\ handler \in SystemMessages \cup {NoMessage}
    /\ req \in [Requests -> Progress]
    /\ \A r \in Requests : r > made => req[r] = Idle
    /\ \A r \in Requests : req[r].at # "idle" => req[r].id \in Ids
    /\ times \in [Ids -> 0..made]

TypeOK == HandshakeType /\ RequestsType

-----------------------------------------------------------------------------
\* The same protocol, seen from the other side.
Mirror(n) ==
    [name |-> n.name, version |-> n.version, features |-> n.features,
     weCall |-> n.weRespond, weRespond |-> n.weCall]

\* Both sides of a connection negotiate on their own, and find the same: the same
\* protocols, versions and features, and what one may call the other responds to.
\* When a server has stored its result, the client has accepted the connection too.
Agreement ==
    \A k \in Conns :
        LET mine == negotiated["client"][k]
            theirs == negotiated["server"][k]
        IN  /\ mine # {} /\ theirs # {} => theirs = {Mirror(n) : n \in mine}
            /\ theirs # {} => mine # {} \/ at[k]["client"] = "store"

\* A side that waits for a message that is not on its way.
Waits(k, e) ==
    /\ wire[k][e] = <<>>
    /\ at[k][e] \in {"hello", "await_ack"}
          \/ (e = "server" /\ at[k][e] = "begin" /\ mode # "accept")

\* Two sides never wait for each other: when one waits, its peer has something to do,
\* a message to read included, or has closed, in each of the three exchanges and
\* however one of them fails.
NoMutualWait ==
    \A k \in Conns : \A e \in Ends :
        Waits(k, e) =>
            Closed(k, Peer(e)) \/ (at[k][Peer(e)] \notin Over /\ ~Waits(k, Peer(e)))

\* However a handshake fails, neither side waits for the other for ever.
HandshakeEnds ==
    []<>(\A k \in Conns : \A e \in Ends : at[k][e] \in Over)

-----------------------------------------------------------------------------
\* A request gets the answer that was given to it, and not that of another: a late
\* answer finds nobody.  Ids that are used twice are the user's own risk.
AnswerIsOwn ==
    \A r \in Requests :
        (req[r].answer \in {"ok", "no"} /\ times[req[r].id] = 1) => req[r].by = r

\* An entry is there for a request that will remove it, or was left by one that found
\* no system channel or whose future was dropped: a timeout, a refusal or a late answer
\* leaves none.
PendingOwned ==
    \A i \in Ids :
        pending[i] # Nobody =>
            \/ pending[i] \in stranded
            \/ /\ req[pending[i]].id = i
               /\ req[pending[i]].at \in {"send", "wait", "remove", "dropped"}

\* The manager has the channels that get_channels returned, is about to, or made before
\* its future was dropped: a request that returns an error, whichever, leaves none.
ChannelsAccounted ==
    /\ opened \subseteq channels
    /\ \A i \in channels \ opened : \E r \in Requests : req[r].local /\ req[r].id = i

\* A request waits for room in the system channel.
WaitsForRoom(r) == req[r].at = "send" /\ system["client"]

\* A request returns, answered or not, however its answer, its timeout and the other
\* requests overlap, unless it waits for room in the system channel; what the handler
\* does or leaves undone does not hold it up after that.
RequestReturns == []<>(\A r \in Requests : req[r].at \in Gone \/ WaitsForRoom(r))

-----------------------------------------------------------------------------
(***************************************************************************)
(* The inductive invariant                                                 *)
(***************************************************************************)
Ours(e) == NegotiateProtocols(caps[e], caps[Peer(e)])

\* What a side has negotiated comes from the capabilities of both, and from no others.
Own(k, e) ==
    /\ at[k][e] \in {"send_ack", "await_ack", "store"} => result[k][e] = Ours(e) /\ Ours(e) # {}
    /\ negotiated[e][k] \in {{}, Ours(e)}

NegotiationInv == \A k \in Conns : \A e \in Ends : Own(k, e)

\* The client has sent its acknowledgment, and has stored its result or will.
Acknowledged(k) == at[k]["client"] = "store" \/ negotiated["client"][k] # {}

\* A server that waits for an acknowledgment finds nothing else on the wire.
InOrder(k) ==
    /\ at[k]["client"] \notin {"begin", "await_ack", "kept"} /\ at[k]["server"] # "send_ack"
    /\ at[k]["client"] = "idle" <=> at[k]["server"] = "idle"
    /\ at[k]["server"] = "idle" => wire[k]["server"] = <<>>
    /\ at[k]["client"] \in {"idle", "hello", "send_ack"} => negotiated["client"][k] = {}
    /\ at[k]["server"] \in {"begin", "hello"} => Len(wire[k]["server"]) <= 1 \/ Acknowledged(k)
    /\ at[k]["server"] = "await_ack" => wire[k]["server"] = <<>> \/ Acknowledged(k)
    /\ at[k]["server"] \in {"store", "system", "up", "kept"} => Acknowledged(k)
    /\ negotiated["server"][k] # {} => Acknowledged(k)

OrderInv == \A k \in Conns : InOrder(k)

\* What a side is going to read is on its way, unless its sender is still to send it.
Forward(k) ==
    /\ at[k]["server"] \in {"idle", "begin"} => wire[k]["client"] = <<>>
    /\ at[k]["client"] = "hello" =>
          /\ at[k]["server"] \in {"begin", "hello"} => wire[k]["server"] # <<>>
          /\ at[k]["server"] \in {"hello", "await_ack"} => wire[k]["client"] # <<>>
    /\ at[k]["client"] \in {"send_ack", "store", "system"} => at[k]["server"] # "begin"
    /\ at[k]["client"] = "send_ack" /\ at[k]["server"] = "hello" => wire[k]["server"] # <<>>
    /\ at[k]["client"] \in {"store", "system"} =>
          /\ at[k]["server"] = "hello" => Len(wire[k]["server"]) >= 2
          /\ at[k]["server"] = "await_ack" => wire[k]["server"] # <<>>

ForwardInv == \A k \in Conns : Forward(k)

HandshakeInv == HandshakeType /\ NegotiationInv /\ OrderInv

\* get_channels gives every channel an id of its own.
LocalInv ==
    \A r \in Requests :
        req[r].local =>
            /\ req[r].id \in channels \ opened
            /\ \A q \in Requests : req[q].local /\ req[q].id = req[r].id => q = r

PendingInv ==
    \A i \in Ids :
        pending[i] # Nobody /\ req[pending[i]].at # "idle" => req[pending[i]].id = i

\* The requests that an id has had, as far as anything remembers them.
Sent(m, i, r) == m.id = i /\ m.no = r

User(i, r) ==
    \/ req[r].id = i
    \/ pending[i] = r
    \/ Sent(handler, i, r)
    \/ \E j \in DOMAIN queue : Sent(queue[j], i, r)
    \/ \E q \in Requests : req[q].id = i /\ req[q].by = r

UserInv ==
    \A i \in Ids :
        /\ times[i] = 0 => \A r \in Requests : ~User(i, r)
        /\ times[i] = 1 => \A r, q \in Requests : User(i, r) /\ User(i, q) => r = q

AnswerInv ==
    \A r \in Requests : req[r].answer \in {"ok", "no"} => req[r].id \in Ids /\ req[r].by # Nobody

RequestsInv ==
    /\ RequestsType /\ LocalInv /\ PendingInv /\ UserInv /\ AnswerInv
    /\ PendingOwned /\ ChannelsAccounted
=============================================================================
