---------------------------- MODULE EndpointProofs ----------------------------
(***************************************************************************)
(* Proofs about module Endpoint, for any capabilities, serializers and     *)
(* ways of a server, and any number of connections and requests.           *)
(***************************************************************************)
EXTENDS EndpointProperties, TLAPS

-----------------------------------------------------------------------------
(***************************************************************************)
(* Negotiation                                                             *)
(***************************************************************************)
LEMMA SameVersion ==
    ASSUME NEW our, NEW peer
    PROVE  /\ CommonVersions(our, peer) = CommonVersions(peer, our)
           /\ NegotiateVersion(our, peer) = NegotiateVersion(peer, our)
<1>1. CommonVersions(our, peer) = CommonVersions(peer, our)
  BY DEF CommonVersions
<1>. QED BY <1>1 DEF NegotiateVersion

LEMMA MirrorRecord ==
    ASSUME NEW p, NEW v, NEW f, NEW c, NEW r
    PROVE  Mirror([name |-> p, version |-> v, features |-> f, weCall |-> c, weRespond |-> r])
             = [name |-> p, version |-> v, features |-> f, weCall |-> r, weRespond |-> c]
BY DEF Mirror

LEMMA MirrorProtocol ==
    ASSUME NEW p, NEW our, NEW peer
    PROVE  NegotiatedProtocol(p, peer, our) = Mirror(NegotiatedProtocol(p, our, peer))
<1>. DEFINE calls == CanCall(our.direction) /\ CanRespond(peer.direction)
            responds == CanRespond(our.direction) /\ CanCall(peer.direction)
            version == NegotiateVersion(our, peer)
            features == our.features \cap peer.features
<1>1. (CanCall(peer.direction) /\ CanRespond(our.direction)) = responds
  OBVIOUS
<1>2. (CanRespond(peer.direction) /\ CanCall(our.direction)) = calls
  OBVIOUS
<1>3. peer.features \cap our.features = features
  OBVIOUS
<1>4. NegotiateVersion(peer, our) = version
  BY SameVersion
<1>5. NegotiatedProtocol(p, peer, our)
        = [name |-> p, version |-> version, features |-> features,
           weCall |-> responds, weRespond |-> calls]
  BY <1>1, <1>2, <1>3, <1>4, Zenon DEF NegotiatedProtocol
<1>6. NegotiatedProtocol(p, our, peer)
        = [name |-> p, version |-> version, features |-> features,
           weCall |-> calls, weRespond |-> responds]
  BY DEF NegotiatedProtocol
<1>. HIDE DEF calls, responds, version, features
<1>7. Mirror([name |-> p, version |-> version, features |-> features,
              weCall |-> calls, weRespond |-> responds])
        = [name |-> p, version |-> version, features |-> features,
           weCall |-> responds, weRespond |-> calls]
  BY MirrorRecord
<1>. QED BY <1>5, <1>6, <1>7, Zenon

\* Both sides compute the same: negotiate_protocols with its arguments exchanged has
\* the same protocols, versions and features, and call and respond exchanged.
THEOREM NegotiationMirrors ==
    ASSUME NEW our, NEW peer
    PROVE  NegotiateProtocols(peer, our) = {Mirror(n) : n \in NegotiateProtocols(our, peer)}
<1>. DEFINE Usable(x, y) ==
              {q \in DOMAIN x \cap DOMAIN y :
                  /\ IsCompatibleWith(x[q].direction, y[q].direction)
                  /\ CommonVersions(x[q], y[q]) # {}}
<1>1. Usable(our, peer) = Usable(peer, our)
  BY SameVersion DEF IsCompatibleWith
<1>2. NegotiateProtocols(our, peer)
        = {NegotiatedProtocol(p, our[p], peer[p]) : p \in Usable(our, peer)}
  BY DEF NegotiateProtocols
<1>3. NegotiateProtocols(peer, our)
        = {NegotiatedProtocol(p, peer[p], our[p]) : p \in Usable(peer, our)}
  BY DEF NegotiateProtocols
<1>. HIDE DEF Usable
<1>4. \A p : NegotiatedProtocol(p, peer[p], our[p])
               = Mirror(NegotiatedProtocol(p, our[p], peer[p]))
  BY MirrorProtocol
<1>. QED BY <1>1, <1>2, <1>3, <1>4

-----------------------------------------------------------------------------
(***************************************************************************)
(* Steps of the handshake                                                  *)
(***************************************************************************)
LEMMA Sides == \A e \in Ends : Peer(e) \in Ends /\ Peer(e) # e /\ Peer(Peer(e)) = e
BY DEF Ends, Peer

\* What happens to the stages when side e of connection k goes on.
LEMMA StepAt ==
    ASSUME HandshakeType, NEW k \in Conns, NEW e \in Ends, NEW stage \in Stages,
           Step(k, e, stage)
    PROVE  /\ at' \in [Conns -> [Ends -> Stages]]
           /\ at'[k][e] = stage /\ at'[k][Peer(e)] = at[k][Peer(e)]
           /\ \A j \in Conns : \A f \in Ends : <<j, f>> # <<k, e>> => at'[j][f] = at[j][f]
           /\ \A j \in Conns \ {k} : at'[j] = at[j]
BY Sides DEF Step, HandshakeType

LEMMA WireType ==
    ASSUME HandshakeType, NEW k \in Conns, NEW e \in Ends, NEW mine, NEW theirs,
           mine \in Seq(From(Peer(e))), theirs \in Seq(From(e)),
           wire' = [wire EXCEPT ![k][e] = mine, ![k][Peer(e)] = theirs]
    PROVE  /\ DOMAIN wire' = Conns /\ \A j \in Conns : DOMAIN wire'[j] = Ends
           /\ \A j \in Conns : \A f \in Ends : wire'[j][f] \in Seq(From(Peer(f)))
           /\ wire'[k][e] = mine /\ wire'[k][Peer(e)] = theirs
           /\ \A j \in Conns \ {k} : wire'[j] = wire[j]
<1>1. \A f \in Ends : f = e \/ f = Peer(e)
  BY DEF Ends, Peer
<1>2. /\ DOMAIN wire' = Conns
      /\ wire'[k] = [wire[k] EXCEPT ![e] = mine, ![Peer(e)] = theirs]
      /\ \A j \in Conns \ {k} : wire'[j] = wire[j]
  BY DEF HandshakeType
<1>3. DOMAIN wire'[k] = Ends /\ wire'[k][e] = mine /\ wire'[k][Peer(e)] = theirs
  BY <1>2, Sides DEF HandshakeType
<1>. QED BY <1>1, <1>2, <1>3, Sides DEF HandshakeType

LEMMA ConcatFrom ==
    ASSUME NEW S, NEW a \in Seq(S), NEW b \in Seq(S)
    PROVE  a \o b \in Seq(S) /\ Len(a \o b) = Len(a) + Len(b) /\ (b = <<>> => a \o b = a)
OBVIOUS

LEMMA TailFrom ==
    ASSUME NEW S, NEW a \in Seq(S), a # <<>>
    PROVE  Head(a) \in S /\ Tail(a) \in Seq(S) /\ Len(Tail(a)) = Len(a) - 1 /\ Len(a) \in Nat
OBVIOUS

LEMMA ExchangeWire ==
    ASSUME HandshakeType, NEW k \in Conns, NEW e \in Ends, NEW taken \in BOOLEAN,
           NEW sent \in Seq(From(e)), taken => wire[k][e] # <<>>, Exchange(k, e, taken, sent)
    PROVE  /\ DOMAIN wire' = Conns /\ \A j \in Conns : DOMAIN wire'[j] = Ends
           /\ \A j \in Conns : \A f \in Ends : wire'[j][f] \in Seq(From(Peer(f)))
           /\ wire'[k][e] = IF taken THEN Tail(wire[k][e]) ELSE wire[k][e]
           /\ wire'[k][Peer(e)] = IF Closed(k, Peer(e)) THEN wire[k][Peer(e)]
                                  ELSE wire[k][Peer(e)] \o sent
           /\ \A j \in Conns \ {k} : wire'[j] = wire[j]
<1>. DEFINE mine == IF taken THEN Tail(wire[k][e]) ELSE wire[k][e]
            theirs == IF Closed(k, Peer(e)) THEN wire[k][Peer(e)]
                      ELSE wire[k][Peer(e)] \o sent
<1>1. wire[k][e] \in Seq(From(Peer(e))) /\ wire[k][Peer(e)] \in Seq(From(e))
  BY Sides DEF HandshakeType
<1>2. mine \in Seq(From(Peer(e)))
  BY <1>1, TailFrom
<1>3. theirs \in Seq(From(e))
  BY <1>1, ConcatFrom
<1>4. wire' = [wire EXCEPT ![k][e] = mine, ![k][Peer(e)] = theirs]
  BY DEF Exchange
<1>. HIDE DEF mine, theirs
<1>5. /\ DOMAIN wire' = Conns /\ \A j \in Conns : DOMAIN wire'[j] = Ends
      /\ \A j \in Conns : \A f \in Ends : wire'[j][f] \in Seq(From(Peer(f)))
      /\ wire'[k][e] = mine /\ wire'[k][Peer(e)] = theirs
      /\ \A j \in Conns \ {k} : wire'[j] = wire[j]
  BY <1>2, <1>3, <1>4, WireType
<1>. QED BY <1>5 DEF mine, theirs

LEMMA UnreadWire ==
    ASSUME HandshakeType, NEW k \in Conns, NEW e \in Ends, Unread(k, e)
    PROVE  /\ DOMAIN wire' = Conns /\ \A j \in Conns : DOMAIN wire'[j] = Ends
           /\ \A j \in Conns : \A f \in Ends : wire'[j][f] \in Seq(From(Peer(f)))
           /\ wire'[k][e] = <<>> /\ wire'[k][Peer(e)] = wire[k][Peer(e)]
           /\ \A j \in Conns \ {k} : wire'[j] = wire[j]
<1>1. /\ DOMAIN wire' = Conns
      /\ wire'[k] = [wire[k] EXCEPT ![e] = <<>>]
      /\ \A j \in Conns \ {k} : wire'[j] = wire[j]
  BY DEF HandshakeType, Unread
<1>2. /\ DOMAIN wire'[k] = Ends
      /\ wire'[k][e] = <<>> /\ wire'[k][Peer(e)] = wire[k][Peer(e)]
  BY <1>1, Sides DEF HandshakeType
<1>3. \A f \in Ends : f = e \/ f = Peer(e)
  BY DEF Ends, Peer
<1>4. <<>> \in Seq(From(Peer(e)))
  OBVIOUS
<1>. QED BY <1>1, <1>2, <1>3, <1>4, Sides DEF HandshakeType

\* A connection that a step leaves alone keeps its invariant.
LEMMA OwnFrame ==
    ASSUME NEW j, NEW e, Own(j, e), caps' = caps, at'[j] = at[j], result'[j] = result[j],
           negotiated'[e][j] = negotiated[e][j]
    PROVE  Own(j, e)'
BY DEF Own, Ours

LEMMA OrderFrame ==
    ASSUME NEW j, InOrder(j), at'[j] = at[j], wire'[j] = wire[j],
           negotiated'["client"][j] = negotiated["client"][j],
           negotiated'["server"][j] = negotiated["server"][j]
    PROVE  InOrder(j)'
BY DEF InOrder, Acknowledged

\* What a step of one connection has to keep.
LEMMA Preserve ==
    ASSUME HandshakeInv, NEW k \in Conns, UNCHANGED fixedVars,
           at' \in [Conns -> [Ends -> Stages]],
           DOMAIN wire' = Conns, \A j \in Conns : DOMAIN wire'[j] = Ends,
           \A j \in Conns : \A f \in Ends : wire'[j][f] \in Seq(From(Peer(f))),
           DOMAIN result' = Conns, \A j \in Conns : DOMAIN result'[j] = Ends,
           \A j \in Conns \ {k} : at'[j] = at[j] /\ wire'[j] = wire[j] /\ result'[j] = result[j],
           DOMAIN negotiated' = Ends, \A e \in Ends : DOMAIN negotiated'[e] = Conns,
           \A e \in Ends : \A j \in Conns \ {k} : negotiated'[e][j] = negotiated[e][j],
           system' \in [Ends -> BOOLEAN], \A e \in Ends : Own(k, e)', InOrder(k)'
    PROVE  HandshakeInv'
<1>. USE DEF HandshakeInv, fixedVars
<1>1. HandshakeType'
  <2>1. From(Peer("client"))' = From(Peer("client")) /\ From(Peer("server"))' = From(Peer("server"))
    BY DEF From, Messages
  <2>. QED BY <2>1 DEF HandshakeType, Ends
<1>2. NegotiationInv'
  <2>1. ASSUME NEW j \in Conns \ {k}, NEW e \in Ends PROVE Own(j, e)'
    <3>1. Own(j, e) /\ caps' = caps
      BY DEF NegotiationInv
    <3>2. at'[j] = at[j] /\ result'[j] = result[j] /\ negotiated'[e][j] = negotiated[e][j]
      OBVIOUS
    <3>. QED BY <3>1, <3>2, OwnFrame
  <2>2. \A j \in Conns : j = k \/ j \in Conns \ {k}
    OBVIOUS
  <2>3. \A j \in Conns : \A e \in Ends : Own(j, e)'
    BY <2>1, <2>2, Zenon
  <2>. QED BY <2>3, Zenon DEF NegotiationInv
<1>3. OrderInv'
  <2>1. ASSUME NEW j \in Conns \ {k} PROVE InOrder(j)'
    <3>1. InOrder(j)
      BY DEF OrderInv
    <3>2. at'[j] = at[j] /\ wire'[j] = wire[j]
      OBVIOUS
    <3>3. "client" \in Ends /\ "server" \in Ends
      BY DEF Ends
    <3>4. /\ negotiated'["client"][j] = negotiated["client"][j]
          /\ negotiated'["server"][j] = negotiated["server"][j]
      BY <3>3
    <3>. QED BY <3>1, <3>2, <3>4, OrderFrame
  <2>. QED BY <2>1 DEF OrderInv
<1>. QED BY <1>1, <1>2, <1>3

\* A side that fails leaves what it has stored, and its result is gone.
LEMMA FailKeeps ==
    ASSUME HandshakeInv, NEW k \in Conns, NEW e \in Ends, Fail(k, e),
           UNCHANGED <<fixedVars, negotiated>>,
           at[k][e] # "idle", e = "client" => at[k][e] # "store",
           DOMAIN wire' = Conns, \A j \in Conns : DOMAIN wire'[j] = Ends,
           \A j \in Conns : \A f \in Ends : wire'[j][f] \in Seq(From(Peer(f))),
           \A j \in Conns \ {k} : wire'[j] = wire[j],
           e = "client" => wire'[k]["server"] = wire[k]["server"],
           system' \in [Ends -> BOOLEAN]
    PROVE  HandshakeInv'
<1>. USE DEF HandshakeInv
<1>1. /\ at' \in [Conns -> [Ends -> Stages]]
      /\ at'[k][e] = "failed" /\ at'[k][Peer(e)] = at[k][Peer(e)]
      /\ \A j \in Conns \ {k} : at'[j] = at[j]
  <2>1. "failed" \in Stages /\ Step(k, e, "failed")
    BY DEF Fail, Stages
  <2>. QED BY <2>1, StepAt
<1>2. /\ DOMAIN result' = Conns /\ \A j \in Conns : DOMAIN result'[j] = Ends
      /\ \A j \in Conns \ {k} : result'[j] = result[j]
      /\ result'[k][Peer(e)] = result[k][Peer(e)]
  BY Sides DEF Fail, HandshakeType
<1>3. \A f \in Ends : f = e \/ f = Peer(e)
  BY DEF Ends, Peer
<1>4. \A f \in Ends : Own(k, f)'
  <2>1. Own(k, e) /\ Own(k, Peer(e)) /\ caps' = caps
    BY Sides DEF NegotiationInv, fixedVars
  <2>2. Own(k, e)'
    BY <1>1, <2>1 DEF Own, Ours
  <2>3. Own(k, Peer(e))'
    BY <1>1, <1>2, <2>1 DEF Own, Ours
  <2>. QED BY <1>3, <2>2, <2>3
<1>5. InOrder(k)'
  BY <1>1, <1>3, Sides DEF OrderInv, InOrder, Acknowledged, Ends, Peer
<1>7. DOMAIN negotiated' = Ends /\ \A f \in Ends : DOMAIN negotiated'[f] = Conns
  BY DEF HandshakeType
<1>. QED BY <1>1, <1>2, <1>4, <1>5, <1>7, Preserve

-----------------------------------------------------------------------------
(***************************************************************************)
(* Each step of the handshake                                              *)
(***************************************************************************)
LEMMA MessageFrom ==
    ASSUME HandshakeType, NEW e \in Ends, NEW kind \in {"hello", "ack", "error"},
           NEW name \in Serializers \cup {"none"}
    PROVE  Message(e, kind, name) \in From(e)
<1>1. Coding(e) \in Serializers \cup {"json"}
  BY DEF Coding, HandshakeType, Ends
<1>. QED BY <1>1 DEF Message, From, Messages

LEMMA Singles ==
    ASSUME NEW S, NEW x \in S
    PROVE  <<x>> \in Seq(S) /\ Len(<<x>>) = 1 /\ <<>> \in Seq(S)
OBVIOUS

LEMMA ConnectKeeps ==
    ASSUME HandshakeInv, NEW k \in Conns, Connect(k)
    PROVE  HandshakeInv'
<1>. USE DEF HandshakeInv
<1>. DEFINE hello == Hello("client", serializer["client"])
<1>0. "client" \in Ends /\ "server" \in Ends /\ Peer("client") = "server"
  BY DEF Ends, Peer
<1>1. at[k]["client"] = "idle" /\ at[k]["server"] = "idle" /\ InOrder(k)
  BY DEF Connect, OrderInv, InOrder
<1>2. /\ at' \in [Conns -> [Ends -> Stages]]
      /\ at'[k]["client"] = "hello" /\ at'[k]["server"] = "begin"
      /\ \A j \in Conns \ {k} : at'[j] = at[j]
  BY <1>0 DEF Connect, HandshakeType, Stages, Ends
<1>3. hello \in From("client")
  BY <1>0, MessageFrom DEF Hello, HandshakeType
<1>. HIDE DEF hello
<1>4. <<hello>> \in Seq(From("client")) /\ Len(<<hello>>) = 1
  BY <1>3, Singles
<1>5. Exchange(k, "client", FALSE, <<hello>>)
  BY DEF Connect, hello
<1>6. ~Closed(k, "server") /\ wire[k]["server"] = <<>>
  BY <1>1 DEF Closed, InOrder
<1>7. /\ DOMAIN wire' = Conns /\ \A j \in Conns : DOMAIN wire'[j] = Ends
      /\ \A j \in Conns : \A f \in Ends : wire'[j][f] \in Seq(From(Peer(f)))
      /\ wire'[k]["server"] = wire[k]["server"] \o <<hello>>
      /\ \A j \in Conns \ {k} : wire'[j] = wire[j]
  BY <1>0, <1>4, <1>5, <1>6, ExchangeWire
<1>8. Len(wire'[k]["server"]) = 1
  BY <1>0, <1>4, <1>6, <1>7, ConcatFrom, Singles
<1>9. \A e \in Ends : Own(k, e)'
  <2>1. \A e \in Ends : Own(k, e) /\ at'[k][e] \in {"hello", "begin"}
    BY <1>2 DEF NegotiationInv, Ends
  <2>. QED BY <2>1 DEF Own, Ours, Connect, fixedVars
<1>10. InOrder(k)'
  <2>1. negotiated' = negotiated
    BY DEF Connect
  <2>. QED BY <1>1, <1>2, <1>8, <2>1 DEF InOrder, Acknowledged
<1>11. UNCHANGED <<caps, serializer, mode, result, negotiated, system>>
  BY DEF Connect, fixedVars
<1>. QED BY <1>2, <1>7, <1>9, <1>10, <1>11, Preserve DEF HandshakeType, fixedVars

LEMMA NegotiateOurs ==
    ASSUME HandshakeType, NEW k \in Conns, NEW e \in Ends, Readable(k, e)
    PROVE  Negotiate(k, e) = Ours(e)
<1>1. wire[k][e] \in Seq(From(Peer(e))) /\ wire[k][e] # <<>>
  BY DEF HandshakeType, Readable
<1>2. First(k, e) \in From(Peer(e))
  BY <1>1, TailFrom DEF First
<1>. QED BY <1>2 DEF Negotiate, Ours, From

\* A side that goes on, but not to the end: what it keeps, given what is on the wire.
LEMMA Advance ==
    ASSUME HandshakeInv, NEW k \in Conns, NEW e \in Ends, NEW stage \in Stages \ {"up", "idle"},
           Step(k, e, stage), at[k][e] # "idle",
           UNCHANGED <<fixedVars, negotiated, system>>,
           NEW taken \in BOOLEAN, NEW sent \in Seq(From(e)),
           taken => wire[k][e] # <<>>, Exchange(k, e, taken, sent),
           stage \in {"send_ack", "await_ack", "store"} => Ours(e) # {},
           result' = result \/ result' = [result EXCEPT ![k][e] = Ours(e)],
           stage \in {"send_ack", "await_ack", "store"} => result'[k][e] = Ours(e),
           InOrder(k)'
    PROVE  HandshakeInv'
<1>. USE DEF HandshakeInv
<1>1. /\ at' \in [Conns -> [Ends -> Stages]]
      /\ at'[k][e] = stage /\ at'[k][Peer(e)] = at[k][Peer(e)]
      /\ \A j \in Conns \ {k} : at'[j] = at[j]
  BY StepAt
<1>2. /\ DOMAIN wire' = Conns /\ \A j \in Conns : DOMAIN wire'[j] = Ends
      /\ \A j \in Conns : \A f \in Ends : wire'[j][f] \in Seq(From(Peer(f)))
      /\ \A j \in Conns \ {k} : wire'[j] = wire[j]
  BY ExchangeWire
<1>3. /\ DOMAIN result' = Conns /\ \A j \in Conns : DOMAIN result'[j] = Ends
      /\ \A j \in Conns \ {k} : result'[j] = result[j]
      /\ result'[k][Peer(e)] = result[k][Peer(e)]
  <2>1. DOMAIN result = Conns /\ \A j \in Conns : DOMAIN result[j] = Ends
    BY DEF HandshakeType
  <2>2. CASE result' = result
    BY <2>1, <2>2
  <2>3. CASE result' = [result EXCEPT ![k][e] = Ours(e)]
    <3>1. DOMAIN result' = Conns /\ \A j \in Conns \ {k} : result'[j] = result[j]
      BY <2>1, <2>3
    <3>2. result'[k] = [result[k] EXCEPT ![e] = Ours(e)]
      BY <2>1, <2>3
    <3>3. DOMAIN result'[k] = Ends /\ result'[k][Peer(e)] = result[k][Peer(e)]
      BY <2>1, <3>2, Sides
    <3>. QED BY <2>1, <3>1, <3>3
  <2>. QED BY <2>2, <2>3
<1>4. \A f \in Ends : f = e \/ f = Peer(e)
  BY DEF Ends, Peer
<1>5. \A f \in Ends : Own(k, f)'
  <2>1. Own(k, e) /\ Own(k, Peer(e)) /\ caps' = caps /\ negotiated' = negotiated
    BY Sides DEF NegotiationInv, fixedVars
  <2>2. Own(k, e)'
    BY <1>1, <2>1 DEF Own, Ours
  <2>3. Own(k, Peer(e))'
    BY <1>1, <1>3, <2>1 DEF Own, Ours
  <2>. QED BY <1>4, <2>2, <2>3
<1>7. /\ DOMAIN negotiated' = Ends /\ \A f \in Ends : DOMAIN negotiated'[f] = Conns
      /\ system' = system /\ system \in [Ends -> BOOLEAN]
  BY DEF HandshakeType
<1>. QED BY <1>1, <1>2, <1>3, <1>5, <1>7, Preserve

LEMMA ClientReadsHelloKeeps ==
    ASSUME HandshakeInv, NEW k \in Conns, ClientReadsHello(k)
    PROVE  HandshakeInv'
<1>. USE DEF HandshakeInv
<1>0. "client" \in Ends /\ "server" \in Ends /\ Peer("client") = "server"
  BY DEF Ends, Peer
<1>1. at[k]["client"] = "hello" /\ InOrder(k)
  BY DEF ClientReadsHello, OrderInv
<1>2. CASE Unread(k, "client") /\ Fail(k, "client")
  <2>1. wire'[k]["server"] = wire[k]["server"]
    BY <1>0, <1>2, UnreadWire
  <2>2. UNCHANGED <<fixedVars, negotiated>> /\ system' = system
    BY DEF ClientReadsHello
  <2>. QED BY <1>0, <1>1, <1>2, <2>1, <2>2, UnreadWire, FailKeeps DEF HandshakeType
<1>3. CASE /\ Exchange(k, "client", TRUE, <<>>)
           /\ Step(k, "client", "send_ack")
           /\ result' = [result EXCEPT ![k]["client"] = Negotiate(k, "client")]
           /\ Negotiate(k, "client") # {}
  <2>1. Readable(k, "client") /\ UNCHANGED <<fixedVars, negotiated, system>>
    BY DEF ClientReadsHello
  <2>2. Negotiate(k, "client") = Ours("client")
    BY <1>0, <2>1, NegotiateOurs
  <2>3. wire[k]["client"] # <<>> /\ <<>> \in Seq(From("client"))
    BY <2>1 DEF Readable
  <2>4. wire'[k]["server"] = wire[k]["server"]
    <3>1. wire[k]["server"] \in Seq(From("client"))
      BY <1>0 DEF HandshakeType, Peer
    <3>2. wire[k]["server"] \o <<>> = wire[k]["server"]
      BY <2>3, <3>1, ConcatFrom
    <3>3. wire'[k][Peer("client")] = IF Closed(k, Peer("client")) THEN wire[k][Peer("client")]
                                    ELSE wire[k][Peer("client")] \o <<>>
      <4>1. HandshakeType
        OBVIOUS
      <4>. HIDE DEF HandshakeInv
      <4>. QED BY <1>0, <1>3, <2>3, <4>1, ExchangeWire
    <3>. QED BY <1>0, <3>2, <3>3
  <2>5. at'[k]["client"] = "send_ack" /\ at'[k]["server"] = at[k]["server"]
    BY <1>0, <1>3, StepAt DEF Stages
  <2>6. InOrder(k)'
    BY <1>1, <2>1, <2>4, <2>5 DEF InOrder, Acknowledged
  <2>7. result'[k]["client"] = Ours("client")
    BY <1>0, <1>3, <2>2 DEF HandshakeType
  <2>8. "send_ack" \in Stages \ {"up", "idle"}
    BY DEF Stages
  <2>. QED BY <1>0, <1>1, <1>3, <2>1, <2>2, <2>3, <2>6, <2>7, <2>8, Advance
<1>. QED BY <1>2, <1>3 DEF ClientReadsHello

LEMMA ClientSendsAckKeeps ==
    ASSUME HandshakeInv, NEW k \in Conns, ClientSendsAck(k)
    PROVE  HandshakeInv'
<1>. USE DEF HandshakeInv
<1>0. "client" \in Ends /\ "server" \in Ends /\ Peer("client") = "server"
  BY DEF Ends, Peer
<1>1. at[k]["client"] = "send_ack" /\ InOrder(k) /\ Own(k, "client")
  BY <1>0 DEF ClientSendsAck, OrderInv, NegotiationInv
<1>2. Ack("client") \in From("client")
  BY <1>0, MessageFrom DEF Ack
<1>3. <<Ack("client")>> \in Seq(From("client"))
  BY <1>2, Singles
<1>4. at'[k]["client"] = "store" /\ at'[k]["server"] = at[k]["server"]
  BY <1>0, StepAt DEF Stages, ClientSendsAck
<1>5. InOrder(k)'
  <2>1. negotiated' = negotiated
    BY DEF ClientSendsAck
  <2>. QED BY <1>1, <1>4, <2>1 DEF InOrder, Acknowledged
<1>6. result' = result /\ result[k]["client"] = Ours("client") /\ Ours("client") # {}
  BY <1>1 DEF ClientSendsAck, Own
<1>7. "store" \in Stages \ {"up", "idle"}
  BY DEF Stages
<1>8. /\ Step(k, "client", "store") /\ Exchange(k, "client", FALSE, <<Ack("client")>>)
      /\ UNCHANGED <<fixedVars, negotiated, system>>
  BY DEF ClientSendsAck
<1>. QED BY <1>0, <1>1, <1>3, <1>5, <1>6, <1>7, <1>8, Advance

LEMMA AcceptBeginsKeeps ==
    ASSUME HandshakeInv, NEW k \in Conns, AcceptBegins(k)
    PROVE  HandshakeInv'
<1>. USE DEF HandshakeInv
<1>0. "client" \in Ends /\ "server" \in Ends /\ Peer("server") = "client" /\ Peer("client") = "server"
  BY DEF Ends, Peer
<1>. DEFINE hello == Hello("server", serializer["server"])
<1>1. at[k]["server"] = "begin" /\ InOrder(k)
  BY DEF AcceptBegins, OrderInv
<1>2. hello \in From("server")
  BY <1>0, MessageFrom DEF Hello, HandshakeType
<1>3. /\ Step(k, "server", "hello") /\ Exchange(k, "server", FALSE, <<hello>>)
      /\ UNCHANGED <<fixedVars, negotiated, system>> /\ result' = result
  BY DEF AcceptBegins
<1>. HIDE DEF hello
<1>4. <<hello>> \in Seq(From("server"))
  BY <1>2, Singles
<1>5. at'[k]["server"] = "hello" /\ at'[k]["client"] = at[k]["client"]
  BY <1>0, <1>3, StepAt DEF Stages
<1>6. wire'[k]["server"] = wire[k]["server"]
  BY <1>0, <1>3, <1>4, ExchangeWire
<1>7. InOrder(k)'
  BY <1>1, <1>3, <1>5, <1>6 DEF InOrder, Acknowledged
<1>8. "hello" \in Stages \ {"up", "idle"}
  BY DEF Stages
<1>. QED BY <1>0, <1>1, <1>3, <1>4, <1>7, <1>8, Advance

\* What a server sends when it goes on, or before it fails.
LEMMA ServerGoesOnKeeps ==
    ASSUME HandshakeInv, NEW k \in Conns, NEW sent \in Seq(From("server")),
           at[k]["server"] \in {"begin", "hello"}, Readable(k, "server"),
           Ours("server") # {}, ServerGoesOn(k, sent)
    PROVE  HandshakeInv'
<1>. USE DEF HandshakeInv
<1>0. /\ "client" \in Ends /\ "server" \in Ends
      /\ Peer("server") = "client" /\ Peer("client") = "server"
  BY DEF Ends, Peer
<1>1. InOrder(k)
  BY DEF OrderInv
<1>2. /\ Step(k, "server", "await_ack") /\ Exchange(k, "server", TRUE, sent)
      /\ UNCHANGED <<fixedVars, negotiated, system>>
      /\ result' = [result EXCEPT ![k]["server"] = Ours("server")]
  BY <1>0, NegotiateOurs DEF ServerGoesOn
<1>3. wire[k]["server"] # <<>> /\ wire[k]["server"] \in Seq(From("client"))
  BY <1>0 DEF Readable, HandshakeType
<1>4. at'[k]["server"] = "await_ack" /\ at'[k]["client"] = at[k]["client"]
  BY <1>0, <1>2, StepAt DEF Stages
<1>5. wire'[k]["server"] = Tail(wire[k]["server"])
  BY <1>0, <1>2, <1>3, ExchangeWire
<1>6. wire'[k]["server"] # <<>> => Len(wire[k]["server"]) > 1
  BY <1>3, <1>5
<1>7. InOrder(k)'
  <2>1. wire'[k]["server"] = <<>> \/ Acknowledged(k)
    BY <1>1, <1>3, <1>6 DEF InOrder
  <2>. QED BY <1>1, <1>2, <1>4, <2>1 DEF InOrder, Acknowledged
<1>8. result'[k]["server"] = Ours("server")
  BY <1>0, <1>2 DEF HandshakeType
<1>9. "await_ack" \in Stages \ {"up", "idle"}
  BY DEF Stages
<1>. QED BY <1>0, <1>2, <1>3, <1>7, <1>8, <1>9, Advance

LEMMA ServerRefusesKeeps ==
    ASSUME HandshakeInv, NEW k \in Conns, NEW sent \in Seq(From("server")),
           at[k]["server"] \in {"begin", "hello"}, ServerRefuses(k, sent)
    PROVE  HandshakeInv'
<1>. USE DEF HandshakeInv
<1>. DEFINE theirs == IF Closed(k, "client") THEN wire[k]["client"]
                      ELSE wire[k]["client"] \o sent
<1>0. /\ "client" \in Ends /\ "server" \in Ends
      /\ Peer("server") = "client" /\ Peer("client") = "server"
  BY DEF Ends, Peer
<1>1. wire[k]["client"] \in Seq(From("server"))
  BY <1>0 DEF HandshakeType
<1>2. theirs \in Seq(From("server"))
  BY <1>1, ConcatFrom
<1>3. wire' = [wire EXCEPT ![k]["server"] = <<>>, ![k]["client"] = theirs]
  BY <1>0 DEF ServerRefuses, HandshakeType
<1>. HIDE DEF theirs
<1>4. <<>> \in Seq(From("client"))
  OBVIOUS
<1>5. /\ DOMAIN wire' = Conns /\ \A j \in Conns : DOMAIN wire'[j] = Ends
      /\ \A j \in Conns : \A f \in Ends : wire'[j][f] \in Seq(From(Peer(f)))
      /\ \A j \in Conns \ {k} : wire'[j] = wire[j]
  BY <1>0, <1>2, <1>3, <1>4, WireType
<1>6. UNCHANGED <<fixedVars, negotiated>> /\ system' = system /\ Fail(k, "server")
  BY DEF ServerRefuses
<1>. QED BY <1>0, <1>5, <1>6, FailKeeps DEF HandshakeType

LEMMA ListenerReadsHelloKeeps ==
    ASSUME HandshakeInv, NEW k \in Conns, ListenerReadsHello(k)
    PROVE  HandshakeInv'
<1>. USE DEF HandshakeInv
<1>0. "server" \in Ends /\ Peer("server") = "client"
  BY DEF Ends, Peer
<1>. DEFINE theirs == First(k, "server").serializer
            name == IF mode = "manual" THEN theirs ELSE serializer["server"]
            hello == Hello("server", name)
<1>1. at[k]["server"] = "begin" /\ Readable(k, "server")
  BY DEF ListenerReadsHello
<1>2. First(k, "server") \in Messages
  <2>1. wire[k]["server"] \in Seq(From("client")) /\ wire[k]["server"] # <<>>
    BY <1>0, <1>1 DEF Readable, HandshakeType
  <2>2. First(k, "server") \in From("client")
    BY <2>1, TailFrom DEF First
  <2>. QED BY <2>2 DEF From
<1>3. name \in Serializers \cup {"none"}
  BY <1>0, <1>2 DEF Messages, HandshakeType
<1>4. hello \in From("server") /\ Error("server") \in From("server")
  BY <1>0, <1>3, MessageFrom DEF Hello, Error
<1>5. Negotiate(k, "server") = Ours("server")
  BY <1>0, <1>1, NegotiateOurs
<1>6. \/ ServerRefuses(k, <<Error("server")>>)
      \/ ServerRefuses(k, <<hello, Error("server")>>)
      \/ Ours("server") # {} /\ ServerGoesOn(k, <<hello>>)
  BY <1>5 DEF ListenerReadsHello
<1>. HIDE DEF hello
<1>7. /\ <<hello>> \in Seq(From("server")) /\ <<Error("server")>> \in Seq(From("server"))
      /\ <<hello, Error("server")>> \in Seq(From("server"))
  BY <1>4
<1>. QED BY <1>1, <1>6, <1>7, ServerRefusesKeeps, ServerGoesOnKeeps

LEMMA AcceptReadsHelloKeeps ==
    ASSUME HandshakeInv, NEW k \in Conns, AcceptReadsHello(k)
    PROVE  HandshakeInv'
<1>. USE DEF HandshakeInv
<1>0. "server" \in Ends
  BY DEF Ends
<1>1. at[k]["server"] = "hello" /\ Readable(k, "server")
  BY DEF AcceptReadsHello
<1>2. Ack("server") \in From("server") /\ Error("server") \in From("server")
  BY <1>0, MessageFrom DEF Ack, Error
<1>3. /\ <<Ack("server")>> \in Seq(From("server")) /\ <<>> \in Seq(From("server"))
      /\ <<Error("server")>> \in Seq(From("server"))
  BY <1>2, Singles
<1>4. Negotiate(k, "server") = Ours("server")
  BY <1>0, <1>1, NegotiateOurs
<1>5. \/ ServerRefuses(k, <<>>)
      \/ ServerRefuses(k, <<Error("server")>>)
      \/ Ours("server") # {} /\ ServerGoesOn(k, <<Ack("server")>>)
  BY <1>4 DEF AcceptReadsHello
<1>. QED BY <1>1, <1>3, <1>5, ServerRefusesKeeps, ServerGoesOnKeeps

LEMMA ServerReadsAckKeeps ==
    ASSUME HandshakeInv, NEW k \in Conns, ServerReadsAck(k)
    PROVE  HandshakeInv'
<1>. USE DEF HandshakeInv
<1>0. /\ "client" \in Ends /\ "server" \in Ends
      /\ Peer("server") = "client" /\ Peer("client") = "server"
  BY DEF Ends, Peer
<1>1. at[k]["server"] = "await_ack" /\ InOrder(k) /\ Own(k, "server")
  BY <1>0 DEF ServerReadsAck, OrderInv, NegotiationInv
<1>2. wire[k]["server"] # <<>> /\ <<>> \in Seq(From("server"))
  BY DEF ServerReadsAck, Readable
<1>3. Acknowledged(k)
  BY <1>1, <1>2 DEF InOrder
<1>4. /\ Step(k, "server", "store") /\ Exchange(k, "server", TRUE, <<>>)
      /\ UNCHANGED <<fixedVars, negotiated, system>> /\ result' = result
  BY DEF ServerReadsAck
<1>5. at'[k]["server"] = "store" /\ at'[k]["client"] = at[k]["client"]
  BY <1>0, <1>4, StepAt DEF Stages
<1>6. InOrder(k)'
  BY <1>1, <1>3, <1>4, <1>5 DEF InOrder, Acknowledged
<1>7. result[k]["server"] = Ours("server") /\ Ours("server") # {}
  BY <1>1 DEF Own
<1>8. "store" \in Stages \ {"up", "idle"}
  BY DEF Stages
<1>. QED BY <1>0, <1>1, <1>2, <1>4, <1>6, <1>7, <1>8, Advance

LEMMA StoreNegotiatedKeeps ==
    ASSUME HandshakeInv, NEW k \in Conns, NEW e \in Ends, StoreNegotiated(k, e)
    PROVE  HandshakeInv'
<1>. USE DEF HandshakeInv
<1>1. /\ at' \in [Conns -> [Ends -> Stages]]
      /\ at'[k][e] = "system" /\ at'[k][Peer(e)] = at[k][Peer(e)]
      /\ \A j \in Conns \ {k} : at'[j] = at[j]
  BY StepAt DEF StoreNegotiated, Stages
<1>2. at[k][e] = "store" /\ InOrder(k) /\ Own(k, e) /\ Own(k, Peer(e))
  BY Sides DEF StoreNegotiated, OrderInv, NegotiationInv
<1>3. /\ DOMAIN result' = Conns /\ \A j \in Conns : DOMAIN result'[j] = Ends
      /\ \A j \in Conns \ {k} : result'[j] = result[j]
      /\ result'[k][Peer(e)] = result[k][Peer(e)]
  BY Sides DEF HandshakeType, StoreNegotiated
<1>4. result[k][e] = Ours(e) /\ Ours(e) # {}
  BY <1>2 DEF Own
<1>5. /\ DOMAIN negotiated' = Ends /\ \A f \in Ends : DOMAIN negotiated'[f] = Conns
      /\ \A f \in Ends : \A j \in Conns \ {k} : negotiated'[f][j] = negotiated[f][j]
      /\ negotiated'[e][k] = Ours(e) /\ negotiated'[Peer(e)][k] = negotiated[Peer(e)][k]
  BY <1>4, Sides DEF HandshakeType, StoreNegotiated
<1>6. UNCHANGED fixedVars /\ wire' = wire /\ system' = system /\ caps' = caps
  BY DEF StoreNegotiated, fixedVars
<1>7. \A f \in Ends : f = e \/ f = Peer(e)
  BY DEF Ends, Peer
<1>8. \A f \in Ends : Own(k, f)'
  <2>1. Own(k, e)'
    BY <1>1, <1>5, <1>6 DEF Own, Ours
  <2>2. Own(k, Peer(e))'
    BY <1>1, <1>2, <1>3, <1>5, <1>6 DEF Own, Ours
  <2>. QED BY <1>7, <2>1, <2>2
<1>9. InOrder(k)'
  <2>1. CASE e = "client"
    BY <1>1, <1>2, <1>4, <1>5, <1>6, <2>1 DEF InOrder, Acknowledged, Peer
  <2>2. CASE e = "server"
    BY <1>1, <1>2, <1>5, <1>6, <2>2 DEF InOrder, Acknowledged, Peer
  <2>. QED BY <2>1, <2>2 DEF Ends
<1>. QED
  BY <1>1, <1>3, <1>5, <1>6, <1>8, <1>9, Preserve DEF HandshakeType

LEMMA CreateSystemKeeps ==
    ASSUME HandshakeInv, NEW k \in Conns, NEW e \in Ends, CreateSystem(k, e)
    PROVE  HandshakeInv'
<1>. USE DEF HandshakeInv
<1>1. at[k][e] = "system" /\ InOrder(k) /\ Own(k, e) /\ Own(k, Peer(e))
  BY Sides DEF CreateSystem, OrderInv, NegotiationInv
<1>2. /\ UNCHANGED <<fixedVars, negotiated>> /\ caps' = caps /\ negotiated' = negotiated
      /\ system' \in [Ends -> BOOLEAN]
  BY DEF CreateSystem, fixedVars, HandshakeType
<1>3. CASE Unread(k, e) /\ Fail(k, e)
  <2>1. /\ DOMAIN wire' = Conns /\ \A j \in Conns : DOMAIN wire'[j] = Ends
        /\ \A j \in Conns : \A f \in Ends : wire'[j][f] \in Seq(From(Peer(f)))
        /\ \A j \in Conns \ {k} : wire'[j] = wire[j]
        /\ e = "client" => wire'[k]["server"] = wire[k]["server"]
    BY <1>3, UnreadWire DEF Peer
  <2>. QED BY <1>1, <1>2, <1>3, <2>1, FailKeeps
<1>4. ASSUME NEW stage \in {"up", "kept"}, Step(k, e, stage), result' = result,
             stage = "kept" => e = "server",
             wire' = wire \/ (e = "client" /\ Unread(k, e))
      PROVE  HandshakeInv'
  <2>1. /\ at' \in [Conns -> [Ends -> Stages]]
        /\ at'[k][e] = stage /\ at'[k][Peer(e)] = at[k][Peer(e)]
        /\ \A j \in Conns \ {k} : at'[j] = at[j]
    BY <1>4, StepAt DEF Stages
  <2>2. /\ DOMAIN wire' = Conns /\ \A j \in Conns : DOMAIN wire'[j] = Ends
        /\ \A j \in Conns : \A f \in Ends : wire'[j][f] \in Seq(From(Peer(f)))
        /\ \A j \in Conns \ {k} : wire'[j] = wire[j]
        /\ wire'[k]["server"] = wire[k]["server"]
    <3>1. CASE e = "client" /\ Unread(k, e)
      BY <3>1, UnreadWire DEF Peer
    <3>2. CASE wire' = wire
      BY <3>2 DEF HandshakeType
    <3>. QED BY <1>4, <3>1, <3>2
  <2>4. \A f \in Ends : f = e \/ f = Peer(e)
    BY DEF Ends, Peer
  <2>5. \A f \in Ends : Own(k, f)'
    <3>1. Own(k, e)'
      BY <1>1, <1>2, <1>4, <2>1 DEF Own, Ours
    <3>2. Own(k, Peer(e))'
      BY <1>1, <1>2, <1>4, <2>1 DEF Own, Ours
    <3>. QED BY <2>4, <3>1, <3>2
  <2>6. InOrder(k)'
    <3>1. CASE e = "client"
      BY <1>1, <1>2, <1>4, <2>1, <2>2, <3>1 DEF InOrder, Acknowledged, Peer
    <3>2. CASE e = "server"
      BY <1>1, <1>2, <1>4, <2>1, <2>2, <3>2 DEF InOrder, Acknowledged, Peer
    <3>. QED BY <3>1, <3>2 DEF Ends
  <2>8. /\ DOMAIN result' = Conns /\ \A j \in Conns : DOMAIN result'[j] = Ends
        /\ DOMAIN negotiated' = Ends /\ \A f \in Ends : DOMAIN negotiated'[f] = Conns
    BY <1>2, <1>4 DEF HandshakeType
  <2>. QED BY <1>2, <1>4, <2>1, <2>2, <2>5, <2>6, <2>8, Preserve
<1>5. CASE Succeed(k, e)
  BY <1>4, <1>5 DEF Succeed, Ends
<1>6. CASE e = "server" /\ Keep(k)
  BY <1>4, <1>6 DEF Keep
<1>. QED BY <1>3, <1>5, <1>6 DEF CreateSystem

LEMMA IoFailsKeeps ==
    ASSUME HandshakeInv, NEW k \in Conns, NEW e \in Ends, IoFails(k, e)
    PROVE  HandshakeInv'
<1>. USE DEF HandshakeInv
<1>1. /\ DOMAIN wire' = Conns /\ \A j \in Conns : DOMAIN wire'[j] = Ends
      /\ \A j \in Conns : \A f \in Ends : wire'[j][f] \in Seq(From(Peer(f)))
      /\ \A j \in Conns \ {k} : wire'[j] = wire[j]
      /\ e = "client" => wire'[k]["server"] = wire[k]["server"]
  BY UnreadWire DEF IoFails, Peer
<1>2. UNCHANGED <<fixedVars, negotiated>> /\ system' = system
  BY DEF IoFails
<1>. QED BY <1>1, <1>2, FailKeeps DEF IoFails, HandshakeType

LEMMA HandshakeUnchanged ==
    ASSUME HandshakeInv, UNCHANGED handshakeVars
    PROVE  HandshakeInv'
<1>. USE DEF handshakeVars
<1>1. HandshakeType'
  BY DEF HandshakeInv, HandshakeType, From, Messages
<1>2. ASSUME NEW k \in Conns PROVE InOrder(k)' /\ \A e \in Ends : Own(k, e)'
  <2>1. InOrder(k) /\ \A e \in Ends : Own(k, e)
    BY DEF HandshakeInv, OrderInv, NegotiationInv
  <2>. QED BY <2>1, OwnFrame, OrderFrame
<1>. QED BY <1>1, <1>2 DEF HandshakeInv, OrderInv, NegotiationInv

LEMMA HandshakeStart == HandshakeInit => HandshakeInv
<1>. SUFFICES ASSUME HandshakeInit PROVE HandshakeInv
  OBVIOUS
<1>1. HandshakeType
  BY DEF HandshakeInit, HandshakeType, Ends, Stages
<1>2. NegotiationInv /\ OrderInv
  BY DEF HandshakeInit, NegotiationInv, Own, OrderInv, InOrder, Ends
<1>. QED BY <1>1, <1>2 DEF HandshakeInv

LEMMA HandshakeStep == HandshakeInv /\ [Next]_vars => HandshakeInv'
<1>. SUFFICES ASSUME HandshakeInv, [Next]_vars PROVE HandshakeInv'
  OBVIOUS
<1>0. "client" \in Ends /\ "server" \in Ends
  BY DEF Ends
<1>1. ASSUME NEW k \in Conns, ConnectAlone(k) PROVE HandshakeInv'
  BY <1>1, ConnectKeeps DEF ConnectAlone
<1>2. ASSUME NEW k \in Conns, ClientStep(k) PROVE HandshakeInv'
  BY <1>0, <1>2, ClientReadsHelloKeeps, ClientSendsAckKeeps, StoreNegotiatedKeeps,
     CreateSystemKeeps, IoFailsKeeps DEF ClientStep, PeerClosed
<1>3. ASSUME NEW k \in Conns, ServerStep(k) PROVE HandshakeInv'
  BY <1>0, <1>3, AcceptBeginsKeeps, ListenerReadsHelloKeeps, AcceptReadsHelloKeeps,
     ServerReadsAckKeeps, StoreNegotiatedKeeps, CreateSystemKeeps, IoFailsKeeps
     DEF ServerStep, PeerClosed
<1>4. ASSUME NEW k \in Conns, Break(k) PROVE HandshakeInv'
  BY <1>4, IoFailsKeeps DEF Break
<1>5. CASE UNCHANGED handshakeVars
  BY <1>5, HandshakeUnchanged
<1>6. CASE UNCHANGED vars
  BY <1>5, <1>6 DEF vars
<1>. QED BY <1>1, <1>2, <1>3, <1>4, <1>5, <1>6 DEF Next

\* The inductive invariant of the handshake: what each side has negotiated comes from
\* both capabilities, and the messages under way fit the stages of both sides.
THEOREM HandshakeInvariant == Spec => []HandshakeInv
<1>1. Init => HandshakeInv
  BY HandshakeStart DEF Init
<1>. QED BY <1>1, HandshakeStep, PTL DEF Spec

\* For any capabilities, a client and a server that have both stored what they
\* negotiated agree on it, and the server has stored it after the client accepted.
THEOREM SidesAgree == Spec => []Agreement
<1>1. HandshakeInv => Agreement
  <2>. SUFFICES ASSUME HandshakeInv, NEW k \in Conns
                PROVE  LET mine == negotiated["client"][k]
                           theirs == negotiated["server"][k]
                       IN  /\ mine # {} /\ theirs # {} => theirs = {Mirror(n) : n \in mine}
                           /\ theirs # {} => mine # {} \/ at[k]["client"] = "store"
    BY DEF Agreement
  <2>1. Own(k, "client") /\ Own(k, "server") /\ InOrder(k)
    BY DEF HandshakeInv, NegotiationInv, OrderInv, Ends
  <2>2. Peer("client") = "server" /\ Peer("server") = "client"
    BY DEF Peer
  <2>3. Ours("server") = {Mirror(n) : n \in Ours("client")}
    BY <2>2, NegotiationMirrors DEF Ours
  <2>. QED BY <2>1, <2>3 DEF Own, InOrder, Acknowledged
<1>. QED BY <1>1, HandshakeInvariant, PTL

-----------------------------------------------------------------------------
(***************************************************************************)
(* Neither side waits for the other while the other waits for it           *)
(***************************************************************************)
\* A connection that a step leaves alone, or which has one side fail or end.
LEMMA ForwardFrame ==
    ASSUME NEW j, Forward(j), at'[j] = at[j], wire'[j] = wire[j]
    PROVE  Forward(j)'
BY DEF Forward

LEMMA ForwardOver ==
    ASSUME NEW k \in Conns, Forward(k), NEW e \in Ends, at'[k][Peer(e)] = at[k][Peer(e)],
           at'[k][e] \in {"failed", "up", "kept"}, at'[k][e] = "kept" => e = "server",
           e = "client" => wire'[k]["client"] = <<>>
    PROVE  Forward(k)'
<1>1. CASE e = "client"
  BY <1>1 DEF Forward, Peer
<1>2. CASE e = "server"
  BY <1>2 DEF Forward, Peer
<1>. QED BY <1>1, <1>2 DEF Ends

LEMMA ForwardElsewhere ==
    ASSUME ForwardInv, NEW k \in Conns, Forward(k)',
           \A j \in Conns \ {k} : at'[j] = at[j] /\ wire'[j] = wire[j]
    PROVE  ForwardInv'
<1>1. ASSUME NEW j \in Conns PROVE Forward(j)'
  <2>1. CASE j = k
    BY <2>1
  <2>2. CASE j # k
    BY <2>2, ForwardFrame DEF ForwardInv
  <2>. QED BY <2>1, <2>2
<1>. QED BY <1>1 DEF ForwardInv

LEMMA ConnectForwards ==
    ASSUME HandshakeInv, ForwardInv, NEW k \in Conns, Connect(k)
    PROVE  ForwardInv'
<1>. DEFINE hello == Hello("client", serializer["client"])
<1>0. HandshakeType /\ "client" \in Ends /\ "server" \in Ends /\ Peer("client") = "server"
  BY DEF HandshakeInv, Ends, Peer
<1>1. at[k]["client"] = "idle" /\ at[k]["server"] = "idle" /\ Forward(k)
  BY DEF Connect, HandshakeInv, OrderInv, InOrder, ForwardInv
<1>2. /\ at'[k]["client"] = "hello" /\ at'[k]["server"] = "begin"
      /\ \A j \in Conns \ {k} : at'[j] = at[j]
  BY <1>0 DEF Connect, HandshakeType
<1>3. hello \in From("client")
  BY <1>0, MessageFrom DEF Hello, HandshakeType
<1>. HIDE DEF hello
<1>4. <<hello>> \in Seq(From("client")) /\ Len(<<hello>>) = 1
  BY <1>3, Singles
<1>5. Exchange(k, "client", FALSE, <<hello>>)
  BY DEF Connect, hello
<1>6. ~Closed(k, "server") /\ wire[k]["client"] = <<>>
  BY <1>1 DEF Closed, Forward
<1>7. /\ wire'[k]["server"] = wire[k]["server"] \o <<hello>>
      /\ wire'[k]["client"] = wire[k]["client"]
      /\ \A j \in Conns \ {k} : wire'[j] = wire[j]
  <2>1. /\ wire'[k]["client"] = IF FALSE THEN Tail(wire[k]["client"]) ELSE wire[k]["client"]
        /\ wire'[k][Peer("client")] = IF Closed(k, Peer("client")) THEN wire[k][Peer("client")]
                                      ELSE wire[k][Peer("client")] \o <<hello>>
        /\ \A j \in Conns \ {k} : wire'[j] = wire[j]
    BY <1>0, <1>4, <1>5, ExchangeWire
  <2>. QED BY <1>0, <1>6, <2>1
<1>8. wire'[k]["server"] # <<>>
  <2>1. wire[k]["server"] \in Seq(From("client"))
    BY <1>0 DEF HandshakeType, Peer
  <2>. QED BY <1>4, <1>7, <2>1
<1>9. Forward(k)'
  BY <1>2, <1>6, <1>7, <1>8 DEF Forward
<1>. QED BY <1>2, <1>7, <1>9, ForwardElsewhere

\* What a side that sends, and one that takes a message and maybe answers it, does to
\* the stages and to the two ends of the wire.
Moves(k, e, c, stage, log, sent) ==
    /\ at'[k][e] = stage /\ at'[k][c] = at[k][c]
    /\ wire[k][c] \in Seq(From(e))
    /\ wire'[k][e] = log
    /\ ~Closed(k, c) => wire'[k][c] = wire[k][c] \o sent
    /\ \A j \in Conns \ {k} : at'[j] = at[j] /\ wire'[j] = wire[j]

LEMMA SendsAt ==
    ASSUME HandshakeType, NEW k \in Conns, NEW e \in Ends, NEW c \in Ends, c = Peer(e),
           NEW stage \in Stages, Step(k, e, stage),
           NEW sent \in Seq(From(e)), Exchange(k, e, FALSE, sent)
    PROVE  Moves(k, e, c, stage, wire[k][e], sent)
<1>1. /\ at'[k][e] = stage /\ at'[k][c] = at[k][c]
      /\ \A j \in Conns \ {k} : at'[j] = at[j]
  BY StepAt
<1>2. /\ DOMAIN wire = Conns /\ DOMAIN wire[k] = Ends /\ wire[k][c] \in Seq(From(e)) /\ c # e
  BY Sides DEF HandshakeType
<1>3. wire' = [wire EXCEPT ![k][e] = @, ![k][c] = IF Closed(k, c) THEN @ ELSE @ \o sent]
  BY DEF Exchange
<1>4. /\ wire'[k] = [wire[k] EXCEPT ![e] = @, ![c] = IF Closed(k, c) THEN @ ELSE @ \o sent]
      /\ \A j \in Conns \ {k} : wire'[j] = wire[j]
  BY <1>2, <1>3
<1>5. wire'[k][e] = wire[k][e] /\ (~Closed(k, c) => wire'[k][c] = wire[k][c] \o sent)
  BY <1>2, <1>4
<1>. QED BY <1>1, <1>2, <1>4, <1>5 DEF Moves

LEMMA TakesAt ==
    ASSUME HandshakeType, NEW k \in Conns, NEW e \in Ends, NEW c \in Ends, c = Peer(e),
           NEW stage \in Stages, Step(k, e, stage),
           NEW sent \in Seq(From(e)), Exchange(k, e, TRUE, sent)
    PROVE  Moves(k, e, c, stage, Tail(wire[k][e]), sent)
<1>1. /\ at'[k][e] = stage /\ at'[k][c] = at[k][c]
      /\ \A j \in Conns \ {k} : at'[j] = at[j]
  BY StepAt
<1>2. /\ DOMAIN wire = Conns /\ DOMAIN wire[k] = Ends /\ wire[k][c] \in Seq(From(e)) /\ c # e
  BY Sides DEF HandshakeType
<1>3. wire' = [wire EXCEPT ![k][e] = Tail(@),
                           ![k][c] = IF Closed(k, c) THEN @ ELSE @ \o sent]
  BY DEF Exchange
<1>4. /\ wire'[k] = [wire[k] EXCEPT ![e] = Tail(@),
                                    ![c] = IF Closed(k, c) THEN @ ELSE @ \o sent]
      /\ \A j \in Conns \ {k} : wire'[j] = wire[j]
  BY <1>2, <1>3
<1>5. wire'[k][e] = Tail(wire[k][e]) /\ (~Closed(k, c) => wire'[k][c] = wire[k][c] \o sent)
  BY <1>2, <1>4
<1>. QED BY <1>1, <1>2, <1>4, <1>5 DEF Moves

LEMMA Lengthen ==
    ASSUME NEW S, NEW log \in Seq(S), NEW m \in S
    PROVE  /\ log \o <<m>> # <<>>
           /\ log # <<>> => Len(log \o <<m>>) >= 2
           /\ Len(log) >= 2 => Tail(log) # <<>>
<1>1. log \o <<m>> \in Seq(S) /\ Len(log \o <<m>>) = Len(log) + 1 /\ Len(log) \in Nat
  OBVIOUS
<1>2. log # <<>> => Len(log) >= 1
  OBVIOUS
<1>3. Len(log) >= 2 => Tail(log) \in Seq(S) /\ Len(Tail(log)) = Len(log) - 1
  OBVIOUS
<1>4. log \o <<m>> # <<>>
  BY <1>1
<1>5. ASSUME Len(log) >= 2 PROVE Tail(log) # <<>>
  <2>. SUFFICES ASSUME Tail(log) = <<>> PROVE FALSE
    OBVIOUS
  <2>1. Len(Tail(log)) = 0 /\ Len(Tail(log)) = Len(log) - 1
    BY <1>3, <1>5
  <2>. QED BY <1>1, <1>5, <2>1
<1>. QED BY <1>1, <1>2, <1>4, <1>5 DEF Moves

LEMMA ClientReadsForwards ==
    ASSUME HandshakeInv, ForwardInv, NEW k \in Conns, ClientReadsHello(k)
    PROVE  ForwardInv'
<1>0. /\ HandshakeType /\ "client" \in Ends /\ "server" \in Ends
      /\ Peer("client") = "server" /\ Peer("server") = "client"
  BY DEF HandshakeInv, Ends, Peer
<1>1. at[k]["client"] = "hello" /\ Forward(k) /\ InOrder(k)
  BY DEF ClientReadsHello, ForwardInv, HandshakeInv, OrderInv
<1>2. CASE Unread(k, "client") /\ Fail(k, "client")
  <2>1. /\ at'[k]["client"] = "failed" /\ at'[k]["server"] = at[k]["server"]
        /\ \A j \in Conns \ {k} : at'[j] = at[j]
    BY <1>0, <1>2, StepAt DEF Fail, Stages
  <2>2. wire'[k]["client"] = <<>> /\ \A j \in Conns \ {k} : wire'[j] = wire[j]
    BY <1>0, <1>2, UnreadWire
  <2>3. Forward(k)'
    BY <1>0, <1>1, <2>1, <2>2, ForwardOver
  <2>. QED BY <2>1, <2>2, <2>3, ForwardElsewhere
<1>3. CASE Exchange(k, "client", TRUE, <<>>) /\ Step(k, "client", "send_ack")
  <2>1. wire[k]["client"] # <<>> /\ <<>> \in Seq(From("client")) /\ "send_ack" \in Stages
    BY DEF ClientReadsHello, Readable, Stages
  <2>2. /\ at'[k]["client"] = "send_ack" /\ at'[k]["server"] = at[k]["server"]
        /\ wire[k]["server"] \in Seq(From("client"))
        /\ ~Closed(k, "server")
              => wire'[k]["server"] = wire[k]["server"] \o <<>>
        /\ \A j \in Conns \ {k} : at'[j] = at[j] /\ wire'[j] = wire[j]
    <3>1. Moves(k, "client", "server", "send_ack", Tail(wire[k]["client"]), <<>>)
      BY <1>0, <1>3, <2>1, TakesAt
    <3>. QED BY <3>1 DEF Moves
  <2>3. at[k]["server"] \notin {"idle", "begin"}
    BY <1>1, <2>1 DEF Forward
  <2>4. at[k]["server"] = "hello" => wire'[k]["server"] # <<>>
    <3>1. ASSUME at[k]["server"] = "hello" PROVE wire'[k]["server"] # <<>>
      <4>1. ~Closed(k, "server")
        BY <1>0, <3>1 DEF Closed
      <4>2. wire'[k]["server"] = wire[k]["server"] \o <<>>
        BY <1>0, <2>2, <4>1
      <4>3. wire[k]["server"] \in Seq(From("client"))
        BY <1>0, <2>2
      <4>4. wire[k]["server"] # <<>>
        BY <1>1, <3>1 DEF Forward
      <4>. QED BY <2>1, <4>2, <4>3, <4>4, ConcatFrom
    <3>. QED BY <3>1
  <2>5. Forward(k)'
    BY <1>0, <2>2, <2>3, <2>4 DEF Forward
  <2>. QED BY <2>2, <2>5, ForwardElsewhere
<1>. QED BY <1>2, <1>3 DEF ClientReadsHello

LEMMA ClientSendsForwards ==
    ASSUME HandshakeInv, ForwardInv, NEW k \in Conns, ClientSendsAck(k)
    PROVE  ForwardInv'
<1>0. /\ HandshakeType /\ "client" \in Ends /\ "server" \in Ends
      /\ Peer("client") = "server" /\ Peer("server") = "client"
  BY DEF HandshakeInv, Ends, Peer
<1>1. at[k]["client"] = "send_ack" /\ Forward(k) /\ InOrder(k)
  BY DEF ClientSendsAck, ForwardInv, HandshakeInv, OrderInv
<1>2. Ack("client") \in From("client")
  BY <1>0, MessageFrom DEF Ack
<1>3. <<Ack("client")>> \in Seq(From("client")) /\ "store" \in Stages
  BY <1>2, Singles DEF Stages
<1>4. Exchange(k, "client", FALSE, <<Ack("client")>>) /\ Step(k, "client", "store")
  BY DEF ClientSendsAck
<1>5. /\ at'[k]["client"] = "store" /\ at'[k]["server"] = at[k]["server"]
      /\ wire[k]["server"] \in Seq(From("client"))
      /\ ~Closed(k, "server")
            => wire'[k]["server"] = wire[k]["server"] \o <<Ack("client")>>
      /\ \A j \in Conns \ {k} : at'[j] = at[j] /\ wire'[j] = wire[j]
  <2>1. Moves(k, "client", "server", "store", wire[k]["client"], <<Ack("client")>>)
    BY <1>0, <1>3, <1>4, SendsAt
  <2>. QED BY <2>1 DEF Moves
<1>6. at[k]["server"] \notin {"idle", "begin"}
  BY <1>1 DEF Forward, InOrder
<1>7. ASSUME at[k]["server"] \in {"hello", "await_ack"}
      PROVE  /\ wire'[k]["server"] # <<>>
             /\ wire[k]["server"] # <<>> => Len(wire'[k]["server"]) >= 2
  <2>1. ~Closed(k, "server")
    BY <1>0, <1>7 DEF Closed
  <2>2. wire'[k]["server"] = wire[k]["server"] \o <<Ack("client")>>
    BY <1>0, <1>5, <2>1
  <2>3. wire[k]["server"] \in Seq(From("client"))
    BY <1>0, <1>5
  <2>. QED BY <1>2, <2>2, <2>3, Lengthen
<1>8. Forward(k)'
  BY <1>0, <1>1, <1>5, <1>6, <1>7 DEF Forward
<1>. QED BY <1>5, <1>8, ForwardElsewhere

LEMMA AcceptForwards ==
    ASSUME HandshakeInv, ForwardInv, NEW k \in Conns, AcceptBegins(k)
    PROVE  ForwardInv'
<1>0. /\ HandshakeType /\ "client" \in Ends /\ "server" \in Ends
      /\ Peer("client") = "server" /\ Peer("server") = "client"
  BY DEF HandshakeInv, Ends, Peer
<1>. DEFINE hello == Hello("server", serializer["server"])
<1>1. at[k]["server"] = "begin" /\ Forward(k)
  BY DEF AcceptBegins, ForwardInv
<1>2. hello \in From("server")
  BY <1>0, MessageFrom DEF Hello, HandshakeType
<1>3. Step(k, "server", "hello") /\ Exchange(k, "server", FALSE, <<hello>>)
  BY DEF AcceptBegins
<1>. HIDE DEF hello
<1>4. <<hello>> \in Seq(From("server")) /\ "hello" \in Stages
  BY <1>2, Singles DEF Stages
<1>5. /\ at'[k]["server"] = "hello" /\ at'[k]["client"] = at[k]["client"]
      /\ wire'[k]["server"] = wire[k]["server"]
      /\ wire[k]["client"] \in Seq(From("server"))
      /\ ~Closed(k, "client")
            => wire'[k]["client"] = wire[k]["client"] \o <<hello>>
      /\ \A j \in Conns \ {k} : at'[j] = at[j] /\ wire'[j] = wire[j]
  <2>1. Moves(k, "server", "client", "hello", wire[k]["server"], <<hello>>)
    BY <1>0, <1>3, <1>4, SendsAt
  <2>. QED BY <2>1 DEF Moves
<1>6. ASSUME at[k]["client"] = "hello" PROVE wire'[k]["client"] # <<>>
  <2>1. ~Closed(k, "client")
    BY <1>0, <1>6 DEF Closed
  <2>2. wire'[k]["client"] = wire[k]["client"] \o <<hello>>
    BY <1>0, <1>5, <2>1
  <2>3. wire[k]["client"] \in Seq(From("server"))
    BY <1>0, <1>5
  <2>. QED BY <1>2, <2>2, <2>3, Lengthen
<1>7. Forward(k)'
  BY <1>0, <1>1, <1>5, <1>6 DEF Forward
<1>. QED BY <1>5, <1>7, ForwardElsewhere

LEMMA ServerGoesForwards ==
    ASSUME HandshakeInv, ForwardInv, NEW k \in Conns, NEW m \in From("server"),
           at[k]["server"] \in {"begin", "hello"}, ServerGoesOn(k, <<m>>)
    PROVE  ForwardInv'
<1>0. /\ HandshakeType /\ "client" \in Ends /\ "server" \in Ends
      /\ Peer("client") = "server" /\ Peer("server") = "client"
  BY DEF HandshakeInv, Ends, Peer
<1>1. Forward(k) /\ InOrder(k)
  BY DEF ForwardInv, HandshakeInv, OrderInv
<1>2. <<m>> \in Seq(From("server")) /\ "await_ack" \in Stages
  BY Singles DEF Stages
<1>3. Step(k, "server", "await_ack") /\ Exchange(k, "server", TRUE, <<m>>)
  BY DEF ServerGoesOn
<1>4. Moves(k, "server", "client", "await_ack", Tail(wire[k]["server"]), <<m>>)
  BY <1>0, <1>2, <1>3, TakesAt
<1>5. /\ at'[k]["server"] = "await_ack" /\ at'[k]["client"] = at[k]["client"]
      /\ wire'[k]["server"] = Tail(wire[k]["server"])
      /\ wire[k]["client"] \in Seq(From("server"))
      /\ ~Closed(k, "client") => wire'[k]["client"] = wire[k]["client"] \o <<m>>
      /\ \A j \in Conns \ {k} : at'[j] = at[j] /\ wire'[j] = wire[j]
  BY <1>4 DEF Moves
<1>6. ASSUME at[k]["client"] = "hello" PROVE wire'[k]["client"] # <<>>
  <2>1. ~Closed(k, "client")
    BY <1>6 DEF Closed
  <2>2. wire'[k]["client"] = wire[k]["client"] \o <<m>>
    BY <1>5, <2>1
  <2>. QED BY <1>5, <2>2, Lengthen
<1>7. ASSUME at[k]["client"] \in {"store", "system"} PROVE wire'[k]["server"] # <<>>
  <2>1. Len(wire[k]["server"]) >= 2
    BY <1>1, <1>7 DEF Forward
  <2>2. wire[k]["server"] \in Seq(From("client"))
    BY <1>0 DEF HandshakeType
  <2>3. wire[k]["server"] # <<>>
    BY <2>1, <2>2
  <2>4. Head(wire[k]["server"]) \in From("client")
    BY <2>2, <2>3, TailFrom
  <2>. QED BY <1>5, <2>1, <2>2, <2>4, Lengthen
<1>8. Forward(k)'
  BY <1>1, <1>5, <1>6, <1>7 DEF Forward
<1>. QED BY <1>5, <1>8, ForwardElsewhere

LEMMA RefusalForwards ==
    ASSUME HandshakeInv, ForwardInv, NEW k \in Conns, NEW sent, ServerRefuses(k, sent)
    PROVE  ForwardInv'
<1>0. HandshakeType /\ "server" \in Ends /\ Peer("server") = "client"
  BY DEF HandshakeInv, Ends, Peer
<1>1. /\ at'[k]["server"] = "failed" /\ at'[k]["client"] = at[k]["client"]
      /\ \A j \in Conns \ {k} : at'[j] = at[j]
  BY <1>0, StepAt DEF ServerRefuses, Fail, Stages
<1>2. \A j \in Conns \ {k} : wire'[j] = wire[j]
  BY <1>0 DEF ServerRefuses, HandshakeType
<1>3. Forward(k)'
  BY <1>0, <1>1, ForwardOver DEF ForwardInv
<1>. QED BY <1>1, <1>2, <1>3, ForwardElsewhere

LEMMA ListenerForwards ==
    ASSUME HandshakeInv, ForwardInv, NEW k \in Conns, ListenerReadsHello(k)
    PROVE  ForwardInv'
<1>0. "server" \in Ends /\ Peer("server") = "client" /\ HandshakeType
  BY DEF Ends, Peer, HandshakeInv
<1>. DEFINE theirs == First(k, "server").serializer
            name == IF mode = "manual" THEN theirs ELSE serializer["server"]
            hello == Hello("server", name)
<1>1. at[k]["server"] = "begin" /\ Readable(k, "server")
  BY DEF ListenerReadsHello
<1>2. First(k, "server") \in Messages
  <2>1. wire[k]["server"] \in Seq(From("client")) /\ wire[k]["server"] # <<>>
    BY <1>0, <1>1 DEF Readable, HandshakeType
  <2>2. First(k, "server") \in From("client")
    BY <2>1, TailFrom DEF First
  <2>. QED BY <2>2 DEF From
<1>3. name \in Serializers \cup {"none"}
  BY <1>0, <1>2 DEF Messages, HandshakeType
<1>4. hello \in From("server")
  BY <1>0, <1>3, MessageFrom DEF Hello
<1>5. \/ ServerRefuses(k, <<Error("server")>>)
      \/ ServerRefuses(k, <<hello, Error("server")>>)
      \/ ServerGoesOn(k, <<hello>>)
  BY DEF ListenerReadsHello
<1>. HIDE DEF hello
<1>. QED BY <1>1, <1>4, <1>5, RefusalForwards, ServerGoesForwards

LEMMA AcceptReadsForwards ==
    ASSUME HandshakeInv, ForwardInv, NEW k \in Conns, AcceptReadsHello(k)
    PROVE  ForwardInv'
<1>1. at[k]["server"] = "hello" /\ HandshakeType /\ "server" \in Ends
  BY DEF AcceptReadsHello, HandshakeInv, Ends
<1>2. Ack("server") \in From("server")
  BY <1>1, MessageFrom DEF Ack
<1>3. \/ ServerRefuses(k, <<>>)
      \/ ServerRefuses(k, <<Error("server")>>)
      \/ ServerGoesOn(k, <<Ack("server")>>)
  BY DEF AcceptReadsHello
<1>. QED BY <1>1, <1>2, <1>3, RefusalForwards, ServerGoesForwards

LEMMA ServerReadsForwards ==
    ASSUME HandshakeInv, ForwardInv, NEW k \in Conns, ServerReadsAck(k)
    PROVE  ForwardInv'
<1>0. /\ HandshakeType /\ "client" \in Ends /\ "server" \in Ends
      /\ Peer("client") = "server" /\ Peer("server") = "client"
  BY DEF HandshakeInv, Ends, Peer
<1>1. at[k]["server"] = "await_ack" /\ Forward(k) /\ InOrder(k)
  BY DEF ServerReadsAck, ForwardInv, HandshakeInv, OrderInv
<1>2. at[k]["client"] # "hello"
  BY <1>1 DEF ServerReadsAck, Readable, InOrder, Acknowledged
<1>3. Step(k, "server", "store") /\ Exchange(k, "server", TRUE, <<>>)
  BY DEF ServerReadsAck
<1>4. Moves(k, "server", "client", "store", Tail(wire[k]["server"]), <<>>)
  <2>1. <<>> \in Seq(From("server")) /\ "store" \in Stages
    BY DEF Stages
  <2>. QED BY <1>0, <1>3, <2>1, TakesAt
<1>5. /\ at'[k]["server"] = "store" /\ at'[k]["client"] = at[k]["client"]
      /\ \A j \in Conns \ {k} : at'[j] = at[j] /\ wire'[j] = wire[j]
  BY <1>4 DEF Moves
<1>6. Forward(k)'
  BY <1>2, <1>5 DEF Forward
<1>. QED BY <1>5, <1>6, ForwardElsewhere

LEMMA StoreForwards ==
    ASSUME HandshakeInv, ForwardInv, NEW k \in Conns, NEW e \in Ends, StoreNegotiated(k, e)
    PROVE  ForwardInv'
<1>1. at[k][e] = "store" /\ Forward(k) /\ InOrder(k) /\ wire' = wire /\ HandshakeType
  BY DEF StoreNegotiated, ForwardInv, HandshakeInv, OrderInv
<1>2. /\ at'[k][e] = "system" /\ at'[k][Peer(e)] = at[k][Peer(e)]
      /\ \A j \in Conns \ {k} : at'[j] = at[j]
  BY <1>1, StepAt DEF StoreNegotiated, Stages
<1>3. CASE e = "client"
  <2>1. Forward(k)'
    BY <1>1, <1>2, <1>3 DEF Forward, Peer
  <2>. QED BY <1>1, <1>2, <2>1, ForwardElsewhere
<1>4. CASE e = "server"
  <2>1. at[k]["client"] # "hello"
    BY <1>1, <1>4 DEF InOrder, Acknowledged
  <2>2. Forward(k)'
    BY <1>1, <1>2, <1>4, <2>1 DEF Forward, Peer
  <2>. QED BY <1>1, <1>2, <2>2, ForwardElsewhere
<1>. QED BY <1>3, <1>4 DEF Ends

\* A side that fails, or a client that is done, leaves what is unread.
LEMMA EndForwards ==
    ASSUME HandshakeInv, ForwardInv, NEW k \in Conns, NEW e \in Ends,
           NEW stage \in {"failed", "up", "kept"}, Step(k, e, stage), stage = "kept" => e = "server",
           Unread(k, e) \/ (e = "server" /\ UNCHANGED wire)
    PROVE  ForwardInv'
<1>1. Forward(k) /\ HandshakeType
  BY DEF ForwardInv, HandshakeInv
<1>2. /\ at'[k][e] = stage /\ at'[k][Peer(e)] = at[k][Peer(e)]
      /\ \A j \in Conns \ {k} : at'[j] = at[j]
  BY <1>1, StepAt DEF Stages
<1>3. /\ e = "client" => wire'[k]["client"] = <<>>
      /\ \A j \in Conns \ {k} : wire'[j] = wire[j]
  BY <1>1, UnreadWire
<1>4. Forward(k)'
  BY <1>1, <1>2, <1>3, ForwardOver
<1>. QED BY <1>2, <1>3, <1>4, ForwardElsewhere

LEMMA SystemForwards ==
    ASSUME HandshakeInv, ForwardInv, NEW k \in Conns, NEW e \in Ends, CreateSystem(k, e)
    PROVE  ForwardInv'
<1>1. CASE Unread(k, e) /\ Fail(k, e)
  BY <1>1, EndForwards DEF Fail
<1>2. CASE Succeed(k, e)
  <2>1. Step(k, e, "up") /\ (Unread(k, e) \/ (e = "server" /\ UNCHANGED wire))
    BY <1>2 DEF Succeed, Ends
  <2>. QED BY <2>1, EndForwards
<1>3. CASE e = "server" /\ Keep(k)
  BY <1>3, EndForwards DEF Keep
<1>. QED BY <1>1, <1>2, <1>3 DEF CreateSystem

LEMMA FailureForwards ==
    ASSUME HandshakeInv, ForwardInv, NEW k \in Conns, NEW e \in Ends, IoFails(k, e)
    PROVE  ForwardInv'
BY EndForwards DEF IoFails, Fail

LEMMA ForwardStep == HandshakeInv /\ ForwardInv /\ [Next]_vars => ForwardInv'
<1>. SUFFICES ASSUME HandshakeInv, ForwardInv, [Next]_vars PROVE ForwardInv'
  OBVIOUS
<1>0. "client" \in Ends /\ "server" \in Ends
  BY DEF Ends
<1>1. ASSUME NEW k \in Conns, ConnectAlone(k) PROVE ForwardInv'
  BY <1>1, ConnectForwards DEF ConnectAlone
<1>2. ASSUME NEW k \in Conns, ClientStep(k) PROVE ForwardInv'
  BY <1>0, <1>2, ClientReadsForwards, ClientSendsForwards, StoreForwards, SystemForwards,
     FailureForwards DEF ClientStep, PeerClosed
<1>3. ASSUME NEW k \in Conns, ServerStep(k) PROVE ForwardInv'
  BY <1>0, <1>3, AcceptForwards, ListenerForwards, AcceptReadsForwards, ServerReadsForwards,
     StoreForwards, SystemForwards, FailureForwards DEF ServerStep, PeerClosed
<1>4. ASSUME NEW k \in Conns, Break(k) PROVE ForwardInv'
  BY <1>4, FailureForwards DEF Break
<1>5. CASE UNCHANGED handshakeVars
  BY <1>5, ForwardFrame DEF handshakeVars, ForwardInv
<1>6. CASE UNCHANGED vars
  BY <1>5, <1>6 DEF vars
<1>. QED BY <1>1, <1>2, <1>3, <1>4, <1>5, <1>6 DEF Next

\* In each of the three exchanges, with any capabilities and however one side fails,
\* the other never waits for a message that nobody is going to send: its peer has
\* something to do, or has closed (the safety part of HandshakeEnds).
THEOREM NobodyWaitsInVain == Spec => []NoMutualWait
<1>1. Init => ForwardInv
  BY DEF Init, HandshakeInit, ForwardInv, Forward, Ends
<1>2. HandshakeInv /\ ForwardInv => NoMutualWait
  <2>. SUFFICES ASSUME HandshakeInv, ForwardInv, NEW k \in Conns, NEW e \in Ends, Waits(k, e)
                PROVE  \/ Closed(k, Peer(e))
                       \/ at[k][Peer(e)] \notin Over /\ ~Waits(k, Peer(e))
    BY DEF NoMutualWait
  <2>1. /\ Forward(k) /\ InOrder(k)
        /\ at[k]["client"] \in Stages /\ at[k]["server"] \in Stages
        /\ wire[k]["server"] = <<>> => ~(Len(wire[k]["server"]) >= 2)
    BY DEF ForwardInv, HandshakeInv, HandshakeType, OrderInv, Ends
  <2>2. CASE e = "client"
    <3>1. at[k]["client"] = "hello" /\ wire[k]["client"] = <<>>
      BY <2>1, <2>2 DEF Waits, InOrder
    <3>2. at[k]["server"] \notin {"hello", "await_ack", "store", "system", "up", "kept", "idle",
                              "send_ack"}
      BY <2>1, <3>1 DEF Forward, InOrder, Acknowledged
    <3>3. at[k]["server"] \in {"begin", "failed"}
      BY <2>1, <3>2 DEF Stages
    <3>4. at[k]["server"] = "begin" => wire[k]["server"] # <<>>
      BY <2>1, <3>1 DEF Forward
    <3>. QED BY <2>2, <3>3, <3>4 DEF Peer, Closed, Over, Waits
  <2>3. CASE e = "server"
    <3>1. at[k]["server"] \in {"begin", "hello", "await_ack"} /\ wire[k]["server"] = <<>>
      BY <2>3 DEF Waits
    <3>2. at[k]["client"] \in {"hello", "send_ack", "store", "system", "up", "failed"}
      BY <2>1, <3>1 DEF InOrder, Stages
    <3>3. at[k]["client"] = "hello" => wire[k]["client"] # <<>>
      BY <2>1, <3>1 DEF Forward
    <3>. QED BY <2>3, <3>2, <3>3 DEF Peer, Closed, Over, Waits
  <2>. QED BY <2>2, <2>3 DEF Ends
<1>. QED BY <1>1, <1>2, HandshakeInvariant, ForwardStep, PTL DEF Spec
=============================================================================
