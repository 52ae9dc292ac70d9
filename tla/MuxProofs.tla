------------------------------ MODULE MuxProofs ------------------------------
(***************************************************************************)
(* Proofs about module Mux, for any number of channels, messages and       *)
(* faults: what the queues and the wire hold (MuxInv), then the order in   *)
(* which the stages hold it (StreamInv), and from that the refinement of   *)
(* LossyStream.                                                            *)
(***************************************************************************)
EXTENDS MuxProperties, TLAPS

LEMMA AppendLog ==
    ASSUME NEW S, NEW s \in Seq(S), NEW e \in S
    PROVE  /\ Append(s, e) \in Seq(S) /\ Len(Append(s, e)) = Len(s) + 1 /\ Len(s) \in Nat
           /\ Append(s, e)[Len(s) + 1] = e
           /\ \A i \in 1..Len(s) : Append(s, e)[i] = s[i]
           /\ \A i \in DOMAIN Append(s, e) :
                 (i \in DOMAIN s /\ Append(s, e)[i] = s[i]) \/ Append(s, e)[i] = e
OBVIOUS

LEMMA TailLog ==
    ASSUME NEW S, NEW s \in Seq(S), s # <<>>
    PROVE  /\ Head(s) \in S /\ 1 \in DOMAIN s /\ Head(s) = s[1] /\ Tail(s) \in Seq(S)
           /\ Len(s) \in Nat /\ Len(Tail(s)) = Len(s) - 1 /\ Len(s) >= 1
           /\ \A i \in DOMAIN Tail(s) : i + 1 \in DOMAIN s /\ Tail(s)[i] = s[i + 1]
OBVIOUS

LEMMA TailTwice ==
    ASSUME NEW S, NEW s \in Seq(S), Len(s) >= 2
    PROVE  /\ Tail(Tail(s)) \in Seq(S) /\ Len(Tail(Tail(s))) = Len(s) - 2 /\ Len(s) \in Nat
           /\ \A i \in 1..(Len(s) - 2) : i + 2 \in 1..Len(s) /\ Tail(Tail(s))[i] = s[i + 2]
<1>. DEFINE t == Tail(s)
            k == Len(s)
<1>1. /\ t \in Seq(S) /\ k \in Nat /\ k >= 2 /\ Len(t) = k - 1
      /\ \A i \in 1..(k - 1) : i + 1 \in 1..k /\ t[i] = s[i + 1]
  OBVIOUS
<1>. HIDE DEF t, k
<1>2. /\ Tail(t) \in Seq(S) /\ Len(Tail(t)) = Len(t) - 1
      /\ \A i \in 1..(Len(t) - 1) : Tail(t)[i] = t[i + 1]
  BY <1>1
<1>3. Len(t) - 1 = k - 2
  BY <1>1
<1>4. ASSUME NEW i \in 1..(k - 2) PROVE i + 2 \in 1..k /\ Tail(t)[i] = s[i + 2]
  <2>1. Tail(t)[i] = t[i + 1] /\ i + 1 \in 1..(k - 1) /\ (i + 1) + 1 = i + 2
    BY <1>1, <1>2, <1>3
  <2>. QED BY <1>1, <2>1
<1>5. Len(Tail(t)) = k - 2
  BY <1>2, <1>3
<1>. QED BY <1>1, <1>2, <1>4, <1>5 DEF t, k

LEMMA PrefixLog ==
    ASSUME NEW S, NEW s \in Seq(S), NEW n \in 0..Len(s)
    PROVE  /\ SubSeq(s, 1, n) \in Seq(S) /\ Len(SubSeq(s, 1, n)) = n
           /\ \A i \in 1..n : i \in 1..Len(s) /\ SubSeq(s, 1, n)[i] = s[i]
OBVIOUS

LEMMA NoLog == ASSUME NEW S PROVE <<>> \in Seq(S) /\ Len(<<>>) = 0 /\ DOMAIN <<>> = {}
OBVIOUS

LEMMA OneLog == ASSUME NEW S, NEW s \in Seq(S), Len(s) = 1 PROVE s[1] \in S
OBVIOUS

LEMMA Parity ==
    ASSUME NEW n \in Nat
    PROVE  /\ n % 2 = 0 => (n + 1) % 2 = 1
           /\ n % 2 = 1 => (n + 1) % 2 = 0 /\ n >= 1
           /\ (n + 2) % 2 = n % 2
           /\ n % 2 = 0 /\ n >= 1 => n >= 2
           /\ n % 2 = 1 /\ n >= 2 => n >= 3
OBVIOUS

\* A step that leaves the wire and what has been received alone.
LEMMA PartsSame ==
    ASSUME PartsInv, UNCHANGED <<wire, link>>,
           \/ UNCHANGED <<sendTask, sending>>
           \/ sendTask' \in Over
    PROVE  PartsInv'
BY DEF PartsInv, Over

LEMMA OwnSame ==
    ASSUME OwnInv, UNCHANGED <<outbox, incoming, delivered>>
    PROVE  OwnInv'
BY DEF OwnInv, Owned

\* What becomes of the log of one channel.
LEMMA OwnChanged ==
    ASSUME NEW logs \in [Channels -> Seq(Message)], Owned(logs), NEW c \in Channels,
           NEW log \in Seq(Message), \A i \in DOMAIN log : log[i].ch = c
    PROVE  /\ [logs EXCEPT ![c] = log] \in [Channels -> Seq(Message)]
           /\ Owned([logs EXCEPT ![c] = log])
<1>1. /\ [logs EXCEPT ![c] = log] \in [Channels -> Seq(Message)]
      /\ [logs EXCEPT ![c] = log][c] = log
      /\ \A d \in Channels \ {c} : [logs EXCEPT ![c] = log][d] = logs[d]
  OBVIOUS
<1>. QED BY <1>1 DEF Owned

LEMMA OwnAdded ==
    ASSUME NEW logs \in [Channels -> Seq(Message)], Owned(logs), NEW c \in Channels,
           NEW m \in Message, m.ch = c
    PROVE  /\ [logs EXCEPT ![c] = Append(logs[c], m)] \in [Channels -> Seq(Message)]
           /\ Owned([logs EXCEPT ![c] = Append(logs[c], m)])
<1>. DEFINE log == Append(logs[c], m)
<1>1. log \in Seq(Message)
  BY AppendLog
<1>2. \A i \in DOMAIN log : (i \in DOMAIN logs[c] /\ log[i] = logs[c][i]) \/ log[i] = m
  BY AppendLog
<1>. HIDE DEF log
<1>3. \A i \in DOMAIN log : log[i].ch = c
  BY <1>2 DEF Owned
<1>4. /\ [logs EXCEPT ![c] = log] \in [Channels -> Seq(Message)]
      /\ Owned([logs EXCEPT ![c] = log])
  BY <1>1, <1>3, OwnChanged
<1>. QED BY <1>4 DEF log

LEMMA OwnTail ==
    ASSUME NEW logs \in [Channels -> Seq(Message)], Owned(logs), NEW c \in Channels,
           logs[c] # <<>>
    PROVE  /\ Head(logs[c]) \in Message /\ Head(logs[c]).ch = c
           /\ [logs EXCEPT ![c] = Tail(logs[c])] \in [Channels -> Seq(Message)]
           /\ Owned([logs EXCEPT ![c] = Tail(logs[c])])
<1>. DEFINE log == Tail(logs[c])
<1>1. /\ log \in Seq(Message)
      /\ \A i \in DOMAIN log : i + 1 \in DOMAIN logs[c] /\ log[i] = logs[c][i + 1]
      /\ Head(logs[c]) \in Message /\ 1 \in DOMAIN logs[c] /\ Head(logs[c]) = logs[c][1]
  BY TailLog
<1>. HIDE DEF log
<1>2. \A i \in DOMAIN log : log[i].ch = c
  BY <1>1 DEF Owned
<1>3. /\ [logs EXCEPT ![c] = log] \in [Channels -> Seq(Message)]
      /\ Owned([logs EXCEPT ![c] = log])
  BY <1>1, <1>2, OwnChanged
<1>. QED BY <1>1, <1>3 DEF Owned, log

LEMMA OwnNone ==
    ASSUME NEW logs \in [Channels -> Seq(Message)], Owned(logs), NEW c \in Channels
    PROVE  /\ [logs EXCEPT ![c] = <<>>] \in [Channels -> Seq(Message)]
           /\ Owned([logs EXCEPT ![c] = <<>>])
BY NoLog, OwnChanged

-----------------------------------------------------------------------------
(***************************************************************************)
(* The sending end                                                         *)
(***************************************************************************)
LEMMA SendKeeps ==
    ASSUME MuxInv, NEW c \in Channels, NEW k \in Kinds[c], Send(c, k)
    PROVE  MuxInv'
<1>. USE DEF MuxInv
<1>. DEFINE m == [ch |-> c, num |-> sent[c] + 1, kind |-> k]
<1>1. /\ sent' = [sent EXCEPT ![c] = @ + 1] /\ outbox' = [outbox EXCEPT ![c] = Append(@, m)]
      /\ UNCHANGED <<outTask, outgoing, sendTask, sending, wire, link, receiverVars, faults>>
  BY DEF Send
<1>2. m \in Message
  <2>1. k \in AllKinds
    BY KindsAssumption
  <2>2. sent[c] + 1 \in Nat \ {0}
    <3>1. sent[c] \in Nat
      BY DEF TypeOK
    <3>. QED BY <3>1
  <2>. QED BY <2>1, <2>2 DEF Message
<1>3. m.ch = c
  OBVIOUS
<1>. HIDE DEF m
<1>4. outbox' \in [Channels -> Seq(Message)] /\ Owned(outbox')
  BY <1>1, <1>2, <1>3, OwnAdded DEF TypeOK, OwnInv
<1>5. TypeOK'
  <2>1. sent' \in [Channels -> Nat]
    BY <1>1 DEF TypeOK
  <2>. QED BY <1>1, <1>4, <2>1 DEF TypeOK, receiverVars, Part, Message
<1>6. OwnInv'
  BY <1>1, <1>4 DEF OwnInv, Owned, receiverVars
<1>. QED BY <1>1, <1>5, <1>6, PartsSame DEF receiverVars

\* The end of an outgoing task, and what is left in its queue.
LEMMA OutboxKeeps ==
    ASSUME MuxInv, NEW c \in Channels, NEW e \in {"none", "running"} \cup Over,
           outbox' \in [Channels -> Seq(Message)], Owned(outbox'),
           outTask' = [outTask EXCEPT ![c] = e], outgoing' \in Seq(Message),
           UNCHANGED <<sent, sendTask, sending, wire, link, receiverVars>>
    PROVE  MuxInv'
<1>. USE DEF MuxInv
<1>1. TypeOK'
  <2>1. outTask' \in [Channels -> {"none", "running"} \cup Over]
    BY DEF TypeOK
  <2>. QED BY <2>1 DEF TypeOK, receiverVars, Part, Message
<1>2. OwnInv'
  BY DEF OwnInv, Owned, receiverVars
<1>. QED BY <1>1, <1>2, PartsSame DEF receiverVars

LEMMA OutgoingKeeps ==
    ASSUME MuxInv, NEW c \in Channels, OpenOut(c) \/ Outgoing(c) \/ AbortOut(c)
    PROVE  MuxInv'
<1>1. /\ outbox \in [Channels -> Seq(Message)] /\ Owned(outbox)
      /\ outTask \in [Channels -> {"none", "running"} \cup Over] /\ outgoing \in Seq(Message)
  BY DEF MuxInv, TypeOK, OwnInv
<1>2. CASE OpenOut(c)
  <2>1. /\ outTask' = [outTask EXCEPT ![c] = "running"] /\ UNCHANGED <<outbox, outgoing>>
        /\ UNCHANGED <<sent, sendTask, sending, wire, link, receiverVars>>
    BY <1>2 DEF OpenOut
  <2>. QED BY <1>1, <2>1, OutboxKeeps DEF Owned
<1>3. ASSUME NEW how \in Over, EndOut(c, how),
             UNCHANGED <<sent, outgoing, sendTask, sending, wire, link, receiverVars>>
      PROVE  MuxInv'
  <2>1. outbox' \in [Channels -> Seq(Message)] /\ Owned(outbox')
    BY <1>1, <1>3, OwnNone DEF EndOut
  <2>. QED BY <1>1, <1>3, <2>1, OutboxKeeps DEF EndOut
<1>4. CASE AbortOut(c)
  BY <1>3, <1>4 DEF AbortOut, Over
<1>5. CASE Outgoing(c)
  <2>. DEFINE m == Head(outbox[c])
  <2>1. UNCHANGED <<sent, sendTask, sending, wire, link, receiverVars>> /\ outbox[c] # <<>>
    BY <1>5 DEF Outgoing
  <2>2. /\ m \in Message
        /\ [outbox EXCEPT ![c] = Tail(outbox[c])] \in [Channels -> Seq(Message)]
        /\ Owned([outbox EXCEPT ![c] = Tail(outbox[c])])
    BY <1>1, <2>1, OwnTail
  <2>. HIDE DEF m
  <2>3. CASE /\ outbox' = [outbox EXCEPT ![c] = Tail(@)] /\ UNCHANGED outTask
             /\ outgoing' = outgoing \/ outgoing' = Append(outgoing, m)
    <3>1. outTask' = [outTask EXCEPT ![c] = outTask[c]] /\ outTask[c] \in {"none", "running"} \cup Over
      BY <1>1, <2>3
    <3>2. outgoing' \in Seq(Message)
      <4>1. Append(outgoing, m) \in Seq(Message)
        BY <1>1, <2>2, AppendLog
      <4>. QED BY <1>1, <2>3, <4>1
    <3>3. outbox' \in [Channels -> Seq(Message)] /\ Owned(outbox')
      BY <2>2, <2>3
    <3>. QED BY <2>1, <3>1, <3>2, <3>3, OutboxKeeps
  <2>4. CASE EndOut(c, "ended") /\ UNCHANGED outgoing
    BY <1>3, <2>1, <2>4 DEF Over
  <2>. QED BY <1>5, <2>3, <2>4 DEF Outgoing, m
<1>. QED BY <1>2, <1>4, <1>5

\* What the send task changes.
LEMMA SenderType ==
    ASSUME TypeOK, sendTask' \in {"recv", "body"} \cup Over, outgoing' \in Seq(Message),
           sending' \in Seq(Message),
           Len(sending') = (IF sendTask' = "body" THEN 1 ELSE 0),
           wire' \in Seq(Part), UNCHANGED <<sent, outbox, outTask, link, receiverVars>>
    PROVE  TypeOK'
BY DEF TypeOK, receiverVars, Part, Message

LEMMA EndSendKeeps ==
    ASSUME MuxInv, NEW how \in Over, EndSend(how),
           UNCHANGED <<sent, outbox, outTask, wire, link, receiverVars>>
    PROVE  MuxInv'
<1>. USE DEF MuxInv
<1>1. sendTask' = how /\ sending' = <<>> /\ outgoing' = <<>> /\ how # "body"
  BY DEF EndSend, Over
<1>2. TypeOK'
  <2>1. wire \in Seq(Part)
    BY DEF TypeOK
  <2>. QED BY <1>1, <2>1, NoLog, SenderType
<1>. QED BY <1>1, <1>2, PartsSame, OwnSame DEF receiverVars

LEMMA WriteChannelIdKeeps ==
    ASSUME MuxInv, WriteChannelId
    PROVE  MuxInv'
<1>. USE DEF MuxInv
<1>0. UNCHANGED <<sent, outbox, outTask, link, receiverVars>>
  BY DEF WriteChannelId
<1>1. CASE EndSend("ended") /\ UNCHANGED wire
  BY <1>0, <1>1, EndSendKeeps DEF Over
<1>. DEFINE m == Head(outgoing)
            p == [part |-> "id", msg |-> m]
<1>2. CASE /\ link = "up" /\ wire' = Append(wire, p) /\ sending' = <<m>>
           /\ outgoing' = Tail(outgoing) /\ sendTask' = "body"
  <2>1. outgoing \in Seq(Message) /\ wire \in Seq(Part) /\ sendTask = "recv" /\ outgoing # <<>>
    BY DEF TypeOK, WriteChannelId
  <2>2. m \in Message /\ outgoing' \in Seq(Message)
    BY <1>2, <2>1, TailLog
  <2>. HIDE DEF m
  <2>3. p \in Part /\ p.part = "id" /\ p.msg = m
    BY <2>2 DEF Part
  <2>. HIDE DEF p
  <2>4. /\ wire' \in Seq(Part) /\ Len(wire') = Len(wire) + 1 /\ Len(wire) \in Nat
        /\ wire'[Len(wire')] = p /\ \A i \in 1..Len(wire) : wire'[i] = wire[i]
    BY <1>2, <2>1, <2>3, AppendLog
  <2>5. sending' \in Seq(Message) /\ Len(sending') = 1 /\ sending'[1] = m
    BY <1>2, <2>2
  <2>6. TypeOK'
    BY <1>0, <1>2, <2>2, <2>4, <2>5, SenderType
  <2>7. PartsInv'
    <3>1. Len(wire) % 2 = 0 /\ Len(wire') % 2 = 1
      <4>1. Len(wire) % 2 = 0
        BY <1>2, <2>1 DEF PartsInv
      <4>. QED BY <2>4, <4>1, Parity
    <3>2. \A i \in 1..Len(wire') : i \in 1..Len(wire) \/ i = Len(wire')
      BY <2>4
    <3>3. \A i \in 1..Len(wire') : wire'[i].part = (IF i % 2 = 1 THEN "id" ELSE "body")
      BY <2>3, <2>4, <3>1, <3>2 DEF PartsInv
    <3>4. ASSUME NEW i \in 1..Len(wire'), i % 2 = 0 PROVE wire'[i].msg = wire'[i - 1].msg
      <4>1. i \in 1..Len(wire) /\ i - 1 \in 1..Len(wire)
        BY <2>4, <3>1, <3>2, <3>4
      <4>. QED BY <2>4, <3>4, <4>1 DEF PartsInv
    <3>. QED BY <1>2, <2>3, <2>4, <2>5, <3>1, <3>3, <3>4 DEF PartsInv
  <2>. QED BY <1>0, <2>6, <2>7, OwnSame DEF receiverVars
<1>. QED BY <1>1, <1>2 DEF WriteChannelId

LEMMA WriteFrameKeeps ==
    ASSUME MuxInv, WriteFrame
    PROVE  MuxInv'
<1>. USE DEF MuxInv
<1>0. UNCHANGED <<sent, outbox, outTask, link, receiverVars>>
  BY DEF WriteFrame
<1>1. CASE EndSend("ended") /\ UNCHANGED wire
  BY <1>0, <1>1, EndSendKeeps DEF Over
<1>. DEFINE m == sending[1]
            p == [part |-> "body", msg |-> m]
<1>2. CASE /\ link = "up" /\ wire' = Append(wire, p) /\ sending' = <<>>
           /\ sendTask' = "recv" /\ outgoing' = outgoing
  <2>1. /\ outgoing \in Seq(Message) /\ wire \in Seq(Part) /\ sendTask = "body"
        /\ sending \in Seq(Message) /\ Len(sending) = 1
    BY DEF TypeOK, WriteFrame
  <2>2. m \in Message
    BY <2>1, OneLog
  <2>. HIDE DEF m
  <2>3. p \in Part /\ p.part = "body" /\ p.msg = m
    BY <2>2 DEF Part
  <2>. HIDE DEF p
  <2>4. /\ wire' \in Seq(Part) /\ Len(wire') = Len(wire) + 1 /\ Len(wire) \in Nat
        /\ wire'[Len(wire')] = p /\ \A i \in 1..Len(wire) : wire'[i] = wire[i]
    BY <1>2, <2>1, <2>3, AppendLog
  <2>5. TypeOK'
    BY <1>0, <1>2, <2>1, <2>4, NoLog, SenderType
  <2>6. PartsInv'
    <3>1. Len(wire) % 2 = 1 /\ Len(wire') % 2 = 0 /\ wire[Len(wire)].msg = m /\ Len(wire) >= 1
      <4>1. Len(wire) % 2 = 1 /\ wire[Len(wire)].msg = m
        BY <1>2, <2>1 DEF PartsInv, m
      <4>. QED BY <2>4, <4>1, Parity
    <3>2. \A i \in 1..Len(wire') : i \in 1..Len(wire) \/ i = Len(wire')
      BY <2>4
    <3>3. \A i \in 1..Len(wire') : wire'[i].part = (IF i % 2 = 1 THEN "id" ELSE "body")
      BY <2>3, <2>4, <3>1, <3>2 DEF PartsInv
    <3>4. ASSUME NEW i \in 1..Len(wire'), i % 2 = 0 PROVE wire'[i].msg = wire'[i - 1].msg
      <4>1. CASE i = Len(wire')
        BY <2>3, <2>4, <3>1, <4>1
      <4>2. CASE i \in 1..Len(wire)
        <5>1. i - 1 \in 1..Len(wire)
          BY <2>4, <3>4, <4>2
        <5>. QED BY <2>4, <3>4, <4>2, <5>1 DEF PartsInv
      <4>. QED BY <3>2, <4>1, <4>2
    <3>. QED BY <1>2, <3>1, <3>3, <3>4 DEF PartsInv
  <2>. QED BY <1>0, <2>5, <2>6, OwnSame DEF receiverVars
<1>. QED BY <1>1, <1>2 DEF WriteFrame

LEMMA LinkDownKeeps ==
    ASSUME MuxInv, LinkDown
    PROVE  MuxInv'
<1>. USE DEF MuxInv
<1>1. link' = "down" /\ UNCHANGED <<senderVars, receiverVars>>
  BY DEF LinkDown
<1>2. PICK n \in 0..Len(wire) : wire' = SubSeq(wire, 1, n)
  BY DEF LinkDown
<1>3. /\ wire' \in Seq(Part) /\ Len(wire') = n /\ Len(wire) \in Nat
      /\ \A i \in 1..n : i \in 1..Len(wire) /\ wire'[i] = wire[i]
  BY <1>2, PrefixLog DEF TypeOK
<1>4. TypeOK'
  BY <1>1, <1>3 DEF TypeOK, senderVars, receiverVars, Part, Message
<1>5. PartsInv'
  <2>1. \A i \in 1..Len(wire') : wire'[i].part = (IF i % 2 = 1 THEN "id" ELSE "body")
    BY <1>3 DEF PartsInv
  <2>2. ASSUME NEW i \in 1..Len(wire'), i % 2 = 0 PROVE wire'[i].msg = wire'[i - 1].msg
    <3>1. i \in 1..n /\ i - 1 \in 1..n
      BY <1>3, <2>2
    <3>. QED BY <1>3, <2>2, <3>1 DEF PartsInv
  <2>. QED BY <1>1, <2>1, <2>2 DEF PartsInv
<1>. QED BY <1>1, <1>4, <1>5, OwnSame DEF senderVars, receiverVars

-----------------------------------------------------------------------------
(***************************************************************************)
(* The receiving end                                                       *)
(***************************************************************************)
\* A step that opens, closes, registers or aborts something at this end.
LEMMA ReceiverKeeps ==
    ASSUME MuxInv, UNCHANGED <<senderVars, wire, link>>,
           recvTask' \in {"running"} \cup Over,
           registering' \subseteq Channels, registered' \subseteq Channels,
           inTask' \in [Channels -> {"none", "running"} \cup Over],
           reader' \in [Channels -> BOOLEAN],
           \/ incoming' = incoming
           \/ \E c \in Channels : incoming' = [incoming EXCEPT ![c] = <<>>],
           delivered' = delivered
    PROVE  MuxInv'
<1>. USE DEF MuxInv
<1>1. incoming \in [Channels -> Seq(Message)]
  BY DEF TypeOK
<1>2. incoming' \in [Channels -> Seq(Message)] /\ Owned(incoming')
  <2>1. CASE incoming' = incoming
    BY <1>1, <2>1 DEF OwnInv, Owned
  <2>2. ASSUME NEW c \in Channels, incoming' = [incoming EXCEPT ![c] = <<>>]
        PROVE  incoming' \in [Channels -> Seq(Message)] /\ Owned(incoming')
    BY <1>1, <2>2, OwnNone DEF OwnInv
  <2>. QED BY <2>1, <2>2
<1>3. TypeOK'
  BY <1>2 DEF TypeOK, senderVars, Part, Message
<1>4. PartsInv'
  BY PartsSame DEF senderVars
<1>5. OwnInv'
  BY <1>2 DEF OwnInv, Owned, senderVars
<1>. QED BY <1>3, <1>4, <1>5

LEMMA OpenCloseKeeps ==
    ASSUME MuxInv, NEW c \in Channels,
           OpenIn(c) \/ RegisterChannel(c) \/ UnregisterChannel(c) \/ IncomingDone(c)
              \/ AbortIn(c) \/ CloseReader(c)
    PROVE  MuxInv'
<1>1. /\ recvTask \in {"running"} \cup Over
      /\ registering \subseteq Channels /\ registered \subseteq Channels
      /\ inTask \in [Channels -> {"none", "running"} \cup Over]
      /\ reader \in [Channels -> BOOLEAN]
  BY DEF MuxInv, TypeOK
<1>2. CASE OpenIn(c) \/ RegisterChannel(c) \/ UnregisterChannel(c)
  BY <1>1, <1>2, ReceiverKeeps DEF OpenIn, RegisterChannel, UnregisterChannel
<1>3. CASE IncomingDone(c) \/ AbortIn(c)
  <2>1. inTask' \in [Channels -> {"none", "running"} \cup Over]
    BY <1>1, <1>3 DEF IncomingDone, AbortIn, EndIn, Over
  <2>. QED BY <1>1, <1>3, <2>1, ReceiverKeeps DEF IncomingDone, AbortIn, EndIn
<1>4. CASE CloseReader(c)
  BY <1>1, <1>4, ReceiverKeeps DEF CloseReader
<1>. QED BY <1>2, <1>3, <1>4

LEMMA RecvTaskEnds ==
    ASSUME MuxInv, ReceiveError \/ AbortReceive
    PROVE  MuxInv'
<1>1. /\ registering \subseteq Channels /\ registered \subseteq Channels
      /\ inTask \in [Channels -> {"none", "running"} \cup Over]
      /\ reader \in [Channels -> BOOLEAN]
  BY DEF MuxInv, TypeOK
<1>. QED BY <1>1, ReceiverKeeps DEF ReceiveError, AbortReceive, Over

LEMMA ReceiveKeeps ==
    ASSUME MuxInv, Receive
    PROVE  MuxInv'
<1>. USE DEF MuxInv
<1>. DEFINE c == wire[1].msg.ch
            m == wire[2].msg
<1>1. /\ Len(wire) >= 2 /\ wire' = Tail(Tail(wire))
      /\ UNCHANGED <<senderVars, link, recvTask, registering, registered, inTask, reader,
                     delivered>>
      /\ \/ incoming' = [incoming EXCEPT ![c] = Append(@, m)]
         \/ incoming' = incoming
  BY DEF Receive
<1>2. wire \in Seq(Part) /\ incoming \in [Channels -> Seq(Message)]
  BY DEF TypeOK
<1>3. /\ wire' \in Seq(Part) /\ Len(wire') = Len(wire) - 2 /\ Len(wire) \in Nat
      /\ \A i \in 1..Len(wire') : i + 2 \in 1..Len(wire) /\ wire'[i] = wire[i + 2]
  BY <1>1, <1>2, TailTwice
<1>4. wire[1] \in Part /\ wire[2] \in Part /\ 2 \in 1..Len(wire)
  BY <1>1, <1>2
<1>5. m \in Message /\ m.ch = c /\ c \in Channels
  <2>1. wire[2].msg = wire[1].msg
    BY <1>4 DEF PartsInv
  <2>. QED BY <1>4, <2>1 DEF Part, Message
<1>. HIDE DEF c, m
<1>6. incoming' \in [Channels -> Seq(Message)] /\ Owned(incoming')
  <2>1. Owned(incoming)
    BY DEF OwnInv
  <2>2. /\ [incoming EXCEPT ![c] = Append(incoming[c], m)] \in [Channels -> Seq(Message)]
        /\ Owned([incoming EXCEPT ![c] = Append(incoming[c], m)])
    BY <1>2, <1>5, <2>1, OwnAdded
  <2>3. CASE incoming' = [incoming EXCEPT ![c] = Append(@, m)]
    BY <2>2, <2>3
  <2>4. CASE incoming' = incoming
    BY <1>2, <2>1, <2>4 DEF Owned
  <2>. QED BY <1>1, <2>3, <2>4
<1>7. TypeOK'
  BY <1>1, <1>3, <1>6 DEF TypeOK, senderVars, Part, Message
<1>8. PartsInv'
  <2>1. \A i \in 1..Len(wire') : i % 2 = (i + 2) % 2
    OBVIOUS
  <2>2. \A i \in 1..Len(wire') : wire'[i].part = (IF i % 2 = 1 THEN "id" ELSE "body")
    BY <1>3, <2>1 DEF PartsInv
  <2>3. ASSUME NEW i \in 1..Len(wire'), i % 2 = 0 PROVE wire'[i].msg = wire'[i - 1].msg
    <3>1. i - 1 \in 1..Len(wire') /\ i - 1 + 2 = i + 2 - 1
      <4>1. i \in Nat /\ i >= 1
        OBVIOUS
      <4>2. i >= 2
        BY <2>3, <4>1, Parity
      <4>. QED BY <1>1, <1>3, <4>2
    <3>2. wire'[i] = wire[i + 2] /\ wire'[i - 1] = wire[i + 2 - 1] /\ i + 2 \in 1..Len(wire)
      BY <1>3, <3>1
    <3>. QED BY <2>1, <2>3, <3>2 DEF PartsInv
  <2>4. Len(wire') % 2 = Len(wire) % 2
    <3>. DEFINE n == Len(wire')
    <3>1. n \in Nat /\ Len(wire) = n + 2
      BY <1>1, <1>3
    <3>. HIDE DEF n
    <3>2. (n + 2) % 2 = n % 2
      BY <3>1, Parity
    <3>. QED BY <3>1, <3>2 DEF n
  <2>5. Len(wire) % 2 = 1 => Len(wire') >= 1 /\ wire'[Len(wire')] = wire[Len(wire)]
    <3>1. Len(wire) % 2 = 1 => Len(wire) >= 3
      BY <1>1, <1>3, Parity
    <3>2. Len(wire) >= 3 => Len(wire') \in 1..Len(wire') /\ Len(wire') + 2 = Len(wire)
      BY <1>3
    <3>. QED BY <1>3, <3>1, <3>2
  <2>. QED BY <1>1, <2>2, <2>3, <2>4, <2>5 DEF PartsInv, senderVars
<1>9. OwnInv'
  BY <1>1, <1>6 DEF OwnInv, Owned, senderVars
<1>. QED BY <1>7, <1>8, <1>9

LEMMA IncomingKeeps ==
    ASSUME MuxInv, NEW c \in Channels, Incoming(c)
    PROVE  MuxInv'
<1>. USE DEF MuxInv
<1>. DEFINE m == Head(incoming[c])
<1>1. /\ incoming[c] # <<>>
      /\ UNCHANGED <<senderVars, wire, link, recvTask, registering, registered, reader>>
  BY DEF Incoming
<1>2. /\ incoming \in [Channels -> Seq(Message)] /\ Owned(incoming)
      /\ delivered \in [Channels -> Seq(Message)] /\ Owned(delivered)
      /\ inTask \in [Channels -> {"none", "running"} \cup Over]
  BY DEF TypeOK, OwnInv
<1>3. /\ m \in Message /\ m.ch = c
      /\ [incoming EXCEPT ![c] = Tail(incoming[c])] \in [Channels -> Seq(Message)]
      /\ Owned([incoming EXCEPT ![c] = Tail(incoming[c])])
  BY <1>1, <1>2, OwnTail
<1>4. CASE EndIn(c, "ended") /\ delivered' = delivered
  <2>1. inTask' \in [Channels -> {"none", "running"} \cup Over]
    BY <1>2, <1>4 DEF EndIn, Over
  <2>2. incoming' = [incoming EXCEPT ![c] = <<>>]
    BY <1>4 DEF EndIn
  <2>. QED BY <1>1, <1>4, <2>1, <2>2, ReceiverKeeps DEF TypeOK
<1>. HIDE DEF m
<1>5. CASE /\ incoming' = [incoming EXCEPT ![c] = Tail(@)] /\ inTask' = inTask
           /\ delivered' = delivered \/ delivered' = [delivered EXCEPT ![c] = Append(@, m)]
  <2>1. incoming' \in [Channels -> Seq(Message)] /\ Owned(incoming')
    BY <1>3, <1>5
  <2>2. delivered' \in [Channels -> Seq(Message)] /\ Owned(delivered')
    <3>1. /\ [delivered EXCEPT ![c] = Append(delivered[c], m)] \in [Channels -> Seq(Message)]
          /\ Owned([delivered EXCEPT ![c] = Append(delivered[c], m)])
      BY <1>2, <1>3, OwnAdded
    <3>2. CASE delivered' = [delivered EXCEPT ![c] = Append(@, m)]
      BY <3>1, <3>2
    <3>3. CASE delivered' = delivered
      BY <1>2, <3>3 DEF Owned
    <3>. QED BY <1>5, <3>2, <3>3
  <2>3. TypeOK'
    BY <1>1, <1>5, <2>1, <2>2 DEF TypeOK, senderVars, Part, Message
  <2>4. PartsInv'
    BY <1>1, PartsSame DEF senderVars
  <2>5. OwnInv'
    BY <1>1, <2>1, <2>2 DEF OwnInv, Owned, senderVars
  <2>. QED BY <2>3, <2>4, <2>5
<1>. QED BY <1>4, <1>5 DEF Incoming, m

-----------------------------------------------------------------------------
(***************************************************************************)
(* The wire and the channels                                               *)
(***************************************************************************)
LEMMA MuxStart == Init => MuxInv
<1>. SUFFICES ASSUME Init PROVE MuxInv
  OBVIOUS
<1>1. /\ <<>> \in Seq(Message) /\ <<>> \in Seq(Part) /\ Len(<<>>) = 0 /\ DOMAIN <<>> = {}
  OBVIOUS
<1>2. TypeOK
  BY <1>1 DEF Init, TypeOK
<1>3. PartsInv
  BY <1>1 DEF Init, PartsInv
<1>4. OwnInv
  BY <1>1 DEF Init, OwnInv, Owned
<1>. QED BY <1>2, <1>3, <1>4 DEF MuxInv

LEMMA MuxStep == MuxInv /\ [Next]_vars => MuxInv'
<1>. SUFFICES ASSUME MuxInv, [Next]_vars PROVE MuxInv'
  OBVIOUS
<1>1. CASE SendTaskStep \/ AbortSend
  BY <1>1, WriteChannelIdKeeps, WriteFrameKeeps, EndSendKeeps DEF SendTaskStep, AbortSend, Over
<1>2. CASE RecvTaskStep \/ AbortReceive
  BY <1>2, ReceiveKeeps, RecvTaskEnds DEF RecvTaskStep
<1>3. ASSUME NEW c \in Channels, BridgeStep(c) \/ UserStep(c) PROVE MuxInv'
  BY <1>3, OutgoingKeeps, OpenCloseKeeps, IncomingKeeps, SendKeeps DEF BridgeStep, UserStep
<1>4. CASE UNCHANGED vars
  <2>1. TypeOK'
    BY <1>4 DEF vars, senderVars, receiverVars, MuxInv, TypeOK, Part, Message
  <2>. QED BY <1>4, <2>1, PartsSame, OwnSame DEF vars, senderVars, receiverVars, MuxInv
<1>. QED BY <1>1, <1>2, <1>3, <1>4, LinkDownKeeps DEF Next

\* The inductive invariant: how the parts on the wire pair up, with the place the send
\* task is at, and whose messages the queues hold.
THEOREM MuxInvariant == Spec => []MuxInv
BY MuxStart, MuxStep, PTL DEF Spec

\* Every variable of the multiplexed connection has the values the code can give it,
\* for any channels, messages and faults.
THEOREM MuxTypes == Spec => []TypeOK
<1>1. MuxInv => TypeOK
  BY DEF MuxInv
<1>. QED BY <1>1, MuxInvariant, PTL

\* Frames stay whole and messages with their channel, however many frames, aborts and
\* failures there are: no channel's user is ever handed a message of another.
THEOREM NothingForeign == Spec => []NoForeignMessages
<1>1. MuxInv => NoForeignMessages
  BY DEF MuxInv, PartsInv, OwnInv, Owned, NoForeignMessages
<1>. QED BY <1>1, MuxInvariant, PTL

-----------------------------------------------------------------------------
(***************************************************************************)
(* The order of what is under way: logs, queues per channel, parts         *)
(***************************************************************************)
LEMMA RisingAppend ==
    ASSUME NEW log \in Seq(Message), NEW m \in Message
    PROVE  /\ ToSet(Append(log, m)) = ToSet(log) \cup {m}
           /\ Rising(log) /\ Ahead(ToSet(log), {m}) => Rising(Append(log, m))
<1>. DEFINE new == Append(log, m)
<1>1. /\ Len(log) \in Nat /\ DOMAIN log = 1..Len(log) /\ DOMAIN new = 1..(Len(log) + 1)
      /\ new[Len(log) + 1] = m /\ \A i \in 1..Len(log) : new[i] = log[i]
  OBVIOUS
<1>. HIDE DEF new
<1>2. ToSet(new) = ToSet(log) \cup {m}
  <2>1. \A i \in DOMAIN new : new[i] \in ToSet(log) \cup {m}
    BY <1>1 DEF ToSet
  <2>2. \A i \in DOMAIN log : log[i] \in ToSet(new)
    BY <1>1 DEF ToSet
  <2>3. m \in ToSet(new)
    BY <1>1 DEF ToSet
  <2>. QED BY <2>1, <2>2, <2>3 DEF ToSet
<1>3. ASSUME Rising(log), Ahead(ToSet(log), {m}), NEW i \in DOMAIN new, NEW j \in DOMAIN new,
             i < j, new[i].ch = new[j].ch
      PROVE  new[i].num < new[j].num
  <2>1. i \in DOMAIN log /\ new[i] = log[i]
    BY <1>1, <1>3
  <2>2. CASE j \in DOMAIN log
    BY <1>1, <1>3, <2>1, <2>2 DEF Rising
  <2>3. CASE j = Len(log) + 1
    BY <1>1, <1>3, <2>1, <2>3 DEF Ahead, ToSet
  <2>. QED BY <1>1, <2>2, <2>3
<1>. QED BY <1>2, <1>3 DEF Rising, new

LEMMA RisingTail ==
    ASSUME NEW log \in Seq(Message), log # <<>>
    PROVE  /\ ToSet(log) = ToSet(Tail(log)) \cup {Head(log)}
           /\ Rising(log) => Rising(Tail(log)) /\ Ahead({Head(log)}, ToSet(Tail(log)))
<1>. DEFINE new == Tail(log)
            m == Head(log)
<1>1. /\ Len(log) \in Nat /\ DOMAIN log = 1..Len(log) /\ DOMAIN new = 1..(Len(log) - 1)
      /\ 1 \in DOMAIN log /\ log[1] = m
      /\ \A i \in DOMAIN new : i + 1 \in DOMAIN log /\ new[i] = log[i + 1]
      /\ \A i \in DOMAIN log : i = 1 \/ (i - 1 \in DOMAIN new /\ log[i] = new[i - 1])
  OBVIOUS
<1>. HIDE DEF new, m
<1>2. ToSet(log) = ToSet(new) \cup {m}
  <2>1. \A i \in DOMAIN log : log[i] \in ToSet(new) \cup {m}
    BY <1>1 DEF ToSet
  <2>2. \A i \in DOMAIN new : new[i] \in ToSet(log)
    BY <1>1 DEF ToSet
  <2>3. m \in ToSet(log)
    BY <1>1 DEF ToSet
  <2>. QED BY <2>1, <2>2, <2>3 DEF ToSet
<1>3. ASSUME Rising(log) PROVE Rising(new)
  <2>1. ASSUME NEW i \in DOMAIN new, NEW j \in DOMAIN new, i < j, new[i].ch = new[j].ch
        PROVE  new[i].num < new[j].num
    <3>1. i + 1 \in DOMAIN log /\ j + 1 \in DOMAIN log /\ i + 1 < j + 1
      BY <1>1, <2>1
    <3>. QED BY <1>1, <1>3, <2>1, <3>1 DEF Rising
  <2>. QED BY <2>1 DEF Rising
<1>4. ASSUME Rising(log), NEW i \in DOMAIN new, new[i].ch = m.ch PROVE m.num < new[i].num
  <2>1. i + 1 \in DOMAIN log /\ 1 < i + 1
    BY <1>1
  <2>. QED BY <1>1, <1>4, <2>1 DEF Rising
<1>. QED BY <1>2, <1>3, <1>4 DEF Ahead, ToSet, new, m

LEMMA RisingNone == Rising(<<>>) /\ ToSet(<<>>) = {}
BY DEF Rising, ToSet

\* The queues of all channels, one of which changes.
LEMMA PoolChanged ==
    ASSUME NEW logs \in [Channels -> Seq(Message)], NEW c \in Channels, NEW log \in Seq(Message)
    PROVE  /\ Pool([logs EXCEPT ![c] = log])
                 = ToSet(log) \cup UNION {ToSet(logs[d]) : d \in Channels \ {c}}
           /\ Pool(logs) = ToSet(logs[c]) \cup UNION {ToSet(logs[d]) : d \in Channels \ {c}}
           /\ Rising(log) /\ (\A d \in Channels : Rising(logs[d]))
                 => \A d \in Channels : Rising([logs EXCEPT ![c] = log][d])
<1>. DEFINE new == [logs EXCEPT ![c] = log]
<1>1. new[c] = log /\ \A d \in Channels \ {c} : new[d] = logs[d]
  OBVIOUS
<1>. HIDE DEF new
<1>2. Pool(new) = ToSet(log) \cup UNION {ToSet(logs[d]) : d \in Channels \ {c}}
  BY <1>1 DEF Pool
<1>3. Pool(logs) = ToSet(logs[c]) \cup UNION {ToSet(logs[d]) : d \in Channels \ {c}}
  BY DEF Pool
<1>4. Rising(log) /\ (\A d \in Channels : Rising(logs[d])) => \A d \in Channels : Rising(new[d])
  BY <1>1
<1>. QED BY <1>2, <1>3, <1>4 DEF new

LEMMA PoolAppend ==
    ASSUME NEW logs \in [Channels -> Seq(Message)], NEW c \in Channels, NEW m \in Message
    PROVE  /\ Pool([logs EXCEPT ![c] = Append(logs[c], m)]) = Pool(logs) \cup {m}
           /\ (\A d \in Channels : Rising(logs[d])) /\ Ahead(Pool(logs), {m})
                 => \A d \in Channels : Rising([logs EXCEPT ![c] = Append(logs[c], m)][d])
<1>. DEFINE log == Append(logs[c], m)
<1>1. log \in Seq(Message) /\ ToSet(log) = ToSet(logs[c]) \cup {m}
  BY AppendLog, RisingAppend
<1>2. ToSet(logs[c]) \subseteq Pool(logs)
  BY DEF Pool
<1>3. (\A d \in Channels : Rising(logs[d])) /\ Ahead(Pool(logs), {m}) => Rising(log)
  <2>1. Ahead(Pool(logs), {m}) => Ahead(ToSet(logs[c]), {m})
    BY <1>2 DEF Ahead
  <2>. QED BY <2>1, RisingAppend
<1>. HIDE DEF log
<1>. DEFINE rest == UNION {ToSet(logs[d]) : d \in Channels \ {c}}
            new == [logs EXCEPT ![c] = log]
<1>4. /\ Pool(new) = ToSet(log) \cup rest /\ Pool(logs) = ToSet(logs[c]) \cup rest
      /\ Rising(log) /\ (\A d \in Channels : Rising(logs[d])) => \A d \in Channels : Rising(new[d])
  BY <1>1, PoolChanged
<1>. HIDE DEF rest, new
<1>5. Pool(new) = Pool(logs) \cup {m}
  BY <1>1, <1>4
<1>6. (\A d \in Channels : Rising(logs[d])) /\ Ahead(Pool(logs), {m})
         => \A d \in Channels : Rising(new[d])
  BY <1>3, <1>4
<1>. QED BY <1>5, <1>6 DEF log, new

LEMMA PoolTail ==
    ASSUME NEW logs \in [Channels -> Seq(Message)], Owned(logs), NEW c \in Channels,
           logs[c] # <<>>
    PROVE  LET new == [logs EXCEPT ![c] = Tail(logs[c])]
               m == Head(logs[c])
           IN  /\ Pool(logs) = Pool(new) \cup {m}
               /\ (\A d \in Channels : Rising(logs[d])) =>
                     /\ \A d \in Channels : Rising(new[d])
                     /\ Ahead({m}, Pool(new))
<1>. DEFINE log == Tail(logs[c])
            m == Head(logs[c])
            new == [logs EXCEPT ![c] = log]
            rest == UNION {ToSet(logs[d]) : d \in Channels \ {c}}
<1>1. /\ log \in Seq(Message) /\ ToSet(logs[c]) = ToSet(log) \cup {m}
      /\ m.ch = c
      /\ Rising(logs[c]) => Rising(log) /\ Ahead({m}, ToSet(log))
  BY TailLog, RisingTail, OwnTail
<1>. HIDE DEF log, m
<1>2. /\ Pool(new) = ToSet(log) \cup rest /\ Pool(logs) = ToSet(logs[c]) \cup rest
      /\ Rising(log) /\ (\A d \in Channels : Rising(logs[d])) => \A d \in Channels : Rising(new[d])
  BY <1>1, PoolChanged
<1>3. \A x \in rest : x.ch # c
  <2>1. ASSUME NEW d \in Channels \ {c}, NEW x \in ToSet(logs[d]) PROVE x.ch # c
    BY <2>1 DEF Owned, ToSet
  <2>. QED BY <2>1
<1>. HIDE DEF rest, new
<1>4. Ahead({m}, ToSet(log)) => Ahead({m}, Pool(new))
  BY <1>1, <1>2, <1>3 DEF Ahead
<1>. QED BY <1>1, <1>2, <1>4 DEF log, m, new

LEMMA PoolNone ==
    ASSUME NEW logs \in [Channels -> Seq(Message)], NEW c \in Channels
    PROVE  /\ Pool([logs EXCEPT ![c] = <<>>]) \subseteq Pool(logs)
           /\ (\A d \in Channels : Rising(logs[d]))
                 => \A d \in Channels : Rising([logs EXCEPT ![c] = <<>>][d])
<1>. DEFINE rest == UNION {ToSet(logs[d]) : d \in Channels \ {c}}
            new == [logs EXCEPT ![c] = <<>>]
<1>1. <<>> \in Seq(Message)
  OBVIOUS
<1>2. /\ Pool(new) = ToSet(<<>>) \cup rest /\ Pool(logs) = ToSet(logs[c]) \cup rest
      /\ Rising(<<>>) /\ (\A d \in Channels : Rising(logs[d])) => \A d \in Channels : Rising(new[d])
  BY <1>1, PoolChanged
<1>. HIDE DEF rest, new
<1>3. Pool(new) \subseteq Pool(logs)
  BY <1>2, RisingNone
<1>. QED BY <1>2, <1>3, RisingNone DEF new

\* The parts on the wire.
LEMMA PartAdded ==
    ASSUME NEW log \in Seq(Part), NEW p \in Part
    PROVE  /\ p.part = "id" => /\ Bodies(Append(log, p)) = Bodies(log)
                               /\ RisingParts(log) => RisingParts(Append(log, p))
           /\ p.part = "body" => /\ Bodies(Append(log, p)) = Bodies(log) \cup {p.msg}
                                 /\ RisingParts(log) /\ Ahead(Bodies(log), {p.msg})
                                       => RisingParts(Append(log, p))
<1>. DEFINE new == Append(log, p)
<1>1. /\ Len(log) \in Nat /\ DOMAIN log = 1..Len(log) /\ DOMAIN new = 1..(Len(log) + 1)
      /\ new[Len(log) + 1] = p /\ \A i \in 1..Len(log) : new[i] = log[i]
  OBVIOUS
<1>. HIDE DEF new
<1>2. Bodies(new) = Bodies(log) \cup (IF p.part = "body" THEN {p.msg} ELSE {})
  <2>1. ASSUME NEW i \in DOMAIN new, new[i].part = "body"
        PROVE  new[i].msg \in Bodies(log) \cup (IF p.part = "body" THEN {p.msg} ELSE {})
    BY <1>1, <2>1 DEF Bodies
  <2>2. ASSUME NEW i \in DOMAIN log, log[i].part = "body" PROVE log[i].msg \in Bodies(new)
    BY <1>1, <2>2 DEF Bodies
  <2>3. ASSUME p.part = "body" PROVE p.msg \in Bodies(new)
    BY <1>1, <2>3 DEF Bodies
  <2>. QED BY <2>1, <2>2, <2>3 DEF Bodies
<1>3. ASSUME RisingParts(log), p.part = "body" => Ahead(Bodies(log), {p.msg}),
             NEW i \in DOMAIN new, NEW j \in DOMAIN new,
             i < j, new[i].part = "body", new[j].part = "body", new[i].msg.ch = new[j].msg.ch
      PROVE  new[i].msg.num < new[j].msg.num
  <2>1. i \in DOMAIN log /\ new[i] = log[i]
    BY <1>1, <1>3
  <2>2. CASE j \in DOMAIN log
    BY <1>1, <1>3, <2>1, <2>2 DEF RisingParts
  <2>3. CASE j = Len(log) + 1
    <3>1. new[i].msg \in Bodies(log) /\ new[j] = p
      BY <1>1, <1>3, <2>1, <2>3 DEF Bodies
    <3>. QED BY <1>3, <3>1 DEF Ahead
  <2>. QED BY <1>1, <2>2, <2>3
<1>4. RisingParts(log) /\ (p.part = "body" => Ahead(Bodies(log), {p.msg})) => RisingParts(new)
  BY <1>3 DEF RisingParts
<1>. QED BY <1>2, <1>4 DEF new

\* A later part of the wire, and an earlier one.
LEMMA PartsTaken ==
    ASSUME NEW log \in Seq(Part), Len(log) >= 2, log[1].part = "id", log[2].part = "body"
    PROVE  LET new == Tail(Tail(log))
           IN  /\ Bodies(log) = Bodies(new) \cup {log[2].msg}
               /\ RisingParts(log) => RisingParts(new) /\ Ahead({log[2].msg}, Bodies(new))
<1>. DEFINE new == Tail(Tail(log))
            m == log[2].msg
<1>1. /\ Len(log) \in Nat /\ DOMAIN log = 1..Len(log) /\ DOMAIN new = 1..(Len(log) - 2)
      /\ \A i \in DOMAIN new : new[i] = log[i + 2]
  <2>1. /\ new \in Seq(Part) /\ Len(new) = Len(log) - 2 /\ Len(log) \in Nat
        /\ \A i \in 1..(Len(log) - 2) : i + 2 \in 1..Len(log) /\ new[i] = log[i + 2]
    BY TailTwice
  <2>. HIDE DEF new
  <2>. QED BY <2>1
<1>2. \A i \in DOMAIN new : i + 2 \in DOMAIN log
  BY <1>1
<1>3. \A i \in DOMAIN log : i \in {1, 2} \/ (i - 2 \in DOMAIN new /\ log[i] = new[i - 2])
  BY <1>1
<1>. HIDE DEF new
<1>4. 2 \in DOMAIN log
  BY <1>1
<1>5. Bodies(log) = Bodies(new) \cup {m}
  <2>1. ASSUME NEW i \in DOMAIN log, log[i].part = "body"
        PROVE  log[i].msg \in Bodies(new) \cup {m}
    BY <1>3, <2>1 DEF Bodies
  <2>2. ASSUME NEW i \in DOMAIN new, new[i].part = "body" PROVE new[i].msg \in Bodies(log)
    BY <1>1, <1>2, <2>2 DEF Bodies
  <2>3. m \in Bodies(log)
    BY <1>4 DEF Bodies
  <2>. QED BY <2>1, <2>2, <2>3 DEF Bodies
<1>6. ASSUME RisingParts(log) PROVE RisingParts(new)
  <2>1. ASSUME NEW i \in DOMAIN new, NEW j \in DOMAIN new, i < j
        PROVE  i + 2 \in DOMAIN log /\ j + 2 \in DOMAIN log /\ i + 2 < j + 2
    BY <1>1, <1>2, <2>1
  <2>. QED BY <1>1, <1>6, <2>1 DEF RisingParts
<1>7. ASSUME RisingParts(log), NEW x \in Bodies(new), x.ch = m.ch PROVE m.num < x.num
  <2>1. PICK i \in DOMAIN new : new[i].part = "body" /\ x = new[i].msg
    BY <1>7 DEF Bodies
  <2>2. i + 2 \in DOMAIN log /\ log[i + 2] = new[i] /\ 2 < i + 2
    BY <1>1, <1>2
  <2>. QED BY <1>4, <1>7, <2>1, <2>2 DEF RisingParts
<1>. QED BY <1>5, <1>6, <1>7 DEF Ahead, new

LEMMA PartsCut ==
    ASSUME NEW log \in Seq(Part), NEW n \in 0..Len(log)
    PROVE  LET new == SubSeq(log, 1, n)
           IN  /\ Bodies(new) \subseteq Bodies(log)
               /\ RisingParts(log) =>
                     /\ RisingParts(new)
                     /\ \A x \in Bodies(new), y \in Bodies(log) \ Bodies(new) :
                           x.ch = y.ch => x.num < y.num
<1>. DEFINE new == SubSeq(log, 1, n)
<1>1. /\ Len(log) \in Nat /\ DOMAIN log = 1..Len(log) /\ DOMAIN new = 1..n
      /\ \A i \in 1..n : i \in 1..Len(log) /\ new[i] = log[i]
  OBVIOUS
<1>. HIDE DEF new
<1>2. Bodies(new) \subseteq Bodies(log)
  BY <1>1 DEF Bodies
<1>3. RisingParts(log) => RisingParts(new)
  BY <1>1 DEF RisingParts
<1>4. ASSUME RisingParts(log), NEW x \in Bodies(new), NEW y \in Bodies(log) \ Bodies(new),
             x.ch = y.ch
      PROVE  x.num < y.num
  <2>1. PICK i \in DOMAIN new : new[i].part = "body" /\ x = new[i].msg
    BY <1>4 DEF Bodies
  <2>2. PICK j \in DOMAIN log : log[j].part = "body" /\ y = log[j].msg
    BY <1>4 DEF Bodies
  <2>3. j \notin 1..n
    BY <1>1, <1>4, <2>2 DEF Bodies
  <2>4. i < j /\ i \in DOMAIN log /\ log[i] = new[i]
    BY <1>1, <2>1, <2>2, <2>3
  <2>. QED BY <1>4, <2>1, <2>2, <2>4 DEF RisingParts
<1>. QED BY <1>2, <1>3, <1>4 DEF new

-----------------------------------------------------------------------------
(***************************************************************************)
(* What a step does to the stages                                          *)
(***************************************************************************)
Shrinks(old, new) == \A i \in 1..6 : new[i] \subseteq old[i]

\* Message m, the first of its channel at stage k, is dropped there.
Drops(old, new, k, m) ==
    /\ old[k] = new[k] \cup {m} /\ Ahead({m}, new[k])
    /\ \A i \in 1..6 : i # k => new[i] = old[i]

\* Message m, the first of its channel at stage k + 1, goes on to stage k.
Moves(old, new, k, m) ==
    /\ old[k + 1] = new[k + 1] \cup {m} /\ Ahead({m}, new[k + 1])
    /\ new[k] = old[k] \cup {m}
    /\ \A i \in 1..6 : i # k /\ i # k + 1 => new[i] = old[i]

\* A message that is sent is the last of its channel.
Enters(old, new, m) ==
    /\ new[6] = old[6] \cup {m} /\ \A i \in 1..5 : new[i] = old[i]
    /\ \A i \in 1..6 : Ahead(old[i], {m})

LEMMA DropsShrink ==
    ASSUME NEW old, NEW new, NEW k \in 1..6, NEW m, Drops(old, new, k, m)
    PROVE  Shrinks(old, new)
BY DEF Drops, Shrinks

LEMMA TurnKept ==
    ASSUME NEW old, NEW new, InTurn(old),
           \/ Shrinks(old, new)
           \/ \E k \in 1..5 : \E m : Moves(old, new, k, m)
           \/ \E m : Enters(old, new, m)
    PROVE  InTurn(new)
<1>1. CASE Shrinks(old, new)
  BY <1>1 DEF InTurn, Ahead, Shrinks
<1>2. ASSUME NEW k \in 1..5, NEW m, Moves(old, new, k, m) PROVE InTurn(new)
  <2>0. /\ m \in old[k + 1] /\ new[k] = old[k] \cup {m} /\ Ahead({m}, new[k + 1])
        /\ \A i \in 1..6 : i # k => new[i] \subseteq old[i]
    BY <1>2 DEF Moves
  <2>1. ASSUME NEW i \in 1..6, NEW j \in 1..6, i < j, NEW x \in new[i], NEW y \in new[j],
               x.ch = y.ch
        PROVE  x.num < y.num
    <3>0. k + 1 \in 1..6 /\ k \in 1..6 /\ k < k + 1
      OBVIOUS
    <3>1. CASE x \in old[i] /\ y \in old[j]
      BY <2>1, <3>1 DEF InTurn, Ahead
    <3>2. CASE i = k /\ x = m
      <4>1. y \in old[j]
        BY <2>0, <2>1, <3>2
      <4>2. CASE j = k + 1
        BY <2>0, <2>1, <3>2, <4>2 DEF Ahead
      <4>3. CASE j # k + 1
        <5>1. k + 1 < j
          BY <2>1, <3>2, <4>3
        <5>. QED BY <2>0, <2>1, <3>0, <3>2, <4>1, <5>1 DEF InTurn, Ahead
      <4>. QED BY <4>2, <4>3
    <3>3. CASE j = k /\ y = m
      <4>1. x \in old[i] /\ i < k + 1
        BY <2>0, <2>1, <3>3
      <4>. QED BY <2>0, <2>1, <3>0, <3>3, <4>1 DEF InTurn, Ahead
    <3>. QED BY <2>0, <2>1, <3>1, <3>2, <3>3
  <2>. QED BY <2>1 DEF InTurn, Ahead
<1>3. ASSUME NEW m, Enters(old, new, m) PROVE InTurn(new)
  <2>1. ASSUME NEW i \in 1..6, NEW j \in 1..6, i < j, NEW x \in new[i], NEW y \in new[j],
               x.ch = y.ch
        PROVE  x.num < y.num
    <3>1. x \in old[i]
      BY <1>3, <2>1 DEF Enters
    <3>2. CASE y \in old[j]
      BY <2>1, <3>1, <3>2 DEF InTurn, Ahead
    <3>3. CASE y = m
      BY <1>3, <2>1, <3>1, <3>3 DEF Enters, Ahead
    <3>. QED BY <1>3, <2>1, <3>2, <3>3 DEF Enters
  <2>. QED BY <2>1 DEF InTurn, Ahead
<1>. QED BY <1>1, <1>2, <1>3

LEMMA StageMessages ==
    ASSUME TypeOK
    PROVE  \A i \in 1..6 : Stages[i] \subseteq Message
<1>1. ASSUME NEW logs \in [Channels -> Seq(Message)] PROVE Pool(logs) \subseteq Message
  <2>1. ASSUME NEW c \in Channels PROVE ToSet(logs[c]) \subseteq Message
    <3>1. logs[c] \in Seq(Message)
      OBVIOUS
    <3>. QED BY <3>1 DEF ToSet
  <2>. QED BY <2>1 DEF Pool
<1>2. Pool(delivered) \subseteq Message /\ Pool(incoming) \subseteq Message
      /\ Pool(outbox) \subseteq Message
  BY <1>1 DEF TypeOK
<1>3. ToSet(sending) \subseteq Message /\ ToSet(outgoing) \subseteq Message
  <2>1. sending \in Seq(Message) /\ outgoing \in Seq(Message)
    BY DEF TypeOK
  <2>. QED BY <2>1 DEF ToSet
<1>4. Bodies(wire) \subseteq Message
  <2>1. wire \in Seq(Part)
    BY DEF TypeOK
  <2>2. ASSUME NEW i \in DOMAIN wire PROVE wire[i].msg \in Message
    <3>1. wire[i] \in Part
      BY <2>1
    <3>. QED BY <3>1 DEF Part
  <2>. QED BY <2>2 DEF Bodies
<1>. QED BY <1>2, <1>3, <1>4 DEF Stages

\* The stages by name.
LEMMA StageNames ==
    /\ Stages[1] = Pool(delivered) /\ Stages[2] = Pool(incoming) /\ Stages[3] = Bodies(wire)
    /\ Stages[4] = ToSet(sending) /\ Stages[5] = ToSet(outgoing) /\ Stages[6] = Pool(outbox)
    /\ Stages'[1] = Pool(delivered') /\ Stages'[2] = Pool(incoming')
    /\ Stages'[3] = Bodies(wire') /\ Stages'[4] = ToSet(sending')
    /\ Stages'[5] = ToSet(outgoing') /\ Stages'[6] = Pool(outbox')
    /\ \A i \in 1..6 : i = 1 \/ i = 2 \/ i = 3 \/ i = 4 \/ i = 5 \/ i = 6
BY DEF Stages, Pool, Bodies

RisingAll ==
    /\ \A c \in Channels : Rising(delivered[c]) /\ Rising(incoming[c]) /\ Rising(outbox[c])
    /\ Rising(outgoing) /\ RisingParts(wire)

LEMMA SendMoves ==
    ASSUME StreamInv, NEW c \in Channels, NEW k \in Kinds[c], Send(c, k)
    PROVE  /\ RisingAll'
           /\ \E m \in Message : Enters(Stages, Stages', m) /\ m.num = sent[c] + 1 /\ m.ch = c
<1>. DEFINE m == [ch |-> c, num |-> sent[c] + 1, kind |-> k]
<1>1. /\ outbox' = [outbox EXCEPT ![c] = Append(@, m)]
      /\ UNCHANGED <<outgoing, sending, wire, incoming, delivered>>
  BY DEF Send, receiverVars
<1>2. m \in Message /\ m.num = sent[c] + 1 /\ m.ch = c
  <2>1. k \in AllKinds
    BY KindsAssumption
  <2>2. sent[c] + 1 \in Nat \ {0}
    <3>1. sent[c] \in Nat
      BY DEF StreamInv, MuxInv, TypeOK
    <3>. QED BY <3>1
  <2>. QED BY <2>1, <2>2 DEF Message
<1>. HIDE DEF m
<1>3. \A i \in 1..6 : Ahead(Stages[i], {m})
  <2>1. ASSUME NEW i \in 1..6, NEW x \in Stages[i], x.ch = c PROVE x.num < m.num
    <3>1. x.num <= sent[c]
      BY <2>1 DEF StreamInv, SentInv
    <3>2. x.num \in Nat /\ sent[c] \in Nat
      BY <2>1, StageMessages DEF StreamInv, MuxInv, TypeOK, Message
    <3>. QED BY <1>2, <3>1, <3>2
  <2>. QED BY <1>2, <2>1 DEF Ahead
<1>4. outbox \in [Channels -> Seq(Message)]
  BY DEF StreamInv, MuxInv, TypeOK
<1>5. Ahead(Pool(outbox), {m})
  <2>1. 6 \in 1..6
    OBVIOUS
  <2>. QED BY <1>3, <2>1, StageNames
<1>6. /\ Pool(outbox') = Pool(outbox) \cup {m}
      /\ \A d \in Channels : Rising(outbox'[d])
  BY <1>1, <1>2, <1>4, <1>5, PoolAppend DEF StreamInv, OrderInv
<1>7. RisingAll'
  BY <1>1, <1>6 DEF RisingAll, StreamInv, OrderInv
<1>8. Enters(Stages, Stages', m)
  BY <1>1, <1>3, <1>6, StageNames DEF Enters
<1>. QED BY <1>2, <1>7, <1>8

LEMMA OutgoingMoves ==
    ASSUME StreamInv, NEW c \in Channels, Outgoing(c)
    PROVE  /\ RisingAll'
           /\ \/ /\ sendTask \in Over /\ EndOut(c, "ended") /\ UNCHANGED outgoing
                 /\ Shrinks(Stages, Stages')
              \/ /\ Drops(Stages, Stages', 6, Head(outbox[c])) /\ UNCHANGED outTask
                 /\ Head(outbox[c]).kind = "unserializable"
              \/ /\ Moves(Stages, Stages', 5, Head(outbox[c])) /\ UNCHANGED outTask
                 /\ Head(outbox[c]).kind # "unserializable"
<1>. DEFINE m == Head(outbox[c])
<1>0. /\ outbox \in [Channels -> Seq(Message)] /\ Owned(outbox) /\ outbox[c] # <<>>
      /\ outgoing \in Seq(Message) /\ UNCHANGED <<sending, wire, incoming, delivered>>
  BY DEF StreamInv, MuxInv, TypeOK, OwnInv, Outgoing, receiverVars
<1>1. CASE sendTask \in Over /\ EndOut(c, "ended") /\ UNCHANGED outgoing
  <2>1. Pool(outbox') \subseteq Pool(outbox) /\ \A d \in Channels : Rising(outbox'[d])
    BY <1>0, <1>1, PoolNone DEF EndOut, StreamInv, OrderInv
  <2>2. RisingAll'
    BY <1>0, <1>1, <2>1 DEF RisingAll, StreamInv, OrderInv
  <2>3. Shrinks(Stages, Stages')
    BY <1>0, <1>1, <2>1, StageNames DEF Shrinks
  <2>. QED BY <1>1, <2>2, <2>3
<1>2. ASSUME outbox' = [outbox EXCEPT ![c] = Tail(@)]
      PROVE  /\ Pool(outbox) = Pool(outbox') \cup {m}
             /\ \A d \in Channels : Rising(outbox'[d])
             /\ Ahead({m}, Pool(outbox')) /\ m \in Message
  BY <1>0, <1>2, PoolTail, OwnTail DEF StreamInv, OrderInv
<1>. HIDE DEF m
<1>3. CASE /\ outbox' = [outbox EXCEPT ![c] = Tail(@)] /\ UNCHANGED <<outTask, outgoing>>
           /\ m.kind = "unserializable"
  <2>1. RisingAll'
    BY <1>0, <1>2, <1>3 DEF RisingAll, StreamInv, OrderInv
  <2>2. Drops(Stages, Stages', 6, m)
    BY <1>0, <1>2, <1>3, StageNames DEF Drops
  <2>. QED BY <1>3, <2>1, <2>2 DEF m
<1>4. CASE /\ outbox' = [outbox EXCEPT ![c] = Tail(@)] /\ outgoing' = Append(outgoing, m)
           /\ m.kind # "unserializable" /\ UNCHANGED outTask
  <2>1. Ahead(ToSet(outgoing), {m})
    <3>1. Ahead(Stages[5], Stages[6])
      BY DEF StreamInv, OrderInv, InTurn
    <3>. QED BY <1>2, <1>4, <3>1, StageNames DEF Ahead
  <2>2. ToSet(outgoing') = ToSet(outgoing) \cup {m} /\ Rising(outgoing')
    BY <1>0, <1>2, <1>4, <2>1, RisingAppend DEF StreamInv, OrderInv
  <2>3. RisingAll'
    BY <1>0, <1>2, <1>4, <2>2 DEF RisingAll, StreamInv, OrderInv
  <2>4. Moves(Stages, Stages', 5, m)
    BY <1>0, <1>2, <1>4, <2>2, StageNames DEF Moves
  <2>. QED BY <1>4, <2>3, <2>4 DEF m
<1>. QED BY <1>1, <1>3, <1>4 DEF Outgoing, m

\* The end of the send task.
LEMMA EndSendShrinks ==
    ASSUME StreamInv, NEW how, EndSend(how), UNCHANGED <<outbox, wire, incoming, delivered>>
    PROVE  RisingAll' /\ Shrinks(Stages, Stages')
<1>1. sending' = <<>> /\ outgoing' = <<>>
  BY DEF EndSend
<1>2. RisingAll'
  BY <1>1, RisingNone DEF RisingAll, StreamInv, OrderInv
<1>3. Shrinks(Stages, Stages')
  BY <1>1, RisingNone, StageNames DEF Shrinks
<1>. QED BY <1>2, <1>3

LEMMA WriteChannelIdMoves ==
    ASSUME StreamInv, WriteChannelId
    PROVE  /\ RisingAll'
           /\ \/ EndSend("ended") /\ UNCHANGED wire /\ Shrinks(Stages, Stages')
              \/ sendTask' = "body" /\ Moves(Stages, Stages', 4, Head(outgoing))
<1>. DEFINE m == Head(outgoing)
            p == [part |-> "id", msg |-> m]
<1>0. /\ outgoing \in Seq(Message) /\ outgoing # <<>> /\ wire \in Seq(Part)
      /\ sending \in Seq(Message) /\ Len(sending) = 0
      /\ UNCHANGED <<outbox, incoming, delivered>>
  BY DEF StreamInv, MuxInv, TypeOK, WriteChannelId, receiverVars
<1>1. CASE EndSend("ended") /\ UNCHANGED wire
  BY <1>0, <1>1, EndSendShrinks
<1>2. CASE /\ wire' = Append(wire, p) /\ sending' = <<m>> /\ outgoing' = Tail(outgoing)
           /\ sendTask' = "body"
  <2>1. /\ m \in Message /\ ToSet(outgoing) = ToSet(outgoing') \cup {m}
        /\ Rising(outgoing') /\ Ahead({m}, ToSet(outgoing'))
    BY <1>0, <1>2, TailLog, RisingTail DEF StreamInv, OrderInv
  <2>2. p \in Part /\ p.part = "id"
    BY <2>1 DEF Part
  <2>. HIDE DEF p
  <2>3. Bodies(wire') = Bodies(wire) /\ RisingParts(wire')
    BY <1>0, <1>2, <2>2, PartAdded DEF StreamInv, OrderInv
  <2>. HIDE DEF m
  <2>4. ToSet(sending') = ToSet(sending) \cup {m}
    <3>1. sending = <<>> /\ DOMAIN <<m>> = {1} /\ <<m>>[1] = m
      BY <1>0
    <3>. QED BY <1>2, <3>1 DEF ToSet
  <2>5. RisingAll'
    BY <1>0, <2>1, <2>3 DEF RisingAll, StreamInv, OrderInv
  <2>6. Moves(Stages, Stages', 4, m)
    BY <1>0, <2>1, <2>3, <2>4, StageNames DEF Moves
  <2>. QED BY <1>2, <2>5, <2>6 DEF m
<1>. QED BY <1>1, <1>2 DEF WriteChannelId

LEMMA WriteFrameMoves ==
    ASSUME StreamInv, WriteFrame
    PROVE  /\ RisingAll'
           /\ \/ EndSend("ended") /\ UNCHANGED wire /\ Shrinks(Stages, Stages')
              \/ /\ sendTask' = "recv" /\ Moves(Stages, Stages', 3, sending[1])
                 /\ sending[1].kind # "oversized"
                 /\ sending[1] \in Message
<1>. DEFINE m == sending[1]
            p == [part |-> "body", msg |-> m]
<1>0. /\ wire \in Seq(Part) /\ sending \in Seq(Message) /\ Len(sending) = 1
      /\ UNCHANGED <<outbox, incoming, delivered>>
  BY DEF StreamInv, MuxInv, TypeOK, WriteFrame, receiverVars
<1>1. CASE EndSend("ended") /\ UNCHANGED wire
  BY <1>0, <1>1, EndSendShrinks
<1>2. CASE /\ wire' = Append(wire, p) /\ sending' = <<>> /\ outgoing' = outgoing
           /\ m.kind # "oversized" /\ sendTask' = "recv"
  <2>1. m \in Message /\ ToSet(sending) = {m}
    <3>1. DOMAIN sending = {1}
      BY <1>0
    <3>. QED BY <1>0, <3>1, OneLog DEF ToSet
  <2>2. p \in Part /\ p.part = "body" /\ p.msg = m
    BY <2>1 DEF Part
  <2>. HIDE DEF p, m
  <2>3. Ahead(Bodies(wire), {m})
    <3>1. Ahead(Stages[3], Stages[4])
      BY DEF StreamInv, OrderInv, InTurn
    <3>. QED BY <2>1, <3>1, StageNames
  <2>4. Bodies(wire') = Bodies(wire) \cup {m} /\ RisingParts(wire')
    BY <1>0, <1>2, <2>2, <2>3, PartAdded DEF StreamInv, OrderInv
  <2>5. ToSet(sending') = {}
    BY <1>2, RisingNone
  <2>6. RisingAll'
    BY <1>0, <1>2, <2>4 DEF RisingAll, StreamInv, OrderInv
  <2>7. Moves(Stages, Stages', 3, m)
    BY <1>0, <1>2, <2>1, <2>4, <2>5, StageNames DEF Moves, Ahead
  <2>. QED BY <1>2, <2>1, <2>6, <2>7 DEF m
<1>. QED BY <1>1, <1>2 DEF WriteFrame

LEMMA ReceiveMoves ==
    ASSUME StreamInv, Receive
    PROVE  LET m == wire[2].msg
           IN  /\ RisingAll' /\ m \in Message
               /\ \/ /\ m.ch \notin registered \/ inTask[m.ch] # "running"
                     /\ Drops(Stages, Stages', 3, m)
                  \/ /\ m.ch \in registered /\ inTask[m.ch] = "running"
                     /\ Moves(Stages, Stages', 2, m)
<1>. DEFINE c == wire[1].msg.ch
            m == wire[2].msg
<1>0. /\ wire \in Seq(Part) /\ Len(wire) >= 2 /\ wire' = Tail(Tail(wire))
      /\ incoming \in [Channels -> Seq(Message)]
      /\ UNCHANGED <<outbox, outgoing, sending, delivered>>
  BY DEF StreamInv, MuxInv, TypeOK, Receive, senderVars
<1>1. wire[1] \in Part /\ wire[2] \in Part /\ 1 \in 1..Len(wire) /\ 2 \in 1..Len(wire)
  BY <1>0
<1>2. wire[1].part = "id" /\ wire[2].part = "body" /\ wire[2].msg = wire[1].msg
  BY <1>1 DEF StreamInv, MuxInv, PartsInv
<1>3. m \in Message /\ m.ch = c /\ c \in Channels
  BY <1>1, <1>2 DEF Part, Message
<1>4. /\ Bodies(wire) = Bodies(wire') \cup {m} /\ RisingParts(wire')
      /\ Ahead({m}, Bodies(wire'))
  BY <1>0, <1>2, PartsTaken DEF StreamInv, OrderInv
<1>5. \/ /\ c \in registered /\ inTask[c] = "running"
         /\ incoming' = [incoming EXCEPT ![c] = Append(@, m)]
      \/ (c \notin registered \/ inTask[c] # "running") /\ incoming' = incoming
  BY DEF Receive
<1>. HIDE DEF c, m
<1>6. CASE (c \notin registered \/ inTask[c] # "running") /\ incoming' = incoming
  <2>1. RisingAll'
    BY <1>0, <1>4, <1>6 DEF RisingAll, StreamInv, OrderInv
  <2>2. Drops(Stages, Stages', 3, m)
    BY <1>0, <1>4, <1>6, StageNames DEF Drops
  <2>. QED BY <1>3, <1>6, <2>1, <2>2 DEF m
<1>7. CASE /\ c \in registered /\ inTask[c] = "running"
           /\ incoming' = [incoming EXCEPT ![c] = Append(@, m)]
  <2>1. Ahead(Pool(incoming), {m})
    <3>1. Ahead(Stages[2], Stages[3])
      BY DEF StreamInv, OrderInv, InTurn
    <3>. QED BY <1>4, <3>1, StageNames DEF Ahead
  <2>2. Pool(incoming') = Pool(incoming) \cup {m} /\ \A d \in Channels : Rising(incoming'[d])
    BY <1>0, <1>3, <1>7, <2>1, PoolAppend DEF StreamInv, OrderInv
  <2>3. RisingAll'
    BY <1>0, <1>4, <2>2 DEF RisingAll, StreamInv, OrderInv
  <2>4. Moves(Stages, Stages', 2, m)
    BY <1>0, <1>4, <2>2, StageNames DEF Moves
  <2>. QED BY <1>3, <1>7, <2>3, <2>4 DEF m
<1>. QED BY <1>5, <1>6, <1>7

\* The end of an incoming task.
LEMMA EndInShrinks ==
    ASSUME StreamInv, NEW c \in Channels, incoming' = [incoming EXCEPT ![c] = <<>>],
           UNCHANGED <<outbox, outgoing, sending, wire, delivered>>
    PROVE  RisingAll' /\ Shrinks(Stages, Stages')
<1>1. Pool(incoming') \subseteq Pool(incoming) /\ \A d \in Channels : Rising(incoming'[d])
  BY PoolNone DEF StreamInv, MuxInv, TypeOK, OrderInv
<1>2. RisingAll'
  BY <1>1 DEF RisingAll, StreamInv, OrderInv
<1>3. Shrinks(Stages, Stages')
  BY <1>1, StageNames DEF Shrinks
<1>. QED BY <1>2, <1>3

LEMMA IncomingMoves ==
    ASSUME StreamInv, NEW c \in Channels, Incoming(c)
    PROVE  /\ RisingAll'
           /\ \/ EndIn(c, "ended") /\ UNCHANGED delivered /\ Shrinks(Stages, Stages')
              \/ /\ Drops(Stages, Stages', 2, Head(incoming[c]))
                 /\ Head(incoming[c]).kind = "undecodable" /\ UNCHANGED <<inTask, delivered>>
              \/ /\ Moves(Stages, Stages', 1, Head(incoming[c])) /\ UNCHANGED inTask
                 /\ Head(incoming[c]).kind # "undecodable"
                 /\ delivered' = [delivered EXCEPT ![c] = Append(@, Head(incoming[c]))]
<1>. DEFINE m == Head(incoming[c])
<1>0. /\ incoming \in [Channels -> Seq(Message)] /\ Owned(incoming) /\ incoming[c] # <<>>
      /\ delivered \in [Channels -> Seq(Message)]
      /\ UNCHANGED <<outbox, outgoing, sending, wire>>
  BY DEF StreamInv, MuxInv, TypeOK, OwnInv, Incoming, senderVars
<1>1. CASE EndIn(c, "ended") /\ UNCHANGED delivered
  BY <1>0, <1>1, EndInShrinks DEF EndIn
<1>2. ASSUME incoming' = [incoming EXCEPT ![c] = Tail(@)]
      PROVE  /\ Pool(incoming) = Pool(incoming') \cup {m}
             /\ \A d \in Channels : Rising(incoming'[d])
             /\ Ahead({m}, Pool(incoming')) /\ m \in Message
  BY <1>0, <1>2, PoolTail, OwnTail DEF StreamInv, OrderInv
<1>. HIDE DEF m
<1>3. CASE /\ incoming' = [incoming EXCEPT ![c] = Tail(@)] /\ UNCHANGED <<inTask, delivered>>
           /\ m.kind = "undecodable"
  <2>1. RisingAll'
    BY <1>0, <1>2, <1>3 DEF RisingAll, StreamInv, OrderInv
  <2>2. Drops(Stages, Stages', 2, m)
    BY <1>0, <1>2, <1>3, StageNames DEF Drops
  <2>. QED BY <1>3, <2>1, <2>2 DEF m
<1>4. CASE /\ incoming' = [incoming EXCEPT ![c] = Tail(@)]
           /\ delivered' = [delivered EXCEPT ![c] = Append(@, m)]
           /\ m.kind # "undecodable" /\ UNCHANGED inTask
  <2>1. Ahead(Pool(delivered), {m})
    <3>1. Ahead(Stages[1], Stages[2])
      BY DEF StreamInv, OrderInv, InTurn
    <3>. QED BY <1>2, <1>4, <3>1, StageNames DEF Ahead
  <2>2. Pool(delivered') = Pool(delivered) \cup {m} /\ \A d \in Channels : Rising(delivered'[d])
    BY <1>0, <1>2, <1>4, <2>1, PoolAppend DEF StreamInv, OrderInv
  <2>3. RisingAll'
    BY <1>0, <1>2, <1>4, <2>2 DEF RisingAll, StreamInv, OrderInv
  <2>4. Moves(Stages, Stages', 1, m)
    BY <1>0, <1>2, <1>4, <2>2, StageNames DEF Moves
  <2>. QED BY <1>4, <2>3, <2>4 DEF m
<1>. QED BY <1>1, <1>3, <1>4 DEF Incoming, m

LEMMA LinkDownShrinks ==
    ASSUME StreamInv, LinkDown
    PROVE  RisingAll' /\ Shrinks(Stages, Stages')
<1>0. wire \in Seq(Part) /\ UNCHANGED <<outbox, outgoing, sending, incoming, delivered>>
  BY DEF StreamInv, MuxInv, TypeOK, LinkDown, senderVars, receiverVars
<1>1. Bodies(wire') \subseteq Bodies(wire) /\ RisingParts(wire')
  <2>1. PICK n \in 0..Len(wire) : wire' = SubSeq(wire, 1, n)
    BY DEF LinkDown
  <2>. QED BY <1>0, <2>1, PartsCut DEF StreamInv, OrderInv
<1>2. RisingAll'
  BY <1>0, <1>1 DEF RisingAll, StreamInv, OrderInv
<1>3. Shrinks(Stages, Stages')
  BY <1>0, <1>1, StageNames DEF Shrinks
<1>. QED BY <1>2, <1>3

\* A step that touches no stage, and the end of an outgoing task.
LEMMA RestShrinks ==
    ASSUME StreamInv, UNCHANGED <<outbox, outgoing, sending, wire, incoming, delivered>>
    PROVE  RisingAll' /\ Shrinks(Stages, Stages')
<1>1. RisingAll'
  BY DEF RisingAll, StreamInv, OrderInv
<1>2. Shrinks(Stages, Stages')
  BY StageNames DEF Shrinks
<1>. QED BY <1>1, <1>2

LEMMA EndOutShrinks ==
    ASSUME StreamInv, NEW c \in Channels, outbox' = [outbox EXCEPT ![c] = <<>>],
           UNCHANGED <<outgoing, sending, wire, incoming, delivered>>
    PROVE  RisingAll' /\ Shrinks(Stages, Stages')
<1>1. Pool(outbox') \subseteq Pool(outbox) /\ \A d \in Channels : Rising(outbox'[d])
  BY PoolNone DEF StreamInv, MuxInv, TypeOK, OrderInv
<1>2. RisingAll'
  BY <1>1 DEF RisingAll, StreamInv, OrderInv
<1>3. Shrinks(Stages, Stages')
  BY <1>1, StageNames DEF Shrinks
<1>. QED BY <1>2, <1>3

\* What KindInv says of a message at stage k.
Fits(k, m) ==
    /\ k \in {4, 5} => m.kind # "unserializable"
    /\ k \in {2, 3} => m.kind \in {"plain", "undecodable"}
    /\ k = 1 => Arrives(m)

LEMMA KindFits ==
    /\ KindInv <=> \A k \in 1..5 : \A m \in Stages[k] : Fits(k, m)
    /\ KindInv' <=> \A k \in 1..5 : \A m \in Stages'[k] : Fits(k, m)
<1>1. \A k \in 1..5 : k = 1 \/ k = 2 \/ k = 3 \/ k = 4 \/ k = 5
  OBVIOUS
<1>2. KindInv <=> \A k \in 1..5 : \A m \in Stages[k] : Fits(k, m)
  BY <1>1, StageNames DEF KindInv, Fits
<1>3. KindInv' <=> \A k \in 1..5 : \A m \in Stages'[k] : Fits(k, m)
  BY <1>1, StageNames DEF KindInv, Fits
<1>. QED BY <1>2, <1>3

\* Every step but Send moves a message that fits the next stage, or loses some.
Passes(k, m) == Moves(Stages, Stages', k, m) /\ Fits(k, m)
Goes == \E k \in 1..5 : \E m : Passes(k, m)

LEMMA SendTaskGoes ==
    ASSUME StreamInv, SendTaskStep
    PROVE  RisingAll' /\ (Shrinks(Stages, Stages') \/ Goes)
<1>0. /\ 3 \in 1..5 /\ 4 \in 1..5 /\ 5 \in 1..5
      /\ \A m : m \in Stages[5] => m.kind # "unserializable"
      /\ \A m : m \in Stages[4] => m.kind # "unserializable"
  BY KindFits DEF StreamInv, Fits
<1>1. CASE WriteChannelId
  <2>1. CASE Moves(Stages, Stages', 4, Head(outgoing))
    <3>1. Head(outgoing) \in Stages[5]
      BY <2>1 DEF Moves
    <3>2. Fits(4, Head(outgoing))
      BY <1>0, <3>1 DEF Fits
    <3>. QED BY <1>0, <1>1, <2>1, <3>2, WriteChannelIdMoves DEF Goes, Passes
  <2>. QED BY <1>1, <2>1, WriteChannelIdMoves
<1>2. CASE WriteFrame
  <2>1. CASE /\ Moves(Stages, Stages', 3, sending[1]) /\ sending[1].kind # "oversized"
             /\ sending[1] \in Message
    <3>1. sending[1] \in Stages[4]
      BY <2>1 DEF Moves
    <3>2. sending[1].kind \in {"plain", "undecodable"}
      BY <1>0, <2>1, <3>1 DEF Message, AllKinds
    <3>3. Fits(3, sending[1])
      BY <3>2 DEF Fits
    <3>. QED BY <1>0, <1>2, <2>1, <3>3, WriteFrameMoves DEF Goes, Passes
  <2>. QED BY <1>2, <2>1, WriteFrameMoves
<1>. QED BY <1>1, <1>2 DEF SendTaskStep

LEMMA RecvTaskGoes ==
    ASSUME StreamInv, RecvTaskStep
    PROVE  RisingAll' /\ (Shrinks(Stages, Stages') \/ Goes)
<1>1. CASE Receive
  <2>. DEFINE m == wire[2].msg
  <2>1. RisingAll' /\ (Drops(Stages, Stages', 3, m) \/ Moves(Stages, Stages', 2, m))
    BY <1>1, ReceiveMoves
  <2>. HIDE DEF m
  <2>2. m \in Stages[3]
    BY <2>1 DEF Drops, Moves
  <2>3. Fits(3, m) /\ 2 \in 1..5 /\ 3 \in 1..5 /\ 3 \in 1..6
    BY <2>2, KindFits DEF StreamInv
  <2>4. Fits(2, m)
    BY <2>3 DEF Fits
  <2>. QED BY <2>1, <2>3, <2>4, DropsShrink DEF Goes, Passes
<1>2. CASE ReceiveError
  BY <1>2, RestShrinks DEF ReceiveError, senderVars
<1>. QED BY <1>1, <1>2 DEF RecvTaskStep

LEMMA BridgeGoes ==
    ASSUME StreamInv, NEW c \in Channels, BridgeStep(c)
    PROVE  RisingAll' /\ (Shrinks(Stages, Stages') \/ Goes)
<1>0. 1 \in 1..5 /\ 5 \in 1..5
  OBVIOUS
<1>1. CASE Outgoing(c)
  <2>. DEFINE m == Head(outbox[c])
  <2>1. /\ RisingAll'
        /\ \/ Shrinks(Stages, Stages')
           \/ Moves(Stages, Stages', 5, m) /\ m.kind # "unserializable"
    BY <1>1, OutgoingMoves, DropsShrink
  <2>. HIDE DEF m
  <2>2. m.kind # "unserializable" => Fits(5, m)
    BY DEF Fits
  <2>. QED BY <1>0, <2>1, <2>2 DEF Goes, Passes
<1>2. CASE RegisterChannel(c)
  BY <1>2, RestShrinks DEF RegisterChannel, senderVars
<1>3. CASE Incoming(c)
  <2>. DEFINE m == Head(incoming[c])
  <2>1. /\ RisingAll'
        /\ \/ Shrinks(Stages, Stages')
           \/ Moves(Stages, Stages', 1, m) /\ m.kind # "undecodable"
    BY <1>3, IncomingMoves, DropsShrink
  <2>. HIDE DEF m
  <2>2. ASSUME Moves(Stages, Stages', 1, m), m.kind # "undecodable" PROVE Fits(1, m)
    <3>1. m \in Pool(incoming)
      BY <2>2, StageNames DEF Moves
    <3>. QED BY <2>2, <3>1 DEF StreamInv, KindInv, Fits, Arrives
  <2>. QED BY <1>0, <2>1, <2>2 DEF Goes, Passes
<1>4. CASE IncomingDone(c)
  BY <1>4, EndInShrinks DEF IncomingDone, EndIn, senderVars
<1>. QED BY <1>1, <1>2, <1>3, <1>4 DEF BridgeStep

LEMMA FaultShrinks ==
    ASSUME StreamInv, AbortSend \/ AbortReceive \/ LinkDown
    PROVE  RisingAll' /\ Shrinks(Stages, Stages')
<1>1. CASE AbortSend
  BY <1>1, EndSendShrinks DEF AbortSend, receiverVars
<1>2. CASE AbortReceive
  BY <1>2, RestShrinks DEF AbortReceive, senderVars
<1>. QED BY <1>1, <1>2, LinkDownShrinks

LEMMA UserShrinks ==
    ASSUME StreamInv, NEW c \in Channels, UserStep(c), UNCHANGED sent
    PROVE  RisingAll' /\ Shrinks(Stages, Stages')
<1>1. ~\E k \in Kinds[c] : Send(c, k)
  <2>1. sent[c] \in Nat /\ sent \in [Channels -> Nat]
    BY DEF StreamInv, MuxInv, TypeOK
  <2>2. sent[c] # sent[c] + 1
    BY <2>1
  <2>. QED BY <2>1, <2>2 DEF Send
<1>2. CASE OpenOut(c)
  BY <1>2, RestShrinks DEF OpenOut, receiverVars
<1>3. CASE AbortOut(c)
  BY <1>3, EndOutShrinks DEF AbortOut, EndOut, receiverVars
<1>4. CASE OpenIn(c)
  BY <1>4, RestShrinks DEF OpenIn, senderVars
<1>5. CASE AbortIn(c)
  BY <1>5, EndInShrinks DEF AbortIn, EndIn, senderVars
<1>6. CASE UnregisterChannel(c)
  BY <1>6, RestShrinks DEF UnregisterChannel, senderVars
<1>7. CASE CloseReader(c)
  BY <1>7, RestShrinks DEF CloseReader, senderVars
<1>. QED BY <1>1, <1>2, <1>3, <1>4, <1>5, <1>6, <1>7 DEF UserStep

-----------------------------------------------------------------------------
(***************************************************************************)
(* The invariants of the stages                                            *)
(***************************************************************************)
LEMMA OrderKept ==
    ASSUME StreamInv, RisingAll',
           \/ Shrinks(Stages, Stages') \/ Goes
           \/ \E m \in Message : Enters(Stages, Stages', m)
    PROVE  OrderInv'
<1>1. InTurn(Stages)
  BY DEF StreamInv, OrderInv
<1>2. InTurn(Stages')
  BY <1>1, TurnKept DEF Goes, Passes
<1>. QED BY <1>2 DEF OrderInv, RisingAll

LEMMA SentKept ==
    ASSUME StreamInv, UNCHANGED sent, Shrinks(Stages, Stages') \/ Goes
    PROVE  SentInv'
<1>1. ASSUME NEW i \in 1..6, NEW m \in Stages'[i] PROVE m.num <= sent[m.ch]
  <2>1. CASE \E j \in 1..6 : m \in Stages[j]
    BY <2>1 DEF StreamInv, SentInv
  <2>2. CASE Shrinks(Stages, Stages')
    BY <1>1, <2>1, <2>2 DEF Shrinks
  <2>3. CASE Goes
    <3>1. PICK k \in 1..5 : \E x : Passes(k, x)
      BY <2>3 DEF Goes
    <3>2. PICK x : Passes(k, x)
      BY <3>1
    <3>3. k \in 1..6 /\ k + 1 \in 1..6
      OBVIOUS
    <3>4. m \in Stages[i] \/ m \in Stages[k + 1] \/ m \in Stages[k]
      BY <1>1, <3>2 DEF Passes, Moves
    <3>. QED BY <2>1, <3>3, <3>4
  <2>. QED BY <2>2, <2>3
<1>. QED BY <1>1 DEF StreamInv, SentInv

LEMMA KindKept ==
    ASSUME StreamInv, Shrinks(Stages, Stages') \/ Goes
    PROVE  KindInv'
<1>1. \A k \in 1..5 : \A m \in Stages[k] : Fits(k, m)
  BY KindFits DEF StreamInv
<1>2. ASSUME NEW i \in 1..5, NEW m \in Stages'[i] PROVE Fits(i, m)
  <2>0. i \in 1..6
    OBVIOUS
  <2>1. CASE m \in Stages[i]
    BY <1>1, <2>1
  <2>2. CASE Shrinks(Stages, Stages')
    BY <1>2, <2>0, <2>1, <2>2 DEF Shrinks
  <2>3. CASE Goes
    BY <1>2, <2>0, <2>1, <2>3 DEF Goes, Passes, Moves
  <2>. QED BY <2>2, <2>3
<1>. QED BY <1>2, KindFits

LEMMA SendStages ==
    ASSUME StreamInv, NEW c \in Channels, NEW k \in Kinds[c], Send(c, k)
    PROVE  OrderInv' /\ SentInv' /\ KindInv'
<1>1. PICK m \in Message : Enters(Stages, Stages', m) /\ m.num = sent[c] + 1 /\ m.ch = c
  BY SendMoves
<1>2. OrderInv'
  BY <1>1, SendMoves, OrderKept
<1>3. sent \in [Channels -> Nat] /\ sent' = [sent EXCEPT ![c] = sent[c] + 1]
      /\ sent[c] < MaxSends[c]
  BY DEF StreamInv, MuxInv, TypeOK, Send
<1>4. \A d \in Channels : sent'[d] \in Nat /\ sent[d] \in Nat /\ sent[d] <= sent'[d]
  BY <1>3
<1>5. sent'[c] = sent[c] + 1
  BY <1>3
<1>6. ASSUME NEW i \in 1..6, NEW x \in Stages'[i] PROVE x.num <= sent'[x.ch]
  <2>1. CASE x \in Stages[i]
    <3>1. x \in Message /\ x.num <= sent[x.ch]
      BY <2>1, StageMessages DEF StreamInv, MuxInv, SentInv
    <3>2. x.ch \in Channels /\ x.num \in Nat
      BY <3>1 DEF Message
    <3>3. /\ x.num <= sent[x.ch] /\ sent[x.ch] <= sent'[x.ch]
          /\ sent'[x.ch] \in Nat /\ sent[x.ch] \in Nat
      BY <1>4, <3>1, <3>2
    <3>. QED BY <3>2, <3>3
  <2>2. CASE x = m
    <3>1. sent'[c] \in Nat
      BY <1>4
    <3>. QED BY <1>1, <1>5, <2>2, <3>1
  <2>. QED BY <1>1, <1>6, <2>1, <2>2 DEF Enters
<1>7. \A d \in Channels : sent'[d] <= MaxSends[d]
  <2>1. ASSUME NEW d \in Channels PROVE sent'[d] <= MaxSends[d]
    <3>1. MaxSends[d] \in Nat /\ sent[d] \in Nat /\ sent[d] <= MaxSends[d]
      BY <1>3, MaxSendsAssumption DEF StreamInv, SentInv
    <3>2. CASE d = c
      BY <1>3, <1>5, <3>1, <3>2
    <3>3. CASE d # c
      BY <1>3, <3>1, <3>3
    <3>. QED BY <3>2, <3>3
  <2>. QED BY <2>1
<1>8. KindInv'
  BY <1>1, KindFits DEF StreamInv, Enters
<1>. QED BY <1>2, <1>6, <1>7, <1>8 DEF SentInv

LEMMA StagesStep == StreamInv /\ [Next]_vars => OrderInv' /\ SentInv' /\ KindInv'
<1>. SUFFICES ASSUME StreamInv, [Next]_vars PROVE OrderInv' /\ SentInv' /\ KindInv'
  OBVIOUS
<1>1. CASE \E c \in Channels : \E k \in Kinds[c] : Send(c, k)
  BY <1>1, SendStages
<1>2. ASSUME UNCHANGED sent, RisingAll', Shrinks(Stages, Stages') \/ Goes
      PROVE  OrderInv' /\ SentInv' /\ KindInv'
  BY <1>2, OrderKept, SentKept, KindKept
<1>3. CASE UNCHANGED vars
  <2>1. RisingAll' /\ Shrinks(Stages, Stages')
    BY <1>3, RestShrinks DEF vars, senderVars, receiverVars
  <2>. QED BY <1>2, <1>3, <2>1 DEF vars, senderVars
<1>4. CASE SendTaskStep
  <2>1. UNCHANGED sent
    BY <1>4 DEF SendTaskStep, WriteChannelId, WriteFrame
  <2>. QED BY <1>2, <1>4, <2>1, SendTaskGoes
<1>5. CASE RecvTaskStep
  <2>1. UNCHANGED sent
    BY <1>5 DEF RecvTaskStep, Receive, ReceiveError, senderVars
  <2>. QED BY <1>2, <1>5, <2>1, RecvTaskGoes
<1>6. ASSUME NEW c \in Channels, BridgeStep(c) PROVE OrderInv' /\ SentInv' /\ KindInv'
  <2>1. UNCHANGED sent
    BY <1>6 DEF BridgeStep, Outgoing, RegisterChannel, Incoming, IncomingDone, senderVars
  <2>. QED BY <1>2, <1>6, <2>1, BridgeGoes
<1>7. ASSUME NEW c \in Channels, UserStep(c), ~\E k \in Kinds[c] : Send(c, k)
      PROVE  OrderInv' /\ SentInv' /\ KindInv'
  <2>1. UNCHANGED sent
    BY <1>7 DEF UserStep, OpenOut, AbortOut, OpenIn, AbortIn, UnregisterChannel, CloseReader,
                senderVars
  <2>. QED BY <1>2, <1>7, <2>1, UserShrinks
<1>8. CASE AbortSend \/ AbortReceive \/ LinkDown
  <2>1. UNCHANGED sent
    BY <1>8 DEF AbortSend, AbortReceive, LinkDown, senderVars
  <2>. QED BY <1>2, <1>8, <2>1, FaultShrinks
<1>. QED BY <1>1, <1>3, <1>4, <1>5, <1>6, <1>7, <1>8 DEF Next

\* Registrations and incoming queues.
LEMMA OpenSame ==
    ASSUME StreamInv, UNCHANGED <<registering, registered, inTask, incoming>>
    PROVE  OpenInv'
BY DEF StreamInv, OpenInv

LEMMA OpenEnd ==
    ASSUME StreamInv, NEW c \in Channels, NEW how \in Over, EndIn(c, how),
           UNCHANGED <<registering, registered>>
    PROVE  OpenInv'
<1>1. inTask \in [Channels -> {"none", "running"} \cup Over]
      /\ incoming \in [Channels -> Seq(Message)]
  BY DEF StreamInv, MuxInv, TypeOK
<1>2. inTask'[c] \in Over /\ incoming'[c] = <<>>
      /\ \A d \in Channels \ {c} : inTask'[d] = inTask[d] /\ incoming'[d] = incoming[d]
  BY <1>1 DEF EndIn
<1>. QED BY <1>2 DEF StreamInv, OpenInv, Over

LEMMA OpenStep == StreamInv /\ [Next]_vars => OpenInv'
<1>. SUFFICES ASSUME StreamInv, [Next]_vars PROVE OpenInv'
  OBVIOUS
<1>0. /\ inTask \in [Channels -> {"none", "running"} \cup Over]
      /\ incoming \in [Channels -> Seq(Message)]
      /\ registering \subseteq Channels /\ registered \subseteq Channels
  BY DEF StreamInv, MuxInv, TypeOK
<1>1. CASE UNCHANGED vars \/ SendTaskStep \/ ReceiveError \/ AbortSend \/ LinkDown
  BY <1>1, OpenSame DEF vars, senderVars, receiverVars, SendTaskStep, WriteChannelId, WriteFrame,
                        ReceiveError, AbortSend, LinkDown
<1>2. CASE Receive
  <2>. DEFINE c == wire[1].msg.ch
  <2>1. UNCHANGED <<registering, registered, inTask>>
    BY <1>2 DEF Receive
  <2>2. CASE UNCHANGED incoming
    BY <2>1, <2>2, OpenSame
  <2>3. CASE /\ c \in registered /\ inTask[c] = "running"
             /\ incoming' = [incoming EXCEPT ![c] = Append(@, wire[2].msg)]
    <3>1. \A d \in Channels \ {c} : incoming'[d] = incoming[d]
      BY <1>0, <2>3
    <3>. QED BY <2>1, <2>3, <3>1 DEF StreamInv, OpenInv
  <2>. QED BY <1>2, <2>2, <2>3 DEF Receive
<1>3. ASSUME NEW c \in Channels, BridgeStep(c) PROVE OpenInv'
  <2>1. CASE Outgoing(c)
    BY <2>1, OpenSame DEF Outgoing, receiverVars
  <2>2. CASE RegisterChannel(c)
    BY <1>0, <2>2 DEF RegisterChannel, StreamInv, OpenInv
  <2>3. CASE Incoming(c)
    <3>1. UNCHANGED <<registering, registered>>
      BY <2>3 DEF Incoming
    <3>2. CASE EndIn(c, "ended")
      BY <3>1, <3>2, OpenEnd DEF Over
    <3>3. CASE incoming' = [incoming EXCEPT ![c] = Tail(@)] /\ UNCHANGED inTask
      <4>1. inTask[c] = "running" /\ incoming[c] # <<>>
        BY <2>3 DEF Incoming
      <4>2. c \notin registering
        BY <4>1 DEF StreamInv, OpenInv
      <4>3. \A d \in Channels \ {c} : incoming'[d] = incoming[d]
        BY <1>0, <3>3
      <4>. QED BY <3>1, <3>3, <4>1, <4>2, <4>3 DEF StreamInv, OpenInv
    <3>. QED BY <2>3, <3>2, <3>3 DEF Incoming
  <2>4. CASE IncomingDone(c)
    BY <2>4, OpenEnd DEF IncomingDone, Over
  <2>. QED BY <1>3, <2>1, <2>2, <2>3, <2>4 DEF BridgeStep
<1>4. ASSUME NEW c \in Channels, UserStep(c) PROVE OpenInv'
  <2>1. CASE \/ \E k \in Kinds[c] : Send(c, k)
             \/ OpenOut(c) \/ AbortOut(c) \/ CloseReader(c)
    BY <2>1, OpenSame DEF Send, OpenOut, AbortOut, CloseReader, receiverVars
  <2>2. CASE OpenIn(c)
    <3>1. /\ inTask[c] = "none" /\ registering' = registering \cup {c}
          /\ UNCHANGED <<registered, incoming>>
      BY <2>2 DEF OpenIn
    <3>2. inTask'[c] = "running" /\ \A d \in Channels \ {c} : inTask'[d] = inTask[d]
      BY <1>0, <2>2 DEF OpenIn
    <3>. QED BY <3>1, <3>2 DEF StreamInv, OpenInv
  <2>3. CASE AbortIn(c)
    BY <2>3, OpenEnd DEF AbortIn, Over
  <2>4. CASE UnregisterChannel(c)
    BY <2>4 DEF UnregisterChannel, StreamInv, OpenInv
  <2>. QED BY <1>4, <2>1, <2>2, <2>3, <2>4 DEF UserStep
<1>5. CASE AbortReceive
  BY <1>5 DEF AbortReceive, StreamInv, OpenInv
<1>. QED BY <1>1, <1>2, <1>3, <1>4, <1>5 DEF Next, RecvTaskStep

LEMMA StreamStart == Init => StreamInv
<1>. SUFFICES ASSUME Init PROVE StreamInv
  OBVIOUS
<1>1. MuxInv
  BY MuxStart
<1>2. \A c \in Channels : outbox[c] = <<>> /\ incoming[c] = <<>> /\ delivered[c] = <<>>
  BY DEF Init
<1>3. Pool(outbox) = {} /\ Pool(incoming) = {} /\ Pool(delivered) = {}
  BY <1>2, RisingNone DEF Pool
<1>4. ToSet(sending) = {} /\ ToSet(outgoing) = {} /\ Bodies(wire) = {} /\ RisingParts(wire)
  BY RisingNone DEF Init, Bodies, RisingParts
<1>5. \A i \in 1..6 : Stages[i] = {}
  BY <1>3, <1>4, StageNames
<1>6. OrderInv
  BY <1>2, <1>4, <1>5, RisingNone DEF OrderInv, InTurn, Ahead, Init
<1>7. SentInv
  BY <1>5, MaxSendsAssumption DEF SentInv, Init
<1>8. KindInv
  BY <1>3, <1>4 DEF KindInv
<1>9. OpenInv
  BY DEF Init, OpenInv
<1>. QED BY <1>1, <1>6, <1>7, <1>8, <1>9 DEF StreamInv

LEMMA StreamStep == StreamInv /\ [Next]_vars => StreamInv'
<1>1. StreamInv => MuxInv
  BY DEF StreamInv
<1>. QED BY <1>1, MuxStep, StagesStep, OpenStep DEF StreamInv

\* No message overtakes another of its channel at any stage, and none arrives
\* for a channel without a registration.
THEOREM StreamInvariant == Spec => []StreamInv
BY StreamStart, StreamStep, PTL DEF Spec

-----------------------------------------------------------------------------
(***************************************************************************)
(* What is under way on a channel, after a step                            *)
(***************************************************************************)
\* What goes on of a channel c at a stage.
Of(S, c) == {m \in S : m.ch = c /\ Arrives(m)}

LEMMA UnderWayOf ==
    ASSUME NEW stages, NEW reach, NEW c, NEW m
    PROVE  m \in UnderWay(stages, reach, c) <=> \E i \in 2..reach : m \in Of(stages[i], c)
BY DEF UnderWay, Of

LEMMA UnderWaySame ==
    ASSUME NEW old, NEW new, NEW reach, NEW c,
           \A i \in 2..reach : Of(new[i], c) = Of(old[i], c)
    PROVE  UnderWay(new, reach, c) = UnderWay(old, reach, c)
<1>1. ASSUME NEW m PROVE m \in UnderWay(new, reach, c) <=> m \in UnderWay(old, reach, c)
  BY UnderWayOf
<1>. QED BY <1>1

LEMMA UnderWayMoved ==
    ASSUME NEW old, NEW new, NEW k \in 2..5, NEW m, Moves(old, new, k, m),
           NEW reach \in 2..6, NEW c, m.ch = c => k # reach
    PROVE  UnderWay(new, reach, c) = UnderWay(old, reach, c)
<1>0. /\ old[k + 1] = new[k + 1] \cup {m} /\ new[k] = old[k] \cup {m}
      /\ \A i \in 2..reach : i # k /\ i # k + 1 => new[i] = old[i]
  BY DEF Moves
<1>1. CASE m.ch # c
  BY <1>0, <1>1, UnderWaySame DEF Of
<1>2. ASSUME NEW x, m.ch = c
      PROVE  (\E i \in 2..reach : x \in Of(new[i], c)) <=> (\E i \in 2..reach : x \in Of(old[i], c))
  <2>1. k \in 2..reach => k + 1 \in 2..reach
    BY <1>2
  <2>2. k + 1 \in 2..reach => k \in 2..reach
    OBVIOUS
  <2>3. ASSUME NEW i \in 2..reach, x \in Of(new[i], c) PROVE \E j \in 2..reach : x \in Of(old[j], c)
    <3>1. CASE i = k
      BY <1>0, <2>1, <2>3, <3>1 DEF Of
    <3>2. CASE i = k + 1
      BY <1>0, <2>3, <3>2 DEF Of
    <3>. QED BY <1>0, <2>3, <3>1, <3>2
  <2>4. ASSUME NEW i \in 2..reach, x \in Of(old[i], c) PROVE \E j \in 2..reach : x \in Of(new[j], c)
    <3>1. CASE i = k
      BY <1>0, <2>4, <3>1 DEF Of
    <3>2. CASE i = k + 1
      BY <1>0, <2>2, <2>4, <3>2 DEF Of
    <3>. QED BY <1>0, <2>4, <3>1, <3>2
  <2>. QED BY <2>3, <2>4
<1>3. CASE m.ch = c
  <2>1. ASSUME NEW x PROVE x \in UnderWay(new, reach, c) <=> x \in UnderWay(old, reach, c)
    BY <1>2, <1>3, UnderWayOf
  <2>. QED BY <2>1
<1>. QED BY <1>1, <1>3

LEMMA UnderWayDropped ==
    ASSUME NEW old, NEW new, NEW k \in 2..6, NEW m, Drops(old, new, k, m),
           NEW reach \in 2..6, NEW c, m.ch = c /\ Arrives(m) => reach < k
    PROVE  UnderWay(new, reach, c) = UnderWay(old, reach, c)
<1>1. old[k] = new[k] \cup {m} /\ \A i \in 2..reach : i # k => new[i] = old[i]
  BY DEF Drops
<1>2. k \in 2..reach => m \notin Of(old[k], c)
  BY DEF Of
<1>. QED BY <1>1, <1>2, UnderWaySame DEF Of

\* The first message of a channel leaves what is under way.
LEMMA UnderWayFirst ==
    ASSUME NEW old, NEW new, InTurn(old), NEW k \in 2..6, NEW m,
           old[k] = new[k] \cup {m}, Ahead({m}, new[k]),
           \A i \in 2..6 : i # k => new[i] = old[i],
           NEW reach \in 2..6, NEW c, k <= reach, m.ch = c, Arrives(m),
           \A i \in 2..(k - 1) : Of(old[i], c) = {}
    PROVE  /\ UnderWay(old, reach, c) = UnderWay(new, reach, c) \cup {m}
           /\ \A x \in UnderWay(new, reach, c) : m.num < x.num
<1>1. ASSUME NEW x PROVE x \in UnderWay(old, reach, c) <=> x \in UnderWay(new, reach, c) \cup {m}
  <2>1. ASSUME NEW i \in 2..reach, x \in Of(old[i], c)
        PROVE  x = m \/ x \in UnderWay(new, reach, c)
    BY <2>1, UnderWayOf DEF Of
  <2>2. ASSUME NEW i \in 2..reach, x \in Of(new[i], c) PROVE x \in UnderWay(old, reach, c)
    BY <2>2, UnderWayOf DEF Of
  <2>3. m \in Of(old[k], c) /\ k \in 2..reach
    BY DEF Of
  <2>4. m \in UnderWay(old, reach, c)
    BY <2>3, UnderWayOf
  <2>. QED BY <2>1, <2>2, <2>4, UnderWayOf
<1>2. ASSUME NEW x \in UnderWay(new, reach, c) PROVE m.num < x.num
  <2>1. PICK i \in 2..reach : x \in Of(new[i], c)
    BY <1>2, UnderWayOf
  <2>2. x \in new[i] /\ x.ch = c
    BY <2>1 DEF Of
  <2>3. CASE i = k
    BY <2>2, <2>3 DEF Ahead
  <2>4. CASE k < i
    <3>1. x \in old[i] /\ m \in old[k] /\ i \in 1..6 /\ k \in 1..6
      BY <2>2, <2>4
    <3>. QED BY <2>2, <2>4, <3>1 DEF InTurn, Ahead
  <2>5. CASE i < k
    <3>1. i \in 2..(k - 1) /\ Of(new[i], c) = Of(old[i], c)
      BY <2>5
    <3>. QED BY <2>1, <3>1
  <2>. QED BY <2>3, <2>4, <2>5
<1>. QED BY <1>1, <1>2

\* The last of what is under way is lost: all above stage e, some at stage e.
LEMMA UnderWayCut ==
    ASSUME NEW old, NEW new, InTurn(old), NEW e \in 2..6, NEW c,
           NEW a \in 2..6, NEW b \in 2..6, b <= a, b <= e,
           \A i \in 2..(e - 1) : Of(new[i], c) = Of(old[i], c),
           Of(new[e], c) \subseteq Of(old[e], c),
           \A x \in Of(new[e], c), y \in Of(old[e], c) \ Of(new[e], c) : x.num < y.num
    PROVE  /\ UnderWay(new, b, c) \subseteq UnderWay(old, a, c)
           /\ \A x \in UnderWay(new, b, c), y \in UnderWay(old, a, c) \ UnderWay(new, b, c) :
                 x.num < y.num
<1>1. ASSUME NEW i \in 2..b PROVE Of(new[i], c) \subseteq Of(old[i], c) /\ i \in 2..a /\ i <= e
  <2>1. i = e \/ i \in 2..(e - 1)
    OBVIOUS
  <2>. QED BY <2>1
<1>2. UnderWay(new, b, c) \subseteq UnderWay(old, a, c)
  <2>1. ASSUME NEW x \in UnderWay(new, b, c) PROVE x \in UnderWay(old, a, c)
    BY <1>1, UnderWayOf
  <2>. QED BY <2>1
<1>3. ASSUME NEW x \in UnderWay(new, b, c), NEW y \in UnderWay(old, a, c) \ UnderWay(new, b, c)
      PROVE  x.num < y.num
  <2>1. PICK i \in 2..b : x \in Of(new[i], c)
    BY UnderWayOf
  <2>2. PICK j \in 2..a : y \in Of(old[j], c)
    BY UnderWayOf
  <2>3. j \in 2..b => y \notin Of(new[j], c)
    BY UnderWayOf
  <2>4. x \in Of(old[i], c) /\ i <= e
    BY <1>1, <2>1
  <2>5. x \in old[i] /\ y \in old[j] /\ x.ch = y.ch
    BY <2>2, <2>4 DEF Of
  <2>6. CASE i < j
    <3>1. i \in 1..6 /\ j \in 1..6
      OBVIOUS
    <3>. QED BY <2>5, <2>6, <3>1 DEF InTurn, Ahead
  <2>7. CASE j = e /\ i = e
    BY <2>1, <2>2, <2>3, <2>7
  <2>8. CASE j <= i /\ j < e
    <3>1. j \in 2..(e - 1) /\ j \in 2..b
      BY <2>8
    <3>. QED BY <2>2, <2>3, <3>1
  <2>9. i < j \/ (j = e /\ i = e) \/ (j <= i /\ j < e)
    BY <2>4
  <2>. QED BY <2>6, <2>7, <2>8, <2>9
<1>. QED BY <1>2, <1>3

LEMMA UnderWayEntered ==
    ASSUME NEW old, NEW new, NEW m, Enters(old, new, m), NEW reach \in 2..6, NEW c
    PROVE  /\ reach = 6 /\ m.ch = c /\ Arrives(m)
                 => UnderWay(new, reach, c) = UnderWay(old, reach, c) \cup {m}
           /\ ~(reach = 6 /\ m.ch = c /\ Arrives(m))
                 => UnderWay(new, reach, c) = UnderWay(old, reach, c)
<1>1. new[6] = old[6] \cup {m} /\ \A i \in 2..reach : i # 6 => new[i] = old[i]
  BY DEF Enters
<1>2. ASSUME reach = 6, m.ch = c, Arrives(m)
      PROVE  UnderWay(new, reach, c) = UnderWay(old, reach, c) \cup {m}
  <2>0. 6 \in 2..reach
    BY <1>2
  <2>1. ASSUME NEW x PROVE x \in UnderWay(new, reach, c) <=> x \in UnderWay(old, reach, c) \cup {m}
    <3>1. ASSUME NEW i \in 2..reach, x \in Of(new[i], c)
          PROVE  x = m \/ x \in UnderWay(old, reach, c)
      BY <1>1, <3>1, UnderWayOf DEF Of
    <3>2. ASSUME NEW i \in 2..reach, x \in Of(old[i], c) PROVE x \in UnderWay(new, reach, c)
      BY <1>1, <3>2, UnderWayOf DEF Of
    <3>3. m \in Of(new[6], c)
      BY <1>1, <1>2 DEF Of
    <3>. QED BY <2>0, <3>1, <3>2, <3>3, UnderWayOf
  <2>. QED BY <2>1
<1>3. ASSUME ~(reach = 6 /\ m.ch = c /\ Arrives(m))
      PROVE  UnderWay(new, reach, c) = UnderWay(old, reach, c)
  <2>1. ASSUME NEW i \in 2..reach PROVE Of(new[i], c) = Of(old[i], c)
    <3>1. CASE i # 6
      BY <1>1, <3>1
    <3>2. CASE i = 6
      BY <1>1, <1>3, <3>2 DEF Of
    <3>. QED BY <3>1, <3>2
  <2>. QED BY <2>1, UnderWaySame
<1>. QED BY <1>2, <1>3

-----------------------------------------------------------------------------
(***************************************************************************)
(* Every step is one of the streams or a stutter.                          *)
(***************************************************************************)
Numbers(S) == {m.num : m \in S}

LEMMA ReachRange ==
    ASSUME NEW c \in Channels
    PROVE  /\ Reach(c) \in {2, 3, 5, 6} /\ (Open(c) <=> Reach(c) = 6)
           /\ (Receiving(c) <=> Reach(c) >= 3) /\ (Sending(c) <=> Reach(c) >= 5)
           /\ Reach(c)' \in {2, 3, 5, 6} /\ (Open(c)' <=> Reach(c)' = 6)
           /\ (Receiving(c)' <=> Reach(c)' >= 3) /\ (Sending(c)' <=> Reach(c)' >= 5)
BY DEF Reach, Open, Sending

LEMMA ReachSame ==
    ASSUME NEW c \in Channels, Open(c)' <=> Open(c), Sending(c)' <=> Sending(c),
           Receiving(c)' <=> Receiving(c)
    PROVE  Reach(c)' = Reach(c)
BY DEF Reach

LEMMA TransitIs ==
    /\ Transit = [c \in Channels |-> Numbers(UnderWay(Stages, Reach(c), c))]
    /\ Transit' = [c \in Channels |-> Numbers(UnderWay(Stages', Reach(c)', c))]
BY DEF Transit, Numbers

\* No path of a channel begins or ends.
Steady ==
    /\ \A c \in Channels : Reach(c)' = Reach(c)
    /\ UNCHANGED <<OpenChannels, Listening>>

LEMMA SteadyPaths ==
    ASSUME UNCHANGED <<recvTask, registering, registered, inTask, link, outTask>>,
           sendTask' \in Over <=> sendTask \in Over
    PROVE  Steady
<1>1. ASSUME NEW c \in Channels
      PROVE  /\ Receiving(c)' <=> Receiving(c)
             /\ Sending(c)' <=> Sending(c)
             /\ Open(c)' <=> Open(c)
  BY DEF Open, Sending, Receiving, Unregistered
<1>2. UNCHANGED <<OpenChannels, Listening>>
  BY <1>1 DEF OpenChannels, Listening
<1>. QED BY <1>1, <1>2, ReachSame DEF Steady

\* The step leaves each channel what it has under way.
Settled == \A c \in Channels : UnderWay(Stages', Reach(c), c) = UnderWay(Stages, Reach(c), c)

LEMMA StreamStutters ==
    ASSUME Steady, Settled, UNCHANGED delivered
    PROVE  UNCHANGED Stream!streamVars
<1>1. Transit' = Transit
  BY TransitIs DEF Steady, Settled
<1>2. Received' = Received
  BY DEF Received
<1>. QED BY <1>1, <1>2 DEF Stream!streamVars, Steady

\* The first of what is under way on channel c leaves it.
LEMMA FirstLeaves ==
    ASSUME Steady, NEW c \in Channels, NEW m,
           UnderWay(Stages, Reach(c), c) \subseteq Message,
           UnderWay(Stages, Reach(c), c) = UnderWay(Stages', Reach(c), c) \cup {m},
           \A x \in UnderWay(Stages', Reach(c), c) : m.num < x.num,
           \A d \in Channels \ {c} :
              UnderWay(Stages', Reach(d), d) = UnderWay(Stages, Reach(d), d)
    PROVE  /\ Stream!IsFirst(c, m.num)
           /\ Transit' = [Transit EXCEPT ![c] = @ \ {m.num}]
<1>. DEFINE U == UnderWay(Stages, Reach(c), c)
            V == UnderWay(Stages', Reach(c), c)
<1>0. U \subseteq Message /\ U = V \cup {m} /\ \A x \in V : m.num < x.num
  OBVIOUS
<1>1. Transit[c] = Numbers(U) /\ Transit'[c] = Numbers(V)
      /\ \A d \in Channels \ {c} : Transit'[d] = Transit[d]
  BY TransitIs DEF Steady
<1>2. /\ DOMAIN Transit = Channels /\ DOMAIN Transit' = Channels
      /\ Transit = [d \in Channels |-> Transit[d]] /\ Transit' = [d \in Channels |-> Transit'[d]]
  BY TransitIs
<1>. HIDE DEF U, V
<1>3. \A x \in U : x.num \in Nat
  BY <1>0 DEF Message
<1>4. Numbers(V) = Numbers(U) \ {m.num}
  <2>1. \A x \in V : x.num # m.num
    BY <1>0, <1>3
  <2>. QED BY <1>0, <2>1 DEF Numbers
<1>5. m.num \in Numbers(U) /\ \A k \in Numbers(U) : m.num <= k
  BY <1>0, <1>3 DEF Numbers
<1>6. Stream!IsFirst(c, m.num)
  BY <1>1, <1>5 DEF Stream!IsFirst
<1>7. Transit' = [Transit EXCEPT ![c] = @ \ {m.num}]
  BY <1>1, <1>2, <1>4
<1>. QED BY <1>6, <1>7

LEMMA UnderWayMessages ==
    ASSUME StreamInv, NEW c \in Channels
    PROVE  UnderWay(Stages, Reach(c), c) \subseteq Message
<1>1. 2..Reach(c) \subseteq 1..6
  BY ReachRange
<1>. QED BY <1>1, StageMessages DEF StreamInv, MuxInv, UnderWay

\* The numbers of messages are those of the abstract streams.
LEMMA NumberRange ==
    ASSUME StreamInv, NEW m \in Message, NEW i \in 1..6, m \in Stages[i]
    PROVE  m.num \in 1..MaxSends[m.ch] /\ m.ch \in Channels
<1>1. m.ch \in Channels /\ m.num \in Nat \ {0}
  BY DEF Message
<1>2. m.num <= sent[m.ch] /\ sent[m.ch] <= MaxSends[m.ch]
  BY <1>1 DEF StreamInv, SentInv
<1>3. sent[m.ch] \in Nat /\ MaxSends[m.ch] \in Nat
  BY <1>1, MaxSendsAssumption DEF StreamInv, MuxInv, TypeOK
<1>. QED BY <1>1, <1>2, <1>3

\* The last of what is under way on a channel is lost, and its path with it.
CutAt(c) ==
    LET U == UnderWay(Stages, Reach(c), c)
        V == UnderWay(Stages', Reach(c)', c)
    IN  /\ V \subseteq U /\ \A x \in V, y \in U \ V : x.num < y.num
        /\ Open(c)' => Open(c) /\ V = U

LEMMA StreamCuts ==
    ASSUME \A c \in Channels : CutAt(c), UNCHANGED <<delivered, Listening>>
    PROVE  Stream!Cut
<1>1. Received' = Received
  BY DEF Received
<1>2. DOMAIN Transit' = Channels
  BY TransitIs
<1>3. ASSUME NEW c \in Channels
      PROVE  /\ Transit'[c] \subseteq Transit[c]
             /\ \A k \in Transit'[c], n \in Transit[c] \ Transit'[c] : k < n
             /\ Open(c)' => Open(c) /\ Transit'[c] = Transit[c]
  <2>. DEFINE U == UnderWay(Stages, Reach(c), c)
              V == UnderWay(Stages', Reach(c)', c)
  <2>1. /\ V \subseteq U /\ \A x \in V, y \in U \ V : x.num < y.num
        /\ Open(c)' => Open(c) /\ V = U
    BY DEF CutAt
  <2>2. Transit[c] = Numbers(U) /\ Transit'[c] = Numbers(V)
    BY TransitIs
  <2>. HIDE DEF U, V
  <2>3. Numbers(V) \subseteq Numbers(U)
    BY <2>1 DEF Numbers
  <2>4. ASSUME NEW k \in Numbers(V), NEW n \in Numbers(U) \ Numbers(V) PROVE k < n
    <3>1. PICK x \in V : k = x.num
      BY DEF Numbers
    <3>2. PICK y \in U : n = y.num
      BY DEF Numbers
    <3>3. y \notin V
      BY <2>4, <3>2 DEF Numbers
    <3>. QED BY <2>1, <3>1, <3>2, <3>3
  <2>. QED BY <2>1, <2>2, <2>3, <2>4
<1>4. OpenChannels' \subseteq OpenChannels /\ \A c \in OpenChannels' : Transit'[c] = Transit[c]
  BY <1>3 DEF OpenChannels
<1>. QED BY <1>1, <1>2, <1>3, <1>4 DEF Stream!Cut

Streams == <<Transit, Received, Listening, OpenChannels>>

\* A message that moves along a path leaves what is under way as it is.
LEMMA MoveSettles ==
    ASSUME NEW k \in 2..5, NEW m, Moves(Stages, Stages', k, m),
           \A c \in Channels : m.ch = c => k # Reach(c)
    PROVE  Settled
<1>1. ASSUME NEW c \in Channels
      PROVE  UnderWay(Stages', Reach(c), c) = UnderWay(Stages, Reach(c), c)
  <2>1. Reach(c) \in 2..6
    BY ReachRange
  <2>. QED BY <2>1, UnderWayMoved
<1>. QED BY <1>1 DEF Settled

LEMMA DropSettles ==
    ASSUME NEW k \in 2..6, NEW m, Drops(Stages, Stages', k, m),
           \A c \in Channels : m.ch = c /\ Arrives(m) => Reach(c) < k
    PROVE  Settled
<1>1. ASSUME NEW c \in Channels
      PROVE  UnderWay(Stages', Reach(c), c) = UnderWay(Stages, Reach(c), c)
  <2>1. Reach(c) \in 2..6
    BY ReachRange
  <2>. QED BY <2>1, UnderWayDropped
<1>. QED BY <1>1 DEF Settled

LEMMA SendTakes ==
    ASSUME StreamInv, NEW c \in Channels, NEW k \in Kinds[c], Send(c, k)
    PROVE  Stream!Next \/ UNCHANGED Streams
<1>0. Steady /\ UNCHANGED delivered
  <2>1. /\ UNCHANGED <<recvTask, registering, registered, inTask, link, outTask, sendTask>>
        /\ UNCHANGED delivered
    BY DEF Send, receiverVars
  <2>. QED BY <2>1, SteadyPaths
<1>1. PICK m \in Message : Enters(Stages, Stages', m) /\ m.num = sent[c] + 1 /\ m.ch = c
  BY SendMoves
<1>2. \A d \in Channels : Reach(d) \in 2..6
  BY ReachRange
<1>3. ASSUME NEW d \in Channels, ~(Reach(d) = 6 /\ d = c /\ Arrives(m))
      PROVE  UnderWay(Stages', Reach(d), d) = UnderWay(Stages, Reach(d), d)
  BY <1>1, <1>2, <1>3, UnderWayEntered
<1>4. CASE ~(Reach(c) = 6 /\ Arrives(m))
  <2>1. Settled
    BY <1>3, <1>4 DEF Settled
  <2>. QED BY <1>0, <2>1, StreamStutters DEF Stream!streamVars, Streams
<1>5. CASE Reach(c) = 6 /\ Arrives(m)
  <2>1. UnderWay(Stages', 6, c) = UnderWay(Stages, 6, c) \cup {m}
    BY <1>1, <1>5, UnderWayEntered
  <2>2. /\ Transit[c] = Numbers(UnderWay(Stages, 6, c))
        /\ Transit'[c] = Numbers(UnderWay(Stages', 6, c))
        /\ \A d \in Channels \ {c} : Transit'[d] = Transit[d]
    BY <1>0, <1>3, <1>5, TransitIs DEF Steady
  <2>3. Transit'[c] = Transit[c] \cup {m.num}
    BY <2>1, <2>2 DEF Numbers
  <2>4. Transit' = [Transit EXCEPT ![c] = @ \cup {m.num}]
    <3>1. /\ DOMAIN Transit = Channels /\ DOMAIN Transit' = Channels
          /\ Transit = [d \in Channels |-> Transit[d]]
          /\ Transit' = [d \in Channels |-> Transit'[d]]
      BY TransitIs
    <3>. QED BY <2>2, <2>3, <3>1
  <2>5. c \in OpenChannels
    BY <1>5, ReachRange DEF OpenChannels
  <2>6. \A n \in Transit[c] : n < m.num
    <3>1. ASSUME NEW x \in UnderWay(Stages, 6, c) PROVE x.num < m.num
      <4>1. PICK i \in 2..6 : x \in Of(Stages[i], c)
        BY UnderWayOf
      <4>2. i \in 1..6 /\ x \in Stages[i] /\ x.ch = c
        BY <4>1 DEF Of
      <4>. QED BY <1>1, <4>2 DEF Enters, Ahead
    <3>. QED BY <2>2, <3>1 DEF Numbers
  <2>7. \A i \in DOMAIN Received[c] : Received[c][i] < m.num
    <3>1. ASSUME NEW i \in DOMAIN delivered[c] PROVE delivered[c][i].num < m.num
      <4>1. delivered[c][i] \in Stages[1] /\ 1 \in 1..6
        BY StageNames DEF Pool, ToSet
      <4>2. delivered[c][i].ch = c
        BY DEF StreamInv, MuxInv, OwnInv, Owned
      <4>. QED BY <1>1, <4>1, <4>2 DEF Enters, Ahead
    <3>2. DOMAIN Received[c] = DOMAIN delivered[c]
          /\ \A i \in DOMAIN delivered[c] : Received[c][i] = delivered[c][i].num
      BY DEF Received
    <3>. QED BY <3>1, <3>2
  <2>8. UNCHANGED <<Received, Listening, OpenChannels>>
    BY <1>0 DEF Received, Steady
  <2>9. Stream!Take(c, m.num)
    BY <2>4, <2>5, <2>6, <2>7, <2>8 DEF Stream!Take, Stream!IsNext
  <2>10. m.num \in 1..MaxSends[c]
    <3>1. sent[c] \in Nat /\ sent[c] < MaxSends[c] /\ MaxSends[c] \in Nat
      BY MaxSendsAssumption DEF StreamInv, MuxInv, TypeOK, Send
    <3>. QED BY <1>1, <3>1
  <2>. QED BY <2>9, <2>10 DEF Stream!Next
<1>. QED BY <1>4, <1>5

\* The queues of a channel are all that the stages hold of it.
LEMMA PoolOf ==
    ASSUME NEW logs \in [Channels -> Seq(Message)], Owned(logs), NEW c \in Channels
    PROVE  Of(Pool(logs), c) = Of(ToSet(logs[c]), c)
<1>1. ASSUME NEW d \in Channels, NEW x \in ToSet(logs[d]) PROVE x.ch = d
  BY DEF Owned, ToSet
<1>. QED BY <1>1 DEF Of, Pool

LEMMA PoolOfSame ==
    ASSUME NEW logs \in [Channels -> Seq(Message)], Owned(logs),
           NEW new \in [Channels -> Seq(Message)], Owned(new), NEW c \in Channels
    PROVE  /\ new[c] = logs[c] => Of(Pool(new), c) = Of(Pool(logs), c)
           /\ new[c] = <<>> => Of(Pool(new), c) = {}
<1>1. Of(Pool(new), c) = Of(ToSet(new[c]), c) /\ Of(Pool(logs), c) = Of(ToSet(logs[c]), c)
  BY PoolOf
<1>2. new[c] = <<>> => Of(ToSet(new[c]), c) = {}
  BY RisingNone DEF Of
<1>. QED BY <1>1, <1>2

\* Cuts, channel by channel.
LEMMA CutNone ==
    ASSUME NEW c \in Channels, Reach(c)' = Reach(c),
           \A i \in 2..6 : Of(Stages'[i], c) = Of(Stages[i], c)
    PROVE  CutAt(c)
<1>1. 2..Reach(c) \subseteq 2..6
  BY ReachRange
<1>2. UnderWay(Stages', Reach(c), c) = UnderWay(Stages, Reach(c), c)
  BY <1>1, UnderWaySame
<1>3. UnderWay(Stages', Reach(c)', c) = UnderWay(Stages, Reach(c), c)
  BY <1>2
<1>4. Open(c)' => Open(c)
  BY ReachRange
<1>. QED BY <1>3, <1>4 DEF CutAt

LEMMA CutFrom ==
    ASSUME StreamInv, NEW c \in Channels, NEW e \in 2..5, Reach(c)' <= Reach(c), Reach(c)' <= e,
           \A i \in 2..(e - 1) : Of(Stages'[i], c) = Of(Stages[i], c),
           Of(Stages'[e], c) \subseteq Of(Stages[e], c),
           \A x \in Of(Stages'[e], c), y \in Of(Stages[e], c) \ Of(Stages'[e], c) :
              x.num < y.num
    PROVE  CutAt(c)
<1>. DEFINE a == Reach(c)
            b == Reach(c)'
            U == UnderWay(Stages, a, c)
            V == UnderWay(Stages', b, c)
<1>1. a \in 2..6 /\ b \in 2..6 /\ (Open(c)' <=> b = 6)
  BY ReachRange
<1>2. InTurn(Stages) /\ e \in 2..6
  BY DEF StreamInv, OrderInv
<1>3. V \subseteq U /\ \A x \in V, y \in U \ V : x.num < y.num
  BY <1>1, <1>2, UnderWayCut
<1>4. ~Open(c)'
  BY <1>1
<1>. QED BY <1>3, <1>4 DEF CutAt

LEMMA StagesSame ==
    ASSUME UNCHANGED <<outbox, outgoing, sending, wire, incoming, delivered>>
    PROVE  \A i \in 1..6 : Stages'[i] = Stages[i]
BY StageNames

LEMMA RestStutters ==
    ASSUME Steady, UNCHANGED <<outbox, outgoing, sending, wire, incoming, delivered>>
    PROVE  Settled /\ UNCHANGED Streams
<1>1. ASSUME NEW c \in Channels
      PROVE  UnderWay(Stages', Reach(c), c) = UnderWay(Stages, Reach(c), c)
  <2>1. 2..Reach(c) \subseteq 1..6
    BY ReachRange
  <2>. QED BY <2>1, StagesSame, UnderWaySame
<1>2. Settled
  BY <1>1 DEF Settled
<1>. QED BY <1>2, StreamStutters DEF Stream!streamVars, Streams

LEMMA EndSendCuts ==
    ASSUME StreamInv, NEW how \in Over, EndSend(how),
           UNCHANGED <<outbox, outTask, wire, link, receiverVars>>
    PROVE  Stream!Next
<1>1. ASSUME NEW c \in Channels PROVE CutAt(c)
  <2>1. (Receiving(c)' <=> Receiving(c)) /\ ~Sending(c)'
    BY DEF EndSend, Receiving, Sending, Unregistered, receiverVars
  <2>2. Reach(c)' <= Reach(c) /\ Reach(c)' <= 3
    BY <2>1, ReachRange
  <2>3. Stages'[2] = Stages[2] /\ Stages'[3] = Stages[3]
    BY StageNames DEF receiverVars
  <2>4. 3 \in 2..5 /\ \A i \in 2..(3 - 1) : i = 2
    OBVIOUS
  <2>. QED BY <2>2, <2>3, <2>4, CutFrom
<1>2. UNCHANGED <<delivered, Listening>>
  BY DEF receiverVars, Listening
<1>3. Stream!Cut
  BY <1>1, <1>2, StreamCuts
<1>. QED BY <1>3 DEF Stream!Next

LEMMA EndOutCuts ==
    ASSUME StreamInv, NEW c \in Channels, NEW how \in Over, EndOut(c, how),
           UNCHANGED <<outgoing, sendTask, sending, wire, link, receiverVars>>
    PROVE  Stream!Next
<1>0. /\ outbox \in [Channels -> Seq(Message)] /\ Owned(outbox)
      /\ outTask \in [Channels -> {"none", "running"} \cup Over]
  BY DEF StreamInv, MuxInv, TypeOK, OwnInv
<1>1. /\ outTask'[c] \in Over /\ \A d \in Channels \ {c} : outTask'[d] = outTask[d]
      /\ \A d \in Channels \ {c} : Of(Pool(outbox'), d) = Of(Pool(outbox), d)
  <2>1. outTask' = [outTask EXCEPT ![c] = how] /\ outbox' = [outbox EXCEPT ![c] = <<>>]
    BY DEF EndOut
  <2>2. outTask'[c] \in Over /\ \A d \in Channels \ {c} : outTask'[d] = outTask[d]
    BY <1>0, <2>1
  <2>3. /\ Of(Pool(outbox'), c) = {}
        /\ \A d \in Channels \ {c} : Of(Pool(outbox'), d) = Of(Pool(outbox), d)
    <3>1. outbox' \in [Channels -> Seq(Message)] /\ Owned(outbox')
      BY <1>0, <2>1, OwnNone
    <3>2. outbox'[c] = <<>> /\ \A d \in Channels \ {c} : outbox'[d] = outbox[d]
      BY <1>0, <2>1
    <3>. QED BY <1>0, <3>1, <3>2, PoolOfSame
  <2>. QED BY <2>2, <2>3
<1>2. ASSUME NEW d \in Channels
      PROVE  (Receiving(d)' <=> Receiving(d)) /\ (Sending(d)' <=> Sending(d))
  BY DEF Receiving, Sending, Unregistered, receiverVars
<1>3. \A i \in 2..5 : Stages'[i] = Stages[i]
  BY StageNames DEF receiverVars
<1>4. CutAt(c)
  <2>1. ~Open(c)'
    BY <1>1 DEF Open
  <2>2. Reach(c)' <= Reach(c) /\ Reach(c)' <= 5
    BY <1>2, <2>1, ReachRange
  <2>3. 5 \in 2..5 /\ 2..(5 - 1) \subseteq 2..5
    OBVIOUS
  <2>. QED BY <1>3, <2>2, <2>3, CutFrom
<1>5. ASSUME NEW d \in Channels \ {c} PROVE CutAt(d)
  <2>1. Open(d)' <=> Open(d)
    BY <1>1, <1>2 DEF Open
  <2>2. Reach(d)' = Reach(d)
    BY <1>2, <2>1, ReachSame
  <2>3. ASSUME NEW i \in 2..6 PROVE Of(Stages'[i], d) = Of(Stages[i], d)
    <3>1. CASE i = 6
      BY <1>1, <3>1, StageNames
    <3>. QED BY <1>3, <3>1
  <2>. QED BY <2>2, <2>3, CutNone
<1>6. UNCHANGED <<delivered, Listening>>
  BY DEF receiverVars, Listening
<1>7. Stream!Cut
  BY <1>4, <1>5, <1>6, StreamCuts
<1>. QED BY <1>7 DEF Stream!Next

LEMMA EndInCuts ==
    ASSUME StreamInv, NEW c \in Channels, NEW how \in Over, EndIn(c, how), inTask[c] = "running",
           UNCHANGED <<senderVars, wire, link, recvTask, registering, registered, delivered>>
    PROVE  Stream!Next
<1>0. /\ incoming \in [Channels -> Seq(Message)] /\ Owned(incoming)
      /\ inTask \in [Channels -> {"none", "running"} \cup Over]
  BY DEF StreamInv, MuxInv, TypeOK, OwnInv
<1>1. /\ inTask'[c] \in Over /\ \A d \in Channels \ {c} : inTask'[d] = inTask[d]
      /\ Of(Pool(incoming'), c) = {}
      /\ \A d \in Channels \ {c} : Of(Pool(incoming'), d) = Of(Pool(incoming), d)
  <2>1. inTask' = [inTask EXCEPT ![c] = how] /\ incoming' = [incoming EXCEPT ![c] = <<>>]
    BY DEF EndIn
  <2>2. inTask'[c] \in Over /\ \A d \in Channels \ {c} : inTask'[d] = inTask[d]
    BY <1>0, <2>1
  <2>3. /\ Of(Pool(incoming'), c) = {}
        /\ \A d \in Channels \ {c} : Of(Pool(incoming'), d) = Of(Pool(incoming), d)
    <3>1. incoming' \in [Channels -> Seq(Message)] /\ Owned(incoming')
      BY <1>0, <2>1, OwnNone
    <3>2. incoming'[c] = <<>> /\ \A d \in Channels \ {c} : incoming'[d] = incoming[d]
      BY <1>0, <2>1
    <3>. QED BY <1>0, <3>1, <3>2, PoolOfSame
  <2>. QED BY <2>2, <2>3
<1>2. \A i \in 3..6 : Stages'[i] = Stages[i]
  BY StageNames DEF senderVars
<1>3. CutAt(c)
  <2>1. ~Receiving(c)'
    BY <1>1 DEF Receiving
  <2>2. Reach(c)' <= Reach(c) /\ Reach(c)' <= 2
    BY <2>1, ReachRange
  <2>3. 2 \in 2..5 /\ 2..(2 - 1) = {}
    OBVIOUS
  <2>4. Of(Stages'[2], c) = {}
    BY <1>1, StageNames
  <2>. QED BY <2>2, <2>3, <2>4, CutFrom
<1>4. ASSUME NEW d \in Channels \ {c} PROVE CutAt(d)
  <2>1. /\ Receiving(d)' <=> Receiving(d)
        /\ Sending(d)' <=> Sending(d)
        /\ Open(d)' <=> Open(d)
    BY <1>1 DEF Open, Sending, Receiving, Unregistered, senderVars
  <2>2. Reach(d)' = Reach(d)
    BY <2>1, ReachSame
  <2>3. ASSUME NEW i \in 2..6 PROVE Of(Stages'[i], d) = Of(Stages[i], d)
    <3>1. CASE i = 2
      BY <1>1, <3>1, StageNames
    <3>. QED BY <1>2, <3>1
  <2>. QED BY <2>2, <2>3, CutNone
<1>5. UNCHANGED <<delivered, Listening>>
  BY <1>1 DEF Listening, Over
<1>6. Stream!Cut
  BY <1>3, <1>4, <1>5, StreamCuts
<1>. QED BY <1>6 DEF Stream!Next

\* A path ends at the receive task, or at the registration.
LEMMA PathCuts ==
    ASSUME StreamInv,
           UNCHANGED <<outbox, outgoing, sending, wire, incoming, delivered, Listening>>,
           \A c \in Channels : Reach(c)' \in {2, Reach(c)}
    PROVE  Stream!Next
<1>1. ASSUME NEW c \in Channels PROVE CutAt(c)
  <2>1. \A i \in 2..6 : Stages'[i] = Stages[i]
    BY StagesSame
  <2>2. CASE Reach(c)' = Reach(c)
    BY <2>1, <2>2, CutNone
  <2>3. CASE Reach(c)' = 2
    <3>1. Reach(c)' <= Reach(c) /\ Reach(c)' <= 2
      BY <2>3, ReachRange
    <3>2. 2 \in 2..5 /\ 2..(2 - 1) = {}
      OBVIOUS
    <3>. QED BY <2>1, <3>1, <3>2, CutFrom
  <2>. QED BY <2>2, <2>3
<1>2. Stream!Cut
  BY <1>1, StreamCuts
<1>. QED BY <1>2 DEF Stream!Next

LEMMA LinkDownCuts ==
    ASSUME StreamInv, LinkDown
    PROVE  Stream!Next
<1>0. wire \in Seq(Part) /\ RisingParts(wire)
      /\ UNCHANGED <<outbox, outgoing, sendTask, sending, receiverVars>>
  BY DEF StreamInv, MuxInv, TypeOK, OrderInv, LinkDown, senderVars
<1>1. /\ Bodies(wire') \subseteq Bodies(wire)
      /\ \A x \in Bodies(wire'), y \in Bodies(wire) \ Bodies(wire') :
            x.ch = y.ch => x.num < y.num
  <2>1. PICK n \in 0..Len(wire) : wire' = SubSeq(wire, 1, n)
    BY DEF LinkDown
  <2>. QED BY <1>0, <2>1, PartsCut
<1>2. ASSUME NEW c \in Channels PROVE CutAt(c)
  <2>1. (Receiving(c)' <=> Receiving(c)) /\ ~Sending(c)'
    BY <1>0 DEF LinkDown, Receiving, Sending, Unregistered, receiverVars
  <2>2. Reach(c)' <= Reach(c) /\ Reach(c)' <= 3
    BY <2>1, ReachRange
  <2>3. Stages'[2] = Stages[2] /\ Stages'[3] = Bodies(wire') /\ Stages[3] = Bodies(wire)
    BY <1>0, StageNames DEF receiverVars
  <2>4. 3 \in 2..5 /\ \A i \in 2..(3 - 1) : i = 2
    OBVIOUS
  <2>5. /\ Of(Stages'[3], c) \subseteq Of(Stages[3], c)
        /\ \A x \in Of(Stages'[3], c), y \in Of(Stages[3], c) \ Of(Stages'[3], c) :
              x.num < y.num
    BY <1>1, <2>3 DEF Of
  <2>. QED BY <2>2, <2>3, <2>4, <2>5, CutFrom
<1>3. UNCHANGED <<delivered, Listening>>
  BY <1>0 DEF receiverVars, Listening
<1>4. Stream!Cut
  BY <1>2, <1>3, StreamCuts
<1>. QED BY <1>4 DEF Stream!Next

LEMMA SendTaskRefines ==
    ASSUME StreamInv, SendTaskStep
    PROVE  Stream!Next \/ UNCHANGED Streams
<1>0. /\ UNCHANGED <<recvTask, registering, registered, inTask, link, outTask, delivered>>
      /\ UNCHANGED <<outbox, link, receiverVars>>
  BY DEF SendTaskStep, WriteChannelId, WriteFrame, receiverVars
<1>1. CASE EndSend("ended") /\ UNCHANGED wire
  <2>1. Stream!Next
    BY <1>0, <1>1, EndSendCuts DEF Over
  <2>. QED BY <2>1
<1>2. CASE WriteChannelId /\ ~(EndSend("ended") /\ UNCHANGED wire)
  <2>1. sendTask = "recv" /\ sendTask' = "body" /\ Moves(Stages, Stages', 4, Head(outgoing))
    BY <1>2, WriteChannelIdMoves DEF WriteChannelId
  <2>2. Steady
    BY <1>0, <2>1, SteadyPaths DEF Over
  <2>3. 4 \in 2..5 /\ \A c \in Channels : Reach(c) # 4
    BY ReachRange
  <2>4. Settled
    BY <2>1, <2>3, MoveSettles
  <2>. QED BY <1>0, <2>2, <2>4, StreamStutters DEF Stream!streamVars, Streams
<1>3. CASE WriteFrame /\ ~(EndSend("ended") /\ UNCHANGED wire)
  <2>1. sendTask = "body" /\ sendTask' = "recv" /\ Moves(Stages, Stages', 3, sending[1])
    BY <1>3, WriteFrameMoves DEF WriteFrame
  <2>2. link = "up"
    BY <1>3 DEF WriteFrame
  <2>3. Steady
    BY <1>0, <2>1, SteadyPaths DEF Over
  <2>4. ASSUME NEW c \in Channels PROVE Reach(c) # 3
    <3>1. Receiving(c) => Sending(c)
      BY <2>1, <2>2 DEF Sending, Over
    <3>. QED BY <3>1, ReachRange
  <2>5. 3 \in 2..5
    OBVIOUS
  <2>6. Settled
    BY <2>1, <2>4, <2>5, MoveSettles
  <2>. QED BY <1>0, <2>3, <2>6, StreamStutters DEF Stream!streamVars, Streams
<1>. QED BY <1>1, <1>2, <1>3 DEF SendTaskStep

LEMMA OutgoingRefines ==
    ASSUME StreamInv, NEW c \in Channels, Outgoing(c)
    PROVE  Stream!Next \/ UNCHANGED Streams
<1>. DEFINE m == Head(outbox[c])
<1>0. /\ UNCHANGED <<recvTask, registering, registered, inTask, link, sendTask, delivered>>
      /\ UNCHANGED <<sendTask, sending, wire, link, receiverVars>>
      /\ outTask[c] = "running"
  BY DEF Outgoing, receiverVars
<1>1. CASE EndOut(c, "ended") /\ UNCHANGED outgoing
  <2>1. "ended" \in Over
    BY DEF Over
  <2>2. Stream!Next
    BY <1>0, <1>1, <2>1, EndOutCuts
  <2>. QED BY <2>2
<1>2. CASE Drops(Stages, Stages', 6, m) /\ UNCHANGED outTask /\ m.kind = "unserializable"
  <2>1. Steady
    BY <1>0, <1>2, SteadyPaths
  <2>2. 6 \in 2..6 /\ ~Arrives(m)
    BY <1>2 DEF Arrives
  <2>. HIDE DEF m
  <2>3. Settled
    BY <1>2, <2>2, DropSettles
  <2>. QED BY <1>0, <2>1, <2>3, StreamStutters DEF Stream!streamVars, Streams
<1>3. CASE Moves(Stages, Stages', 5, m) /\ UNCHANGED outTask /\ m.kind # "unserializable"
  <2>1. Steady
    BY <1>0, <1>3, SteadyPaths
  <2>2. m.ch = c
    BY OwnTail DEF StreamInv, MuxInv, TypeOK, OwnInv, Outgoing
  <2>. HIDE DEF m
  <2>3. Reach(c) # 5
    <3>1. Sending(c) => Open(c)
      BY <1>0 DEF Open, Over
    <3>. QED BY <3>1, ReachRange
  <2>4. 5 \in 2..5 /\ \A d \in Channels : m.ch = d => Reach(d) # 5
    BY <2>2, <2>3
  <2>5. Settled
    BY <1>3, <2>4, MoveSettles
  <2>. QED BY <1>0, <2>1, <2>5, StreamStutters DEF Stream!streamVars, Streams
<1>. HIDE DEF m
<1>4. \/ EndOut(c, "ended") /\ UNCHANGED outgoing
      \/ Drops(Stages, Stages', 6, m) /\ UNCHANGED outTask /\ m.kind = "unserializable"
      \/ Moves(Stages, Stages', 5, m) /\ UNCHANGED outTask /\ m.kind # "unserializable"
  BY OutgoingMoves DEF m
<1>. QED BY <1>1, <1>2, <1>3, <1>4

\* A message that is dropped is missed when nobody listens, and else was not to
\* arrive, or its path is over.
LEMMA ReceiveRefines ==
    ASSUME StreamInv, Receive
    PROVE  Stream!Next \/ UNCHANGED Streams
<1>. DEFINE m == wire[2].msg
            c == m.ch
<1>0. /\ recvTask = "running"
      /\ UNCHANGED <<recvTask, registering, registered, inTask, link, outTask, sendTask, delivered>>
  BY DEF Receive, senderVars
<1>1. Steady
  BY <1>0, SteadyPaths
<1>2. /\ m \in Message
      /\ \/ (c \notin registered \/ inTask[c] # "running") /\ Drops(Stages, Stages', 3, m)
         \/ c \in registered /\ inTask[c] = "running" /\ Moves(Stages, Stages', 2, m)
  BY ReceiveMoves
<1>. HIDE DEF m
<1>3. c \in Channels
  BY <1>2 DEF Message
<1>4. CASE Moves(Stages, Stages', 2, m) /\ c \in registered /\ inTask[c] = "running"
  <2>1. Receiving(c)
    BY <1>0, <1>4 DEF Receiving, Unregistered, Over
  <2>2. 2 \in 2..5 /\ \A d \in Channels : m.ch = d => Reach(d) # 2
    BY <1>3, <2>1, ReachRange
  <2>3. Settled
    BY <1>4, <2>2, MoveSettles
  <2>. QED BY <1>0, <1>1, <2>3, StreamStutters DEF Stream!streamVars, Streams
<1>5. CASE Drops(Stages, Stages', 3, m) /\ ~(Arrives(m) /\ Receiving(c))
  <2>1. 3 \in 2..6 /\ \A d \in Channels : m.ch = d /\ Arrives(m) => Reach(d) < 3
    BY <1>3, <1>5, ReachRange
  <2>2. Settled
    BY <1>5, <2>1, DropSettles
  <2>. QED BY <1>0, <1>1, <2>2, StreamStutters DEF Stream!streamVars, Streams
<1>6. CASE /\ Drops(Stages, Stages', 3, m) /\ Arrives(m) /\ Receiving(c)
           /\ c \notin registered \/ inTask[c] # "running"
  <2>1. c \notin Listening
    BY <1>3, <1>6 DEF Listening, Receiving, Unregistered, StreamInv, MuxInv, TypeOK
  <2>2. incoming[c] = <<>>
    <3>1. inTask[c] # "running" \/ c \in registering
      BY <1>3, <2>1 DEF Listening
    <3>. QED BY <1>3, <3>1 DEF StreamInv, OpenInv
  <2>3. Of(Stages[2], c) = {}
    <3>1. incoming \in [Channels -> Seq(Message)] /\ Owned(incoming)
      BY DEF StreamInv, MuxInv, TypeOK, OwnInv
    <3>2. Of(Pool(incoming), c) = Of(ToSet(incoming[c]), c)
      BY <1>3, <3>1, PoolOf
    <3>. QED BY <2>2, <3>2, RisingNone, StageNames DEF Of
  <2>4. InTurn(Stages) /\ 3 \in 2..6 /\ Reach(c) \in 2..6 /\ 3 <= Reach(c)
    BY <1>3, <1>6, ReachRange DEF StreamInv, OrderInv
  <2>5. \A i \in 2..(3 - 1) : Of(Stages[i], c) = {}
    <3>1. \A i \in 2..(3 - 1) : i = 2
      OBVIOUS
    <3>. QED BY <2>3, <3>1
  <2>6. /\ Stages[3] = Stages'[3] \cup {m} /\ Ahead({m}, Stages'[3])
        /\ \A i \in 2..6 : i # 3 => Stages'[i] = Stages[i]
    BY <1>6 DEF Drops
  <2>7. /\ UnderWay(Stages, Reach(c), c) = UnderWay(Stages', Reach(c), c) \cup {m}
        /\ \A x \in UnderWay(Stages', Reach(c), c) : m.num < x.num
    BY <1>6, <2>4, <2>5, <2>6, UnderWayFirst
  <2>8. ASSUME NEW d \in Channels \ {c}
        PROVE  UnderWay(Stages', Reach(d), d) = UnderWay(Stages, Reach(d), d)
    <3>1. Reach(d) \in 2..6
      BY ReachRange
    <3>. QED BY <1>6, <2>4, <3>1, UnderWayDropped
  <2>9. Stream!IsFirst(c, m.num) /\ Transit' = [Transit EXCEPT ![c] = @ \ {m.num}]
    BY <1>1, <1>3, <2>7, <2>8, UnderWayMessages, FirstLeaves
  <2>10. UNCHANGED <<Received, Listening, OpenChannels>>
    BY <1>0, <1>1 DEF Received, Steady
  <2>11. Stream!Miss(c, m.num)
    BY <2>1, <2>9, <2>10 DEF Stream!Miss
  <2>12. m.num \in 1..MaxSends[c]
    <3>1. m \in Stages[3] /\ 3 \in 1..6
      BY <2>6
    <3>. QED BY <1>2, <3>1, NumberRange
  <2>. QED BY <1>3, <2>11, <2>12 DEF Stream!Next
<1>. QED BY <1>2, <1>4, <1>5, <1>6

LEMMA SameSeq ==
    ASSUME NEW T, NEW s \in Seq(T), NEW t \in Seq(T), Len(s) = Len(t),
           \A i \in 1..Len(s) : s[i] = t[i]
    PROVE  s = t
OBVIOUS

LEMMA ReceivedAppend ==
    ASSUME NEW log \in Seq(Message), NEW m \in Message
    PROVE  [i \in DOMAIN Append(log, m) |-> Append(log, m)[i].num]
              = Append([i \in DOMAIN log |-> log[i].num], m.num)
<1>. DEFINE new == Append(log, m)
            nums == [i \in DOMAIN log |-> log[i].num]
            news == [i \in DOMAIN new |-> new[i].num]
            k == m.num
<1>1. /\ Len(log) \in Nat /\ DOMAIN log = 1..Len(log) /\ DOMAIN new = 1..(Len(log) + 1)
      /\ new[Len(log) + 1] = m /\ \A i \in 1..Len(log) : new[i] = log[i]
      /\ \A i \in DOMAIN new : new[i] \in Message
  OBVIOUS
<1>2. k \in Nat /\ \A i \in DOMAIN log : log[i].num \in Nat
  <2>1. \A x \in Message : x.num \in Nat
    BY DEF Message
  <2>. QED BY <1>1, <2>1
<1>. HIDE DEF new, k
<1>3. nums \in Seq(Nat) /\ Len(nums) = Len(log) /\ \A i \in 1..Len(log) : nums[i] = log[i].num
  BY <1>1, <1>2
<1>4. /\ DOMAIN news = 1..(Len(log) + 1) /\ news[Len(log) + 1] = k
      /\ \A i \in 1..Len(log) : news[i] = log[i].num
      /\ news = [i \in 1..(Len(log) + 1) |-> news[i]]
  BY <1>1 DEF k
<1>. HIDE DEF nums, news
<1>5. /\ Append(nums, k) \in Seq(Nat) /\ Len(Append(nums, k)) = Len(log) + 1
      /\ \A i \in 1..Len(log) : Append(nums, k)[i] = nums[i]
      /\ Append(nums, k)[Len(log) + 1] = k
  BY <1>2, <1>3
<1>6. \A i \in 1..(Len(log) + 1) : i \in 1..Len(log) \/ i = Len(log) + 1
  BY <1>1
<1>7. news \in Seq(Nat) /\ Len(news) = Len(log) + 1
  <2>1. \A i \in 1..Len(log) : news[i] \in Nat
    BY <1>1, <1>2, <1>4
  <2>2. news[Len(log) + 1] \in Nat
    BY <1>2, <1>4
  <2>3. \A i \in 1..(Len(log) + 1) : news[i] \in Nat
    BY <1>6, <2>1, <2>2
  <2>4. Len(log) + 1 \in Nat
    BY <1>1
  <2>. QED BY <1>4, <2>3, <2>4
<1>8. \A i \in 1..(Len(log) + 1) : news[i] = Append(nums, k)[i]
  <2>1. \A i \in 1..Len(log) : news[i] = Append(nums, k)[i]
    BY <1>3, <1>4, <1>5
  <2>. QED BY <1>4, <1>5, <1>6, <2>1
<1>9. news = Append(nums, k)
  BY <1>5, <1>7, <1>8, SameSeq
<1>. QED BY <1>9 DEF news, nums, new, k

LEMMA IncomingRefines ==
    ASSUME StreamInv, NEW c \in Channels, Incoming(c)
    PROVE  Stream!Next \/ UNCHANGED Streams
<1>. DEFINE m == Head(incoming[c])
<1>0. /\ UNCHANGED <<recvTask, registering, registered, link, outTask, sendTask>>
      /\ UNCHANGED <<senderVars, wire, link, recvTask, registering, registered>>
      /\ inTask[c] = "running"
      /\ delivered \in [Channels -> Seq(Message)]
  BY DEF Incoming, senderVars, StreamInv, MuxInv, TypeOK
<1>1. CASE EndIn(c, "ended") /\ UNCHANGED delivered
  <2>1. "ended" \in Over
    BY DEF Over
  <2>2. Stream!Next
    BY <1>0, <1>1, <2>1, EndInCuts
  <2>. QED BY <2>2
<1>2. m.ch = c /\ m \in Message
  BY OwnTail DEF StreamInv, MuxInv, TypeOK, OwnInv, Incoming
<1>3. \/ EndIn(c, "ended") /\ UNCHANGED delivered
      \/ /\ Drops(Stages, Stages', 2, m) /\ m.kind = "undecodable"
         /\ UNCHANGED <<inTask, delivered>>
      \/ /\ Moves(Stages, Stages', 1, m) /\ UNCHANGED inTask /\ m.kind # "undecodable"
         /\ delivered' = [delivered EXCEPT ![c] = Append(@, m)]
  BY IncomingMoves
<1>. HIDE DEF m
<1>4. CASE /\ Drops(Stages, Stages', 2, m) /\ m.kind = "undecodable"
           /\ UNCHANGED <<inTask, delivered>>
  <2>1. Steady
    BY <1>0, <1>4, SteadyPaths
  <2>2. 2 \in 2..6 /\ ~Arrives(m)
    BY <1>4 DEF Arrives
  <2>3. Settled
    BY <1>4, <2>2, DropSettles
  <2>. QED BY <1>4, <2>1, <2>3, StreamStutters DEF Stream!streamVars, Streams
<1>5. CASE /\ Moves(Stages, Stages', 1, m) /\ UNCHANGED inTask /\ m.kind # "undecodable"
           /\ delivered' = [delivered EXCEPT ![c] = Append(@, m)]
  <2>1. Steady
    BY <1>0, <1>5, SteadyPaths
  <2>2. /\ Stages[2] = Stages'[2] \cup {m} /\ Ahead({m}, Stages'[2])
        /\ \A i \in 2..6 : i # 2 => Stages'[i] = Stages[i]
    BY <1>5 DEF Moves
  <2>3. Arrives(m)
    <3>1. m \in Pool(incoming)
      BY <2>2, StageNames
    <3>. QED BY <1>5, <3>1 DEF StreamInv, KindInv, Arrives
  <2>4. InTurn(Stages) /\ 2 \in 2..6 /\ Reach(c) \in 2..6 /\ 2 <= Reach(c)
    BY ReachRange DEF StreamInv, OrderInv
  <2>5. /\ UnderWay(Stages, Reach(c), c) = UnderWay(Stages', Reach(c), c) \cup {m}
        /\ \A x \in UnderWay(Stages', Reach(c), c) : m.num < x.num
    <3>. DEFINE old == Stages
                new == Stages'
                reach == Reach(c)
    <3>1. /\ old[2] = new[2] \cup {m} /\ Ahead({m}, new[2])
          /\ \A i \in 2..6 : i # 2 => new[i] = old[i]
          /\ InTurn(old) /\ reach \in 2..6
      BY <2>2, <2>4
    <3>. HIDE DEF old, new, reach
    <3>2. \A i \in 2..(2 - 1) : Of(old[i], c) = {}
      OBVIOUS
    <3>3. /\ UnderWay(old, reach, c) = UnderWay(new, reach, c) \cup {m}
          /\ \A x \in UnderWay(new, reach, c) : m.num < x.num
      BY <1>2, <2>3, <2>4, <3>1, <3>2, UnderWayFirst DEF reach
    <3>. QED BY <3>3 DEF old, new, reach
  <2>6. ASSUME NEW d \in Channels \ {c}
        PROVE  UnderWay(Stages', Reach(d), d) = UnderWay(Stages, Reach(d), d)
    <3>1. ASSUME NEW i \in 2..Reach(d) PROVE Of(Stages'[i], d) = Of(Stages[i], d)
      <4>1. i \in 2..6
        BY ReachRange
      <4>2. CASE i = 2
        BY <1>2, <2>2, <4>2 DEF Of
      <4>. QED BY <2>2, <4>1, <4>2
    <3>. QED BY <3>1, UnderWaySame
  <2>7. Stream!IsFirst(c, m.num) /\ Transit' = [Transit EXCEPT ![c] = @ \ {m.num}]
    BY <2>1, <2>5, <2>6, UnderWayMessages, FirstLeaves
  <2>8. Received' = [Received EXCEPT ![c] = Append(@, m.num)]
    <3>1. delivered'[c] = Append(delivered[c], m)
          /\ \A d \in Channels \ {c} : delivered'[d] = delivered[d]
      BY <1>0, <1>5
    <3>2. Received'[c] = Append(Received[c], m.num)
      BY <1>0, <1>2, <3>1, ReceivedAppend DEF Received
    <3>3. \A d \in Channels \ {c} : Received'[d] = Received[d]
      BY <3>1 DEF Received
    <3>4. /\ DOMAIN Received = Channels /\ DOMAIN Received' = Channels
          /\ Received = [d \in Channels |-> Received[d]]
          /\ Received' = [d \in Channels |-> Received'[d]]
      BY DEF Received
    <3>. QED BY <3>2, <3>3, <3>4
  <2>9. Stream!Deliver(c, m.num)
    BY <2>1, <2>7, <2>8 DEF Stream!Deliver, Steady
  <2>10. m.num \in 1..MaxSends[c]
    <3>1. m \in Stages[2] /\ 2 \in 1..6
      BY <2>2
    <3>. QED BY <1>2, <3>1, NumberRange
  <2>. QED BY <2>9, <2>10 DEF Stream!Next
<1>. QED BY <1>1, <1>3, <1>4, <1>5

LEMMA BridgeRefines ==
    ASSUME StreamInv, NEW c \in Channels, BridgeStep(c)
    PROVE  Stream!Next \/ UNCHANGED Streams
<1>1. CASE Outgoing(c)
  BY <1>1, OutgoingRefines
<1>2. CASE RegisterChannel(c)
  <2>0. /\ UNCHANGED <<recvTask, inTask, link, outTask, sendTask>>
        /\ UNCHANGED <<outbox, outgoing, sending, wire, incoming, delivered>>
        /\ registering \cup registered = registering' \cup registered'
        /\ c \in registering /\ registering' = registering \ {c}
    BY <1>2 DEF RegisterChannel, senderVars
  <2>1. ASSUME NEW d \in Channels
        PROVE  /\ Receiving(d)' <=> Receiving(d)
               /\ Sending(d)' <=> Sending(d)
               /\ Open(d)' <=> Open(d)
    <3>1. Unregistered(d)' <=> Unregistered(d)
      BY <2>0 DEF Unregistered
    <3>. QED BY <2>0, <3>1 DEF Open, Sending, Receiving
  <2>2. \A d \in Channels : Reach(d)' = Reach(d)
    BY <2>1, ReachSame
  <2>3. UNCHANGED <<Transit, Received, OpenChannels>>
    <3>1. ASSUME NEW d \in Channels
          PROVE  UnderWay(Stages', Reach(d), d) = UnderWay(Stages, Reach(d), d)
      <4>1. 2..Reach(d) \subseteq 1..6
        BY ReachRange
      <4>. QED BY <2>0, <4>1, StagesSame, UnderWaySame
    <3>2. UNCHANGED Transit
      BY <2>2, <3>1, TransitIs
    <3>. QED BY <2>0, <2>1, <3>2 DEF Received, OpenChannels
  <2>4. Listening' = Listening \cup {c}
    <3>1. inTask[c] # "none"
      BY <2>0 DEF StreamInv, OpenInv
    <3>. QED BY <2>0, <3>1 DEF Listening
  <2>5. Stream!Listen(c)
    BY <2>3, <2>4 DEF Stream!Listen
  <2>. QED BY <2>5 DEF Stream!Next
<1>3. CASE Incoming(c)
  BY <1>3, IncomingRefines
<1>4. CASE IncomingDone(c)
  <2>1. Stream!Next
    BY <1>4, EndInCuts DEF IncomingDone, Over
  <2>. QED BY <2>1
<1>. QED BY <1>1, <1>2, <1>3, <1>4 DEF BridgeStep

LEMMA UserRefines ==
    ASSUME StreamInv, NEW c \in Channels, UserStep(c)
    PROVE  Stream!Next \/ UNCHANGED Streams
<1>1. CASE \E k \in Kinds[c] : Send(c, k)
  BY <1>1, SendTakes
<1>2. CASE OpenOut(c)
  <2>1. /\ UNCHANGED <<recvTask, registering, registered, inTask, link, sendTask>>
        /\ UNCHANGED <<outbox, outgoing, sending, wire, incoming, delivered>>
        /\ outTask[c] = "none" /\ outTask' = [outTask EXCEPT ![c] = "running"]
    BY <1>2 DEF OpenOut, receiverVars
  <2>2. \A d \in Channels : outTask'[d] \in Over <=> outTask[d] \in Over
    BY <2>1 DEF StreamInv, MuxInv, TypeOK, Over
  <2>3. ASSUME NEW d \in Channels
        PROVE  /\ Receiving(d)' <=> Receiving(d)
               /\ Sending(d)' <=> Sending(d)
               /\ Open(d)' <=> Open(d)
    BY <2>1, <2>2 DEF Open, Sending, Receiving, Unregistered
  <2>4. Steady
    BY <2>1, <2>3, ReachSame DEF Steady, OpenChannels, Listening
  <2>. QED BY <2>1, <2>4, RestStutters
<1>3. CASE AbortOut(c)
  <2>1. Stream!Next
    BY <1>3, EndOutCuts DEF AbortOut, Over, senderVars
  <2>. QED BY <2>1
<1>4. CASE OpenIn(c)
  <2>1. /\ UNCHANGED <<recvTask, registered, link, outTask, sendTask>>
        /\ UNCHANGED <<outbox, outgoing, sending, wire, incoming, delivered>>
        /\ inTask[c] = "none" /\ inTask' = [inTask EXCEPT ![c] = "running"]
        /\ registering' = registering \cup {c}
    BY <1>4 DEF OpenIn, senderVars
  <2>2. /\ inTask'[c] = "running" /\ \A d \in Channels \ {c} : inTask'[d] = inTask[d]
        /\ c \notin registering \cup registered
    BY <2>1 DEF StreamInv, MuxInv, TypeOK, OpenInv
  <2>3. ASSUME NEW d \in Channels
        PROVE  /\ Receiving(d)' <=> Receiving(d)
               /\ Sending(d)' <=> Sending(d)
               /\ Open(d)' <=> Open(d)
    <3>1. (inTask'[d] \in Over <=> inTask[d] \in Over) /\ (Unregistered(d)' <=> Unregistered(d))
      BY <2>1, <2>2 DEF Unregistered, Over
    <3>. QED BY <2>1, <3>1 DEF Open, Sending, Receiving
  <2>4. Listening' = Listening
    BY <2>1, <2>2 DEF Listening
  <2>5. Steady
    BY <2>3, <2>4, ReachSame DEF Steady, OpenChannels
  <2>. QED BY <2>1, <2>5, RestStutters
<1>5. CASE AbortIn(c)
  <2>1. Stream!Next
    BY <1>5, EndInCuts DEF AbortIn, Over
  <2>. QED BY <2>1
<1>6. CASE UnregisterChannel(c)
  <2>1. /\ UNCHANGED <<recvTask, registering, inTask, link, outTask, sendTask>>
        /\ UNCHANGED <<outbox, outgoing, sending, wire, incoming, delivered>>
        /\ c \in registered /\ registered' = registered \ {c}
    BY <1>6 DEF UnregisterChannel, senderVars
  <2>2. inTask[c] # "none" /\ c \notin registering
    BY <2>1 DEF StreamInv, OpenInv
  <2>3. ASSUME NEW d \in Channels PROVE Reach(d)' \in {2, Reach(d)}
    <3>1. CASE d = c
      <4>1. ~Receiving(c)'
        BY <2>1, <2>2 DEF Receiving, Unregistered
      <4>. QED BY <3>1, <4>1, ReachRange
    <3>2. CASE d # c
      <4>1. /\ Receiving(d)' <=> Receiving(d)
            /\ Sending(d)' <=> Sending(d)
            /\ Open(d)' <=> Open(d)
        BY <2>1, <3>2 DEF Open, Sending, Receiving, Unregistered
      <4>. QED BY <4>1, ReachSame
    <3>. QED BY <3>1, <3>2
  <2>4. Stream!Next
    BY <2>1, <2>3, PathCuts DEF Listening
  <2>. QED BY <2>4
<1>7. CASE CloseReader(c)
  <2>1. /\ UNCHANGED <<recvTask, registering, registered, inTask, link, outTask, sendTask>>
        /\ UNCHANGED <<outbox, outgoing, sending, wire, incoming, delivered>>
    BY <1>7 DEF CloseReader, senderVars
  <2>. QED BY <2>1, SteadyPaths, RestStutters
<1>. QED BY <1>1, <1>2, <1>3, <1>4, <1>5, <1>6, <1>7 DEF UserStep

LEMMA StepRefines == StreamInv /\ [Next]_vars => [Stream!Next]_Streams
<1>. SUFFICES ASSUME StreamInv, [Next]_vars PROVE Stream!Next \/ UNCHANGED Streams
  OBVIOUS
<1>1. CASE UNCHANGED vars
  <2>1. /\ UNCHANGED <<recvTask, registering, registered, inTask, link, outTask, sendTask>>
        /\ UNCHANGED <<outbox, outgoing, sending, wire, incoming, delivered>>
    BY <1>1 DEF vars, senderVars, receiverVars
  <2>. QED BY <2>1, SteadyPaths, RestStutters
<1>2. CASE ReceiveError \/ AbortReceive
  <2>1. /\ UNCHANGED <<outbox, outgoing, sending, wire, incoming, delivered>>
        /\ UNCHANGED <<inTask, registering>> /\ recvTask' # "running"
    BY <1>2 DEF ReceiveError, AbortReceive, senderVars
  <2>2. UNCHANGED Listening
    BY <2>1 DEF Listening
  <2>3. \A c \in Channels : Reach(c)' \in {2, Reach(c)}
    <3>1. \A c \in Channels : ~Receiving(c)'
      BY <2>1 DEF Receiving
    <3>. QED BY <3>1, ReachRange
  <2>4. Stream!Next
    BY <2>1, <2>2, <2>3, PathCuts
  <2>. QED BY <2>4
<1>3. CASE AbortSend
  <2>1. Stream!Next
    BY <1>3, EndSendCuts DEF AbortSend, Over
  <2>. QED BY <2>1
<1>. QED BY <1>1, <1>2, <1>3, SendTaskRefines, ReceiveRefines, BridgeRefines, UserRefines,
            LinkDownCuts DEF Next, RecvTaskStep

\* Bridges, router and transport together implement, for each channel, the
\* abstract stream: what its user is handed comes in the order it was sent and
\* once, and nothing is lost but from the end of a path that is over, or while
\* nobody listens.
THEOREM MuxRefinement == Spec => ImplementsStreams
<1>1. Init => Stream!Init
  <2>. SUFFICES ASSUME Init PROVE Stream!Init
    OBVIOUS
  <2>1. \A i \in 1..6 : Stages[i] = {}
    <3>1. \A c \in Channels : outbox[c] = <<>> /\ incoming[c] = <<>> /\ delivered[c] = <<>>
      BY DEF Init
    <3>2. Pool(outbox) = {} /\ Pool(incoming) = {} /\ Pool(delivered) = {}
      BY <3>1, RisingNone DEF Pool
    <3>3. ToSet(sending) = {} /\ ToSet(outgoing) = {} /\ Bodies(wire) = {}
      BY RisingNone DEF Init, Bodies
    <3>. QED BY <3>2, <3>3, StageNames
  <2>2. ASSUME NEW c \in Channels
        PROVE  Numbers(UnderWay(Stages, Reach(c), c)) = {} /\ Open(c)
    <3>1. 2..Reach(c) \subseteq 1..6
      BY ReachRange
    <3>2. UnderWay(Stages, Reach(c), c) = {}
      BY <2>1, <3>1 DEF UnderWay
    <3>3. Open(c)
      BY DEF Init, Open, Sending, Receiving, Unregistered, Over
    <3>. QED BY <3>2, <3>3 DEF Numbers
  <2>3. Transit = [c \in Channels |-> {}]
    BY <2>2, TransitIs
  <2>4. Received = [c \in Channels |-> <<>>]
    <3>1. ASSUME NEW c \in Channels
          PROVE  [i \in DOMAIN delivered[c] |-> delivered[c][i].num] = <<>>
      BY DEF Init
    <3>. QED BY <3>1 DEF Received
  <2>5. Listening = {} /\ OpenChannels = Channels
    BY <2>2 DEF Listening, OpenChannels, Init
  <2>. QED BY <2>3, <2>4, <2>5 DEF Stream!Init
<1>. QED
  BY <1>1, StepRefines, StreamInvariant, PTL
  DEF Spec, ImplementsStreams, Stream!Spec, Stream!streamVars, Streams

-----------------------------------------------------------------------------
(***************************************************************************)
(* What is lost has an excuse                                              *)
(***************************************************************************)
\* The path of a channel is whole, or its losses are excused.
PathsInv == \A c \in Channels : Open(c) \/ Excused(c)

LEMMA PathOrExcuse == MuxInv /\ EndsInv => PathsInv
<1>. SUFFICES ASSUME MuxInv, EndsInv PROVE PathsInv
  OBVIOUS
<1>. SUFFICES ASSUME NEW c \in Channels, ~Excused(c) PROVE Open(c)
  BY Zenon DEF PathsInv
<1>1. recvTask \in {"running", "ended", "aborted"} /\ link \in {"up", "down"}
  BY DEF MuxInv, TypeOK, Over
<1>2. /\ inTask[c] \in {"none", "running", "ended", "aborted"}
      /\ outTask[c] \in {"none", "running", "ended", "aborted"}
  BY DEF MuxInv, TypeOK, Over
<1>3. /\ link = "up" /\ sendTask \notin Over /\ reader[c] /\ ~Unregistered(c)
      /\ recvTask # "aborted" /\ outTask[c] # "aborted" /\ inTask[c] # "aborted"
  BY <1>1 DEF Excused
<1>4. recvTask # "ended" /\ outTask[c] # "ended" /\ inTask[c] # "ended"
  BY <1>3 DEF EndsInv
<1>. QED BY <1>1, <1>2, <1>3, <1>4 DEF Open, Sending, Receiving, Over

\* A reason for an end does not go away.
LEMMA EndsSame ==
    ASSUME EndsInv, OpenInv, recvTask' = "ended" => recvTask = "ended" \/ link' = "down",
           link = "down" => link' = "down", sendTask \in Over => sendTask' \in Over,
           \A c \in Channels :
              /\ outTask'[c] = "ended" => outTask[c] = "ended" \/ sendTask' \in Over
              /\ inTask'[c] = "ended" => inTask[c] = "ended" \/ ~reader'[c] \/ Unregistered(c)'
              /\ inTask[c] = "ended" /\ ~reader[c] => ~reader'[c]
              /\ inTask[c] = "ended" /\ Unregistered(c) => Unregistered(c)'
    PROVE  EndsInv'
BY DEF EndsInv

\* No step registers a channel whose registration is over.
LEMMA StaysUnregistered ==
    ASSUME registering' \cup registered' \subseteq registering \cup registered,
           NEW c \in Channels, inTask'[c] = inTask[c], Unregistered(c)
    PROVE  Unregistered(c)'
BY DEF Unregistered

LEMMA EndsStep == StreamInv /\ EndsInv /\ [Next]_vars => EndsInv'
<1>. SUFFICES ASSUME StreamInv, EndsInv, [Next]_vars PROVE EndsInv'
  OBVIOUS
<1>0. /\ inTask \in [Channels -> {"none", "running"} \cup Over]
      /\ outTask \in [Channels -> {"none", "running"} \cup Over]
      /\ reader \in [Channels -> BOOLEAN]
      /\ registering \subseteq Channels /\ registered \subseteq Channels /\ OpenInv
  BY DEF StreamInv, MuxInv, TypeOK
<1>1. CASE UNCHANGED vars
  BY <1>0, <1>1, EndsSame DEF vars, senderVars, receiverVars, Unregistered
<1>2. CASE SendTaskStep \/ AbortSend
  <2>1. /\ UNCHANGED <<recvTask, link, outTask, inTask, reader, registering, registered>>
        /\ sendTask \in Over => sendTask' \in Over
    BY <1>2 DEF SendTaskStep, WriteChannelId, WriteFrame, AbortSend, EndSend, receiverVars, Over
  <2>. QED BY <1>0, <2>1, EndsSame DEF Unregistered
<1>3. CASE RecvTaskStep \/ AbortReceive \/ LinkDown
  <2>1. /\ UNCHANGED <<sendTask, outTask, inTask, reader, registering>>
        /\ registered' \subseteq registered
        /\ recvTask' = "ended" => recvTask = "ended" \/ link' = "down"
        /\ link = "down" => link' = "down"
    BY <1>3 DEF RecvTaskStep, Receive, ReceiveError, AbortReceive, LinkDown, senderVars,
                receiverVars
  <2>2. \A c \in Channels : Unregistered(c) => Unregistered(c)'
    BY <2>1, StaysUnregistered
  <2>. QED BY <1>0, <2>1, <2>2, EndsSame
<1>4. ASSUME NEW c \in Channels, Outgoing(c) \/ AbortOut(c) \/ OpenOut(c)
                                     \/ \E k \in Kinds[c] : Send(c, k)
      PROVE  EndsInv'
  <2>1. UNCHANGED <<recvTask, link, sendTask, inTask, reader, registering, registered>>
    BY <1>4 DEF Outgoing, AbortOut, OpenOut, Send, receiverVars
  <2>2. \/ UNCHANGED outTask
        \/ \E how \in {"running", "aborted"} : outTask' = [outTask EXCEPT ![c] = how]
        \/ outTask' = [outTask EXCEPT ![c] = "ended"] /\ sendTask \in Over
    BY <1>4 DEF Outgoing, AbortOut, OpenOut, Send, EndOut
  <2>3. \A d \in Channels : outTask'[d] = "ended" => outTask[d] = "ended" \/ sendTask \in Over
    BY <1>0, <2>2
  <2>. QED BY <1>0, <2>1, <2>3, EndsSame DEF Unregistered
<1>5. ASSUME NEW c \in Channels, Incoming(c) \/ IncomingDone(c) \/ AbortIn(c) \/ CloseReader(c)
                                     \/ RegisterChannel(c) \/ UnregisterChannel(c)
      PROVE  EndsInv'
  <2>1. /\ UNCHANGED <<recvTask, link, sendTask, outTask>>
        /\ registering' \cup registered' \subseteq registering \cup registered
    BY <1>5 DEF Incoming, IncomingDone, AbortIn, CloseReader, RegisterChannel,
                UnregisterChannel, senderVars
  <2>2. \A d \in Channels : ~reader[d] => ~reader'[d]
    BY <1>0, <1>5 DEF Incoming, IncomingDone, AbortIn, CloseReader, RegisterChannel,
                      UnregisterChannel
  <2>3. \/ UNCHANGED inTask
        \/ inTask[c] = "running" /\ inTask' = [inTask EXCEPT ![c] = "aborted"]
        \/ /\ inTask[c] = "running" /\ inTask' = [inTask EXCEPT ![c] = "ended"]
           /\ UNCHANGED <<registering, registered, reader>>
           /\ ~reader[c] \/ c \notin registering \cup registered
    BY <1>5 DEF Incoming, IncomingDone, AbortIn, CloseReader, RegisterChannel,
                UnregisterChannel, EndIn
  <2>4. ASSUME NEW d \in Channels
        PROVE  /\ inTask'[d] = "ended" => inTask[d] = "ended" \/ ~reader'[d] \/ Unregistered(d)'
               /\ inTask[d] = "ended" => inTask'[d] = inTask[d]
    BY <1>0, <2>3 DEF Unregistered
  <2>5. \A d \in Channels : inTask[d] = "ended" /\ Unregistered(d) => Unregistered(d)'
    BY <2>1, <2>4, StaysUnregistered
  <2>. QED BY <1>0, <2>1, <2>2, <2>4, <2>5, EndsSame
<1>6. ASSUME NEW c \in Channels, OpenIn(c) PROVE EndsInv'
  <2>1. /\ UNCHANGED <<recvTask, link, sendTask, outTask, reader, registered>>
        /\ inTask[c] = "none" /\ inTask' = [inTask EXCEPT ![c] = "running"]
        /\ registering' = registering \cup {c}
    BY <1>6 DEF OpenIn, senderVars
  <2>2. \A d \in Channels \ {c} : inTask'[d] = inTask[d]
    BY <1>0, <2>1
  <2>3. ASSUME NEW d \in Channels
        PROVE  /\ inTask'[d] = "ended" => inTask[d] = "ended"
               /\ inTask[d] = "ended" /\ Unregistered(d) => Unregistered(d)'
    BY <1>0, <2>1, <2>2 DEF Unregistered
  <2>. QED BY <1>0, <2>1, <2>3, EndsSame
<1>. QED BY <1>1, <1>2, <1>3, <1>4, <1>5, <1>6 DEF Next, BridgeStep, UserStep

\* What a step of the streams takes from the transit of a channel is handed out, is
\* missed before anyone listens, or is the end of a path that is over.
LEMMA StreamKeeps ==
    ASSUME [Stream!Next]_Streams, NEW c \in Channels, c \in Listening, Open(c)',
           Received[c] \in Seq(Nat)
    PROVE  Transit[c] \subseteq Transit'[c] \cup ToSet(Received'[c])
<1>1. DOMAIN Transit = Channels /\ DOMAIN Received = Channels
  BY DEF Transit, Received
<1>2. CASE UNCHANGED Streams
  BY <1>2 DEF Streams
<1>3. ASSUME NEW d \in Channels, NEW n \in 1..MaxSends[d], Stream!Take(d, n)
      PROVE  Transit[c] \subseteq Transit'[c]
  BY <1>1, <1>3 DEF Stream!Take
<1>4. ASSUME NEW d \in Channels, NEW n \in 1..MaxSends[d], Stream!Deliver(d, n)
      PROVE  Transit[c] \subseteq Transit'[c] \cup ToSet(Received'[c])
  <2>1. CASE d # c
    BY <1>1, <1>4, <2>1 DEF Stream!Deliver
  <2>2. CASE d = c
    <3>1. /\ Transit'[c] = Transit[c] \ {n}
          /\ Received'[c] = Append(Received[c], n)
      BY <1>1, <1>4, <2>2 DEF Stream!Deliver
    <3>2. n \in ToSet(Append(Received[c], n))
      <4>. DEFINE log == Received[c]
                  new == Append(log, n)
      <4>1. new \in Seq(Nat) /\ Len(new) = Len(log) + 1 /\ Len(log) \in Nat /\ new[Len(log) + 1] = n
        OBVIOUS
      <4>2. Len(log) + 1 \in DOMAIN new
        BY <4>1
      <4>. HIDE DEF log, new
      <4>3. n \in ToSet(new)
        BY <4>1, <4>2 DEF ToSet
      <4>. QED BY <4>3 DEF new, log
    <3>. QED BY <3>1, <3>2
  <2>. QED BY <2>1, <2>2
<1>5. ASSUME NEW d \in Channels, NEW n \in 1..MaxSends[d], Stream!Miss(d, n)
      PROVE  Transit[c] \subseteq Transit'[c]
  BY <1>1, <1>5 DEF Stream!Miss
<1>6. ASSUME NEW d \in Channels, Stream!Listen(d) PROVE Transit'[c] = Transit[c]
  BY <1>6 DEF Stream!Listen
<1>7. CASE Stream!Cut
  BY <1>7 DEF Stream!Cut, OpenChannels
<1>. QED BY <1>2, <1>3, <1>4, <1>5, <1>6, <1>7 DEF Stream!Next

\* Whatever is under way to a registered channel reaches its user or stays under way,
\* in every step that is not an end of the connection, of the send task or of something
\* of the channel's own (the safety part of Transferred).
THEOREM LosesNothing == Spec => NothingLost
<1>. DEFINE Keeps(c) ==
        Excused(c)' \/ Transit[c] \subseteq Transit'[c] \cup ToSet(Received'[c])
<1>1. Init => EndsInv
  BY DEF Init, EndsInv
<1>2. StreamInv /\ EndsInv => PathsInv
  BY PathOrExcuse DEF StreamInv
<1>3. ASSUME StreamInv, PathsInv', [Next]_vars, NEW c \in registered, ~Excused(c)'
      PROVE  Transit[c] \subseteq Transit'[c] \cup ToSet(Received'[c])
  <2>1. c \in Channels /\ c \in Listening
    BY <1>3 DEF StreamInv, MuxInv, TypeOK, OpenInv, Listening
  <2>2. [Stream!Next]_Streams
    BY <1>3, StepRefines
  <2>3. Open(c)'
    BY <1>3, <2>1 DEF PathsInv
  <2>4. Received[c] \in Seq(Nat)
    <3>1. delivered[c] \in Seq(Message)
      BY <1>3, <2>1 DEF StreamInv, MuxInv, TypeOK
    <3>2. ASSUME NEW i \in DOMAIN delivered[c] PROVE delivered[c][i].num \in Nat
      <4>1. delivered[c][i] \in Message
        BY <3>1
      <4>. QED BY <4>1 DEF Message
    <3>3. /\ Received[c] = [i \in DOMAIN delivered[c] |-> delivered[c][i].num]
          /\ DOMAIN delivered[c] = 1..Len(delivered[c]) /\ Len(delivered[c]) \in Nat
      BY <2>1, <3>1 DEF Received
    <3>. QED BY <3>2, <3>3
  <2>. QED BY <2>1, <2>2, <2>3, <2>4, StreamKeeps
<1>4. StreamInv /\ PathsInv' /\ [Next]_vars => [\A c \in registered : Keeps(c)]_vars
  BY <1>3
<1>. QED BY <1>1, <1>2, <1>4, EndsStep, StreamInvariant, PTL DEF Spec, NothingLost
=============================================================================
