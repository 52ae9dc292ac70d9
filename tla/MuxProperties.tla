---------------------------- MODULE MuxProperties ----------------------------
(***************************************************************************)
(* What multiplexing has to guarantee, stated over module Mux.             *)
(***************************************************************************)
EXTENDS Mux, SequencesExt

TypeOK ==
    /\ sent \in [Channels -> Nat]
    /\ outbox \in [Channels -> Seq(Message)]
    /\ outTask \in [Channels -> {"none", "running"} \cup Over]
    /\ outgoing \in Seq(Message)
    /\ sendTask \in {"recv", "body"} \cup Over
    /\ sending \in Seq(Message) /\ Len(sending) = (IF sendTask = "body" THEN 1 ELSE 0)
    /\ wire \in Seq(Part)
    /\ link \in {"up", "down"}
    /\ recvTask \in {"running"} \cup Over
    /\ registering \in SUBSET Channels
    /\ registered \in SUBSET Channels
    /\ incoming \in [Channels -> Seq(Message)]
    /\ inTask \in [Channels -> {"none", "running"} \cup Over]
    /\ reader \in [Channels -> BOOLEAN]
    /\ delivered \in [Channels -> Seq(Message)]

\* No user is handed a message of another channel, and no task reads a frame
\* from the middle of another: the parts on the wire pair up at the reader, also
\* after frames that were not finished (a frame over the limit, whose channel id
\* is already written, an abort, a failure of the transport).
NoForeignMessages ==
    /\ \A i \in 1..Len(wire) : wire[i].part = (IF i % 2 = 1 THEN "id" ELSE "body")
    /\ \A c \in Channels : \A i \in DOMAIN delivered[c] : delivered[c][i].ch = c

-----------------------------------------------------------------------------
(***************************************************************************)
(* The refinement mapping.  What is under way on a channel is what the     *)
(* stages of the connection hold of it, from the last to the first; a      *)
(* stage that cannot reach the next any more holds nothing.                *)
(***************************************************************************)
Arrives(m) == m.kind = "plain"
Bodies(log) == {log[i].msg : i \in {j \in DOMAIN log : log[j].part = "body"}}

\* The channel's incoming task had a sender in the map, and has none any more.
Unregistered(c) == inTask[c] # "none" /\ c \notin registering \cup registered

Receiving(c) == recvTask = "running" /\ inTask[c] \notin Over /\ ~Unregistered(c)
Sending(c) == Receiving(c) /\ link = "up" /\ sendTask \notin Over
Open(c) == Sending(c) /\ outTask[c] \notin Over

\* The stages of the connection, from its end to its beginning, and the last of
\* them from which a message of channel c can still reach the first.
Pool(logs) == UNION {ToSet(logs[c]) : c \in Channels}
Stages == <<Pool(delivered), Pool(incoming), Bodies(wire), ToSet(sending), ToSet(outgoing),
            Pool(outbox)>>
Reach(c) ==
    IF Open(c) THEN 6 ELSE IF Sending(c) THEN 5 ELSE IF Receiving(c) THEN 3 ELSE 2

UnderWay(stages, reach, c) ==
    {m \in UNION {stages[i] : i \in 2..reach} : m.ch = c /\ Arrives(m)}

Transit ==
    LET stages == Stages
    IN  [c \in Channels |-> {m.num : m \in UnderWay(stages, Reach(c), c)}]
Received == [c \in Channels |-> [i \in DOMAIN delivered[c] |-> delivered[c][i].num]]
Listening == {c \in Channels : inTask[c] # "none" /\ c \notin registering}
OpenChannels == {c \in Channels : Open(c)}

Stream == INSTANCE LossyStream WITH
    MaxNumber <- MaxSends,
    transit <- Transit, received <- Received, listening <- Listening, open <- OpenChannels

\* Bridges, router and transport together are, for each channel, a stream in
\* order, without repetition, and without a loss while its other end listens
\* and its path is whole.
ImplementsStreams == Stream!Spec

\* What excuses the loss of a message of channel c: an end of the connection, or
\* of something of c's own at its users' hands.  Nothing of another channel does,
\* but for a frame over the limit, which ends the send task of all.
Excused(c) ==
    \/ link = "down" \/ sendTask \in Over
    \/ "aborted" \in {recvTask, outTask[c], inTask[c]}
    \/ Unregistered(c) \/ ~reader[c]

\* A message for a channel that is registered at the other end reaches its user,
\* whatever other channels do: skip messages, close their readers, shut their
\* bridges down or have no registration.
Transferred ==
    \A c \in Channels : \A n \in 1..MaxSends[c] :
        /\ c \in registered /\ outTask[c] = "running"
        /\ \E i \in DOMAIN outbox[c] : outbox[c][i].num = n /\ Arrives(outbox[c][i])
        ~> Excused(c) \/ \E i \in DOMAIN delivered[c] : delivered[c][i].num = n

\* What is under way to a channel that is registered stays so until its user is handed
\* it, unless an end excuses it: no step of another channel, and no task that just
\* ends, loses anything.
NothingLost ==
    [][\A c \in registered :
          Excused(c)' \/ Transit[c] \subseteq Transit'[c] \cup ToSet(Received'[c])]_vars

-----------------------------------------------------------------------------
(***************************************************************************)
(* The inductive invariant                                                 *)
(***************************************************************************)
\* A body follows the channel id that was written for it, and the send task writes
\* the part that is due.
PartsInv ==
    /\ \A i \in 1..Len(wire) : wire[i].part = (IF i % 2 = 1 THEN "id" ELSE "body")
    /\ \A i \in 1..Len(wire) : i % 2 = 0 => wire[i].msg = wire[i - 1].msg
    /\ link = "up" /\ sendTask = "recv" => Len(wire) % 2 = 0
    /\ link = "up" /\ sendTask = "body" =>
          Len(wire) % 2 = 1 /\ wire[Len(wire)].msg = sending[1]

Owned(logs) == \A c \in Channels : \A i \in DOMAIN logs[c] : logs[c][i].ch = c
OwnInv == Owned(outbox) /\ Owned(incoming) /\ Owned(delivered)

MuxInv == TypeOK /\ PartsInv /\ OwnInv

(***************************************************************************)
(* The invariants behind ImplementsStreams, beside MuxInv.                 *)
(***************************************************************************)
\* Every message of S comes before every message of T of its channel.
Ahead(S, T) == \A m \in S, n \in T : m.ch = n.ch => m.num < n.num

InTurn(stages) == \A i, j \in 1..6 : i < j => Ahead(stages[i], stages[j])

\* The numbers of each channel increase along a log, or along the parts of a wire.
Rising(log) ==
    \A i, j \in DOMAIN log : i < j /\ log[i].ch = log[j].ch => log[i].num < log[j].num

RisingParts(log) ==
    \A i, j \in DOMAIN log :
        /\ i < j /\ log[i].part = "body" /\ log[j].part = "body"
        /\ log[i].msg.ch = log[j].msg.ch
        => log[i].msg.num < log[j].msg.num

\* No message overtakes another of its channel, within a stage or between two.
OrderInv ==
    /\ InTurn(Stages)
    /\ \A c \in Channels : Rising(delivered[c]) /\ Rising(incoming[c]) /\ Rising(outbox[c])
    /\ Rising(outgoing) /\ RisingParts(wire)

\* Nothing is numbered above what was sent.
SentInv ==
    /\ \A c \in Channels : sent[c] <= MaxSends[c]
    /\ \A i \in 1..6 : \A m \in Stages[i] : m.num <= sent[m.ch]

\* What a stage skips or refuses is not in the next.
KindInv ==
    /\ \A m \in Pool(delivered) : Arrives(m)
    /\ \A m \in Pool(incoming) \cup Bodies(wire) : m.kind \in {"plain", "undecodable"}
    /\ \A m \in ToSet(sending) \cup ToSet(outgoing) : m.kind # "unserializable"

\* Nothing arrives for a channel before its registration has run, nor after its
\* incoming task is over.
OpenInv ==
    \A c \in Channels :
        /\ inTask[c] = "none" => c \notin registering \cup registered
        /\ c \notin registering \cap registered
        /\ inTask[c] # "running" \/ c \in registering => incoming[c] = <<>>

\* A task that has ended has met an end that excuses what is lost with it.
EndsInv ==
    /\ recvTask = "ended" => link = "down"
    /\ \A c \in Channels :
          /\ outTask[c] = "ended" => sendTask \in Over
          /\ inTask[c] = "ended" => ~reader[c] \/ Unregistered(c)

StreamInv == MuxInv /\ OrderInv /\ SentInv /\ KindInv /\ OpenInv
=============================================================================
