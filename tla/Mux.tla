-------------------------------- MODULE Mux --------------------------------
(***************************************************************************)
(* Channels multiplexed over a transport (channel/router.rs,               *)
(* channel/bridge.rs and the frames of serialization/framing.rs): the      *)
(* outgoing tasks of the bridges and the send task of the router at one    *)
(* end, the receive task of the router and the incoming tasks of the       *)
(* bridges at the other.  The opposite direction is the same with the ends *)
(* exchanged, and shares nothing with this one but the transport.          *)
(*                                                                         *)
(* A message is its channel, its number among those of the channel, and    *)
(* what will become of it on the way.                                      *)
(***************************************************************************)
EXTENDS Integers, Sequences

CONSTANTS
    Channels,
    Kinds,          \* the kinds of messages that are sent on each channel
    MaxSends,       \* how many messages are sent on each channel
    MaxFaults       \* how often anything is closed, aborted or fails

AllKinds == {"plain", "unserializable", "oversized", "undecodable"}

ASSUME KindsAssumption == Kinds \in [Channels -> SUBSET AllKinds]
ASSUME MaxSendsAssumption == MaxSends \in [Channels -> Nat]
ASSUME MaxFaultsAssumption == MaxFaults \in Nat

VARIABLES
    sent,           \* history: how many messages were sent on each channel
    outbox,         \* the queue that each bridge's outgoing task reads
    outTask,        \* that task
    outgoing,       \* the router's queue of outgoing messages
    sendTask,       \* the router's send task: "recv", "body" or its end
    sending,        \* the message it has taken from outgoing
    wire,           \* the parts of frames that are under way
    link,           \* the transport: "up" or "down"
    recvTask,       \* the router's receive task at the other end
    registering,    \* channels whose registration is a spawned task
    registered,     \* channels with a sender in channel_senders
    incoming,       \* the queue that each bridge's incoming task reads
    inTask,         \* that task
    reader,         \* whether the user of the channel still receives
    delivered,      \* what the user of each channel was sent
    faults          \* history: how often anything was closed, aborted or failed

senderVars == <<sent, outbox, outTask, outgoing, sendTask, sending>>
receiverVars == <<recvTask, registering, registered, incoming, inTask, reader, delivered>>
vars == <<senderVars, wire, link, receiverVars, faults>>

Message == [ch : Channels, num : Nat \ {0}, kind : AllKinds]
Part == [part : {"id", "body"}, msg : Message]

\* A task ends by itself ("ended") or is aborted by its owner.
Over == {"ended", "aborted"}

Init ==
    /\ sent = [c \in Channels |-> 0]
    /\ outbox = [c \in Channels |-> <<>>]
    /\ outTask = [c \in Channels |-> "none"]
    /\ outgoing = <<>>
    /\ sendTask = "recv"
    /\ sending = <<>>
    /\ wire = <<>>
    /\ link = "up"
    /\ recvTask = "running"
    /\ registering = {}
    /\ registered = {}
    /\ incoming = [c \in Channels |-> <<>>]
    /\ inTask = [c \in Channels |-> "none"]
    /\ reader = [c \in Channels |-> TRUE]
    /\ delivered = [c \in Channels |-> <<>>]
    /\ faults = 0

Fault == faults < MaxFaults /\ faults' = faults + 1

-----------------------------------------------------------------------------
(***************************************************************************)
(* The sending end                                                         *)
(***************************************************************************)

\* The user of the channel sends: the queue has no bound, and takes messages
\* until the outgoing task, which owns its receiver, is over.  What it took
\* before there was a bridge counts as sent when there is one.
Send(c, k) ==
    /\ sent[c] < MaxSends[c] /\ outTask[c] = "running"
    /\ sent' = [sent EXCEPT ![c] = @ + 1]
    /\ outbox' = [outbox EXCEPT ![c] = Append(@, [ch |-> c, num |-> sent[c] + 1,
                   kind |-> k])]
    /\ UNCHANGED <<outTask, outgoing, sendTask, sending, wire, link, receiverVars, faults>>

\* ChannelBridge::new at this end.
OpenOut(c) ==
    /\ outTask[c] = "none"
    /\ outTask' = [outTask EXCEPT ![c] = "running"]
    /\ UNCHANGED <<sent, outbox, outgoing, sendTask, sending, wire, link, receiverVars,
                   faults>>

EndOut(c, how) ==
    /\ outTask' = [outTask EXCEPT ![c] = how]
    /\ outbox' = [outbox EXCEPT ![c] = <<>>]

\* Mutant: a task that takes the newest message.
OutgoingLifo(c) ==
    /\ outTask[c] = "running" /\ outbox[c] # <<>>
    /\ LET m == outbox[c][Len(outbox[c])]
       IN  \/ /\ m.kind = "unserializable"
              /\ outbox' = [outbox EXCEPT ![c] = SubSeq(@, 1, Len(@) - 1)]
              /\ UNCHANGED <<outTask, outgoing>>
           \/ /\ m.kind # "unserializable" /\ sendTask \notin Over
              /\ outbox' = [outbox EXCEPT ![c] = SubSeq(@, 1, Len(@) - 1)]
              /\ outgoing' = Append(outgoing, m)
              /\ UNCHANGED outTask
           \/ /\ m.kind # "unserializable" /\ sendTask \in Over
              /\ EndOut(c, "ended")
              /\ UNCHANGED outgoing
    /\ UNCHANGED <<sent, sendTask, sending, wire, link, receiverVars, faults>>

\* outgoing_task: a message that does not serialize is skipped; one that the
\* router no longer takes ends the task.
Outgoing(c) ==
    /\ outTask[c] = "running" /\ outbox[c] # <<>>
    /\ LET m == Head(outbox[c])
       IN  \/ /\ m.kind = "unserializable"
              /\ outbox' = [outbox EXCEPT ![c] = Tail(@)]
              /\ UNCHANGED <<outTask, outgoing>>
           \/ /\ m.kind # "unserializable" /\ sendTask \notin Over
              /\ outbox' = [outbox EXCEPT ![c] = Tail(@)]
              /\ outgoing' = Append(outgoing, m)
              /\ UNCHANGED outTask
           \/ /\ m.kind # "unserializable" /\ sendTask \in Over
              /\ EndOut(c, "ended")
              /\ UNCHANGED outgoing
    /\ UNCHANGED <<sent, sendTask, sending, wire, link, receiverVars, faults>>

\* shutdown or drop of the bridge at this end.
AbortOut(c) ==
    /\ Fault
    /\ outTask[c] = "running"
    /\ EndOut(c, "aborted")
    /\ UNCHANGED <<sent, outgoing, sendTask, sending, wire, link, receiverVars>>

\* The send task is over: the receiver of outgoing goes, and the write half.
EndSend(how) ==
    /\ sendTask' = how
    /\ sending' = <<>>
    /\ outgoing' = <<>>

\* write_frame_with_channel writes the channel id before the frame is looked at.
WriteChannelId ==
    /\ sendTask = "recv" /\ outgoing # <<>>
    /\ \/ /\ link = "up"
          /\ wire' = Append(wire, [part |-> "id", msg |-> Head(outgoing)])
          /\ sending' = <<Head(outgoing)>>
          /\ outgoing' = Tail(outgoing)
          /\ sendTask' = "body"
       \/ /\ link = "down"
          /\ EndSend("ended")
          /\ UNCHANGED wire
    /\ UNCHANGED <<sent, outbox, outTask, link, receiverVars, faults>>

\* Mutant: the send task goes on after a frame it could not write.
WriteFrameCarryOn ==
    /\ sendTask = "body"
    /\ sendTask' = "recv"
    /\ sending' = <<>>
    /\ wire' = IF link = "up" /\ sending[1].kind # "oversized"
                  THEN Append(wire, [part |-> "body", msg |-> sending[1]]) ELSE wire
    /\ UNCHANGED <<sent, outbox, outTask, outgoing, link, receiverVars, faults>>

\* write_frame: the size check, then length and payload.  An error ends the task.
WriteFrame ==
    /\ sendTask = "body"
    /\ \/ /\ link = "up" /\ sending[1].kind # "oversized"
          /\ wire' = Append(wire, [part |-> "body", msg |-> sending[1]])
          /\ sending' = <<>>
          /\ sendTask' = "recv"
          /\ UNCHANGED outgoing
       \/ /\ link = "down" \/ sending[1].kind = "oversized"
          /\ EndSend("ended")
          /\ UNCHANGED wire
    /\ UNCHANGED <<sent, outbox, outTask, link, receiverVars, faults>>

\* The router at this end is shut down or dropped, maybe amid a frame.
AbortSend ==
    /\ Fault
    /\ sendTask \notin Over
    /\ EndSend("aborted")
    /\ UNCHANGED <<sent, outbox, outTask, wire, link, receiverVars>>

-----------------------------------------------------------------------------
\* External: the transport ends, and what was under way may be lost from any
\* byte on.
LinkDown ==
    /\ Fault
    /\ link = "up"
    /\ link' = "down"
    /\ \E n \in 0..Len(wire) : wire' = SubSeq(wire, 1, n)
    /\ UNCHANGED <<senderVars, receiverVars>>

-----------------------------------------------------------------------------
(***************************************************************************)
(* The receiving end                                                       *)
(***************************************************************************)

\* ChannelBridge::new at this end: the registration is left to a task.
OpenIn(c) ==
    /\ inTask[c] = "none"
    /\ inTask' = [inTask EXCEPT ![c] = "running"]
    /\ registering' = registering \cup {c}
    /\ UNCHANGED <<senderVars, wire, link, recvTask, registered, incoming, reader,
                   delivered, faults>>

RegisterChannel(c) ==
    /\ c \in registering
    /\ registering' = registering \ {c}
    /\ registered' = registered \cup {c}
    /\ UNCHANGED <<senderVars, wire, link, recvTask, incoming, inTask, reader, delivered,
                   faults>>

UnregisterChannel(c) ==
    /\ Fault
    /\ c \in registered
    /\ registered' = registered \ {c}
    /\ UNCHANGED <<senderVars, wire, link, recvTask, registering, incoming, inTask, reader,
                   delivered>>

\* Mutant: a frame that nobody takes ends the receive task.
ReceiveStrict ==
    /\ recvTask = "running" /\ Len(wire) >= 2
    /\ LET c == wire[1].msg.ch
           m == wire[2].msg
       IN  /\ incoming' = IF c \in registered /\ inTask[c] = "running"
                             THEN [incoming EXCEPT ![c] = Append(@, m)] ELSE incoming
           /\ recvTask' = IF c \in registered /\ inTask[c] = "running"
                             THEN recvTask ELSE "ended"
    /\ wire' = Tail(Tail(wire))
    /\ UNCHANGED <<senderVars, link, registering, registered, inTask, reader, delivered,
                   faults>>

\* receive_task: the frame goes to the queue registered for its id, if there is
\* one and its task still runs, and else it is dropped.
Receive ==
    /\ recvTask = "running" /\ Len(wire) >= 2
    /\ LET c == wire[1].msg.ch
           m == wire[2].msg
       IN  \/ /\ c \in registered /\ inTask[c] = "running"
              /\ incoming' = [incoming EXCEPT ![c] = Append(@, m)]
           \/ /\ c \notin registered \/ inTask[c] # "running"
              /\ UNCHANGED incoming
    /\ wire' = Tail(Tail(wire))
    /\ UNCHANGED <<senderVars, link, recvTask, registering, registered, inTask, reader,
                   delivered, faults>>

\* A read error, maybe amid a frame, ends the task; the registrations stay.
ReceiveError ==
    /\ recvTask = "running" /\ link = "down" /\ Len(wire) < 2
    /\ recvTask' = "ended"
    /\ UNCHANGED <<senderVars, wire, link, registering, registered, incoming, inTask,
                   reader,
                   delivered, faults>>

\* The router at this end is shut down or dropped; a registration that is still
\* to run keeps it alive.
AbortReceive ==
    /\ Fault
    /\ recvTask # "aborted" /\ registering = {}
    /\ recvTask' = "aborted"
    /\ registered' = {}
    /\ UNCHANGED <<senderVars, wire, link, registering, incoming, inTask, reader,
                   delivered>>

EndIn(c, how) ==
    /\ inTask' = [inTask EXCEPT ![c] = how]
    /\ incoming' = [incoming EXCEPT ![c] = <<>>]

\* incoming_task: a message that does not deserialize is skipped; one that the
\* user no longer takes ends the task.
Incoming(c) ==
    /\ inTask[c] = "running" /\ incoming[c] # <<>>
    /\ LET m == Head(incoming[c])
       IN  \/ /\ m.kind = "undecodable"
              /\ incoming' = [incoming EXCEPT ![c] = Tail(@)]
              /\ UNCHANGED <<inTask, delivered>>
           \/ /\ m.kind # "undecodable" /\ reader[c]
              /\ incoming' = [incoming EXCEPT ![c] = Tail(@)]
              /\ delivered' = [delivered EXCEPT ![c] = Append(@, m)]
              /\ UNCHANGED inTask
           \/ /\ m.kind # "undecodable" /\ ~reader[c]
              /\ EndIn(c, "ended")
              /\ UNCHANGED delivered
    /\ UNCHANGED <<senderVars, wire, link, recvTask, registering, registered, reader,
                   faults>>

\* Nobody holds a sender to the queue any more.
IncomingDone(c) ==
    /\ inTask[c] = "running" /\ incoming[c] = <<>>
    /\ c \notin registering \cup registered
    /\ EndIn(c, "ended")
    /\ UNCHANGED <<senderVars, wire, link, recvTask, registering, registered, reader,
                   delivered, faults>>

\* shutdown or drop of the bridge at this end, which does not unregister.
AbortIn(c) ==
    /\ Fault
    /\ inTask[c] = "running"
    /\ EndIn(c, "aborted")
    /\ UNCHANGED <<senderVars, wire, link, recvTask, registering, registered, reader,
                   delivered>>

CloseReader(c) ==
    /\ Fault
    /\ reader[c]
    /\ reader' = [reader EXCEPT ![c] = FALSE]
    /\ UNCHANGED <<senderVars, wire, link, recvTask, registering, registered, incoming,
                   inTask,
                   delivered>>

-----------------------------------------------------------------------------
SendTaskStep == WriteChannelId \/ WriteFrame
RecvTaskStep == Receive \/ ReceiveError
BridgeStep(c) == Outgoing(c) \/ RegisterChannel(c) \/ Incoming(c) \/ IncomingDone(c)

UserStep(c) ==
    \/ \E k \in Kinds[c] : Send(c, k)
    \/ OpenOut(c) \/ AbortOut(c)
    \/ OpenIn(c) \/ AbortIn(c) \/ UnregisterChannel(c) \/ CloseReader(c)

Next ==
    \/ SendTaskStep \/ RecvTaskStep
    \/ \E c \in Channels : BridgeStep(c) \/ UserStep(c)
    \/ AbortSend \/ AbortReceive \/ LinkDown

Spec == Init /\ [][Next]_vars

\* The spawned tasks run when they can.  Users and the transport need not act.
Fairness ==
    /\ WF_vars(SendTaskStep)
    /\ WF_vars(RecvTaskStep)
    /\ \A c \in Channels :
          /\ WF_vars(Outgoing(c))
          /\ WF_vars(RegisterChannel(c))
          /\ WF_vars(Incoming(c) \/ IncomingDone(c))

FairSpec == Spec /\ Fairness
=============================================================================
