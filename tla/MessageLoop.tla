----------------------------- MODULE MessageLoop -----------------------------
(***************************************************************************)
(* A connection that a listening server keeps (endpoint/endpoint.rs, the   *)
(* end of handle_server_connection and of handle_manual_connection): a     *)
(* task that reads frames and routes what they hold to the endpoint's      *)
(* system channel, a task that takes messages from that channel and writes *)
(* them, and the lock on the transport, which both need for a whole frame. *)
(* The endpoint's own tasks request channels through the same channel      *)
(* meanwhile.  The channel is taken as a bounded, ordered one, see         *)
(* Channel.tla; the peer is any program that speaks the protocol.          *)
(***************************************************************************)
EXTENDS Naturals, Sequences

CONSTANTS
    Requests,       \* requests of this endpoint's tasks, one channel id each
    SystemBuffer,   \* the bound of the system channel
    MaxFrames       \* how many frames the peer sends

ASSUME BufferAssumption == SystemBuffer \in Nat \ {0}
ASSUME FramesAssumption == MaxFrames \in Nat

VARIABLES
    reader, writer,     \* where the two tasks are
    line,               \* the lock: who holds it, and who waits for it, in order
    incoming, outgoing, \* what the reader and the writer have in hand
    queue,              \* the messages in the system channel
    wire,               \* the frames on their way from the peer
    peer,               \* "open" or "closed"
    request,            \* where each request is
    frames,             \* history: how many frames the peer has sent
    accepted,           \* history: the messages that the channel has accepted
    handled             \* history: what was written, or else refused by the serializer

loopVars == <<reader, writer, line, incoming, outgoing>>
vars == <<loopVars, queue, wire, peer, request, frames, accepted, handled>>

\* A message of the system channel by the request that it is about.  The other frames
\* are of no channel that the manager has, not decodable, or above the limit.
System == [kind : {"request", "response"}, about : Requests]
Frames == System \cup [kind : {"unknown", "garbled", "too_large"}]
Nothing == [kind |-> "nothing"]

Init ==
    /\ reader = "ready" /\ writer = "receive"
    /\ line = <<>>
    /\ incoming = Nothing /\ outgoing = Nothing
    /\ queue = <<>>
    /\ wire = <<>>
    /\ peer = "open"
    /\ request = [r \in Requests |-> "idle"]
    /\ frames = 0
    /\ accepted = <<>> /\ handled = <<>>

Holds(task) == line # <<>> /\ Head(line) = task
Release == line' = Tail(line)

\* What a sender meets: a channel that is full, or one without a receiver, which gives an
\* error.  Neither has to end the wait of a sender that found the channel full: its
\* senders are clones, see the run channel_lost_wakeup of MCChannel.
HasRoom == Len(queue) < SystemBuffer
Received == writer # "ended"

Accept(m) ==
    /\ queue' = Append(queue, m)
    /\ accepted' = Append(accepted, m)

-----------------------------------------------------------------------------
(***************************************************************************)
(* The task that reads                                                     *)
(***************************************************************************)
ReaderLocks ==
    /\ reader = "ready"
    /\ reader' = "lock"
    /\ line' = Append(line, "reader")
    /\ UNCHANGED <<writer, incoming, outgoing, queue, wire, peer, request, frames, accepted,
                   handled>>

\* Mutant: the lock is kept until the message is routed.
ReadFrameKeeping ==
    /\ reader = "lock" /\ Holds("reader")
    /\ wire # <<>> /\ Head(wire).kind # "too_large"
    /\ wire' = Tail(wire)
    /\ incoming' = Head(wire)
    /\ reader' = "route"
    /\ UNCHANGED <<writer, line, outgoing, queue, peer, request, frames, accepted, handled>>

\* A whole frame, for which the lock is held, however long the peer takes.
ReadFrame ==
    /\ reader = "lock" /\ Holds("reader")
    /\ wire # <<>> /\ Head(wire).kind # "too_large"
    /\ wire' = Tail(wire)
    /\ incoming' = Head(wire)
    /\ Release
    /\ reader' = "route"
    /\ UNCHANGED <<writer, outgoing, queue, peer, request, frames, accepted, handled>>

\* Mutant: a reader that fails does not let the lock go.
ReadFailsKeeping ==
    /\ reader = "lock" /\ Holds("reader")
    /\ peer = "closed" \/ (wire # <<>> /\ Head(wire).kind = "too_large")
    /\ reader' = "ended"
    /\ UNCHANGED <<writer, line, incoming, outgoing, queue, wire, peer, request, frames,
                   accepted, handled>>

\* The end of the stream, a connection that was reset, or too large a frame.
ReadFails ==
    /\ reader = "lock" /\ Holds("reader")
    /\ peer = "closed" \/ (wire # <<>> /\ Head(wire).kind = "too_large")
    /\ Release
    /\ reader' = "ended"
    /\ UNCHANGED <<writer, incoming, outgoing, queue, wire, peer, request, frames, accepted,
                   handled>>

Routed == reader' = "ready" /\ incoming' = Nothing

\* The lock is free while it waits for room, which it may do for ever.
RouteToSystem ==
    /\ reader = "route" /\ incoming \in System
    /\ HasRoom
    /\ IF Received THEN Accept(incoming) ELSE UNCHANGED <<queue, accepted>>
    /\ Routed
    /\ UNCHANGED <<writer, line, outgoing, wire, peer, request, frames, handled>>

\* No other channel is found, whatever else was negotiated.
RouteNowhere ==
    /\ reader = "route" /\ incoming \notin System
    /\ Routed
    /\ UNCHANGED <<writer, line, outgoing, queue, wire, peer, request, frames, accepted,
                   handled>>

-----------------------------------------------------------------------------
(***************************************************************************)
(* The task that writes                                                    *)
(***************************************************************************)
WriterReceives ==
    /\ writer = "receive" /\ queue # <<>>
    /\ queue' = Tail(queue)
    /\ outgoing' = Head(queue)
    /\ writer' = "ready"
    /\ UNCHANGED <<reader, line, incoming, wire, peer, request, frames, accepted, handled>>

WriterLocks ==
    /\ writer = "ready"
    /\ writer' = "lock"
    /\ line' = Append(line, "writer")
    /\ UNCHANGED <<reader, incoming, outgoing, queue, wire, peer, request, frames, accepted,
                   handled>>

Done(w) == handled' = Append(handled, [message |-> outgoing, written |-> w])

\* The serializer, which the user provides, refuses the message: it is left out.
SkipMessage ==
    /\ writer = "ready"
    /\ Done(FALSE)
    /\ outgoing' = Nothing
    /\ writer' = "receive"
    /\ UNCHANGED <<reader, line, incoming, queue, wire, peer, request, frames, accepted>>

\* A closed peer is noticed at once or later.
WriteFrame ==
    /\ writer = "lock" /\ Holds("writer")
    /\ Done(TRUE)
    /\ outgoing' = Nothing
    /\ Release
    /\ writer' = "receive"
    /\ UNCHANGED <<reader, incoming, queue, wire, peer, request, frames, accepted>>

\* Mutant: a message that could not be written is dropped, and the writer goes on.
WriteSkips ==
    /\ writer = "lock" /\ Holds("writer")
    /\ peer = "closed" \/ outgoing.kind = "request"
    /\ outgoing' = Nothing
    /\ Release
    /\ writer' = "receive"
    /\ UNCHANGED <<reader, incoming, queue, wire, peer, request, frames, accepted, handled>>

\* The peer has gone, or the message is above the limit of frames, as a request with its
\* metadata may be.  The task ends, and with it the receiver of the system channel and
\* what is queued there.
WriteFails ==
    /\ writer = "lock" /\ Holds("writer")
    /\ peer = "closed" \/ outgoing.kind = "request"
    /\ outgoing' = Nothing
    /\ Release
    /\ queue' = <<>>
    /\ writer' = "ended"
    /\ UNCHANGED <<reader, incoming, wire, peer, request, frames, accepted, handled>>

-----------------------------------------------------------------------------
(***************************************************************************)
(* Requests, from their entry in the table of pending ones on: only the    *)
(* handler of a client answers one, and a server has none.                 *)
(***************************************************************************)
GoTo(r, where) == request' = [request EXCEPT ![r] = where]

RequestChannel(r) ==
    /\ request[r] = "idle"
    /\ GoTo(r, "send")
    /\ UNCHANGED <<loopVars, queue, wire, peer, frames, accepted, handled>>

SendRequest(r) ==
    /\ request[r] = "send" /\ HasRoom
    /\ IF Received
       THEN Accept([kind |-> "request", about |-> r]) /\ GoTo(r, "wait")
       ELSE GoTo(r, "failed") /\ UNCHANGED <<queue, accepted>>
    /\ UNCHANGED <<loopVars, wire, peer, frames, handled>>

TimeOut(r) ==
    /\ request[r] = "wait"
    /\ GoTo(r, "timed_out")
    /\ UNCHANGED <<loopVars, queue, wire, peer, frames, accepted, handled>>

-----------------------------------------------------------------------------
(***************************************************************************)
(* External: the peer                                                      *)
(***************************************************************************)
Written == {handled[i].message : i \in {j \in DOMAIN handled : handled[j].written}}
Answerable == {r \in Requests : [kind |-> "request", about |-> r] \in Written}

PeerSends ==
    /\ peer = "open" /\ frames < MaxFrames
    /\ frames' = frames + 1
    /\ \E f \in Frames :
          /\ f.kind = "response" => f.about \in Answerable
          /\ wire' = Append(wire, f)
    /\ UNCHANGED <<loopVars, queue, peer, request, accepted, handled>>

PeerCloses ==
    /\ peer = "open"
    /\ peer' = "closed"
    /\ UNCHANGED <<loopVars, queue, wire, request, frames, accepted, handled>>

-----------------------------------------------------------------------------
\* The waits for room in the channel are taken apart from what each task does by itself.
ReaderGoesOn == ReaderLocks \/ ReadFrame \/ ReadFails \/ RouteNowhere
WriterStep == WriterReceives \/ SkipMessage \/ WriterLocks \/ WriteFrame \/ WriteFails

Next ==
    \/ ReaderGoesOn \/ RouteToSystem \/ WriterStep
    \/ \E r \in Requests : RequestChannel(r) \/ SendRequest(r) \/ TimeOut(r)
    \/ PeerSends \/ PeerCloses

Spec == Init /\ [][Next]_vars

\* Both tasks run when they can, a peer reads what is written, and timers fire.  Nobody
\* has to make a request, a wait for room need not end, and the peer need not send
\* anything or close.
FairSpec ==
    /\ Spec
    /\ WF_vars(ReaderGoesOn) /\ WF_vars(WriterStep)
    /\ \A r \in Requests : WF_vars(TimeOut(r))
=============================================================================
