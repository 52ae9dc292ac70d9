------------------------------- MODULE Channel -------------------------------
(***************************************************************************)
(* A typed in-memory channel (channel/channel.rs): clones of one           *)
(* ChannelSender, each used by a task of its own, one ChannelReceiver, the *)
(* bounded mpsc queue between them, the shared sequence counters and the   *)
(* backpressure strategy.                                                  *)
(*                                                                         *)
(* Every action is what the code does between two points at which another  *)
(* task can observe it.  The number of an operation among those of its     *)
(* task stands for the payload.                                            *)
(***************************************************************************)
EXTENDS Backpressure

CONSTANTS
    Buffer,             \* buffer_size, the bound of the mpsc queue
    Ops,                \* the sending methods that are called
    Droppable,          \* those whose futures callers may drop at an await
    Receives,           \* the receiving methods that are called
    DebugAssertions,    \* cfg(debug_assertions): whether sequences are verified
    MaxOps              \* how many operations a task starts

SendOps == {"send", "send_timeout", "try_send", "send_request", "send_response"}
ReceiveOps == {"recv", "recv_envelope"}
NoOp == "none"

\* mpsc::channel panics when the first does not hold.
ASSUME BufferAssumption == Buffer \in Nat \ {0}
ASSUME OpsAssumption == Ops \subseteq SendOps /\ Receives \subseteq ReceiveOps
ASSUME DroppableAssumption == Droppable \subseteq SendOps \ {"try_send"}
ASSUME DebugAssumption == DebugAssertions \in BOOLEAN
ASSUME MaxOpsAssumption == MaxOps \in Nat

VARIABLES
    sendSequence,   \* ChannelState.send_sequence
    recvSequence,   \* ChannelState.recv_sequence
    queue,          \* the mpsc queue
    rx,             \* the receiving half: "open", "closed" or "dropped"
    rxpc,           \* where the receiver's task is
    pc,             \* where each sender's task is
    op,             \* the method it is in
    sequence,       \* the sequence number it was assigned
    outcome,        \* history: what its operations returned, in order
    delivered       \* history: the envelopes the receiver took, in order

chVars == <<sendSequence, recvSequence, queue, rx, rxpc, pc, op, sequence,
            outcome, delivered>>
vars == <<bqVars, chVars>>

\* A sender's task has dropped it ("gone"), or may call a method ("idle").
Free == {"idle", "gone"}
Stages == Free \cup {"wait", "assign", "push", "sent"}

Outcomes == {"ok", "timeout", "full", "closed", "rejected", "dropped"}
Envelope == [from : Senders, num : Nat, seq : Nat, op : SendOps]

\* The number of the operation that s is in, or of the one it will start next.
Number(s) == Len(outcome[s]) + 1
EnvelopeOf(s) == [from |-> s, num |-> Number(s), seq |-> sequence[s], op |-> op[s]]
Correlated(e) == e.op \in {"send_request", "send_response"}

Init ==
    /\ BQInit
    /\ sendSequence = 0
    /\ recvSequence = 0
    /\ queue = <<>>
    /\ rx = "open"
    /\ rxpc = "idle"
    /\ pc = [s \in Senders |-> "idle"]
    /\ op = [s \in Senders |-> NoOp]
    /\ sequence = [s \in Senders |-> 0]
    /\ outcome = [s \in Senders |-> <<>>]
    /\ delivered = <<>>

(***************************************************************************)
(* The sending methods                                                     *)
(***************************************************************************)

\* The method returns r, and its task is free for the next call.
Return(s, r) ==
    /\ pc' = [pc EXCEPT ![s] = "idle"]
    /\ op' = [op EXCEPT ![s] = NoOp]
    /\ sequence' = [sequence EXCEPT ![s] = 0]
    /\ outcome' = [outcome EXCEPT ![s] = Append(@, r)]

MayCall(s, o) == pc[s] = "idle" /\ Len(outcome[s]) < MaxOps /\ o \in Ops

\* A required feature is missing, or a request method was given a non-request
\* (or the reverse): an error before anything is touched.
Reject(s, o) ==
    /\ MayCall(s, o)
    /\ Return(s, "rejected")
    /\ UNCHANGED <<bqVars, sendSequence, recvSequence, queue, rx, rxpc, delivered>>

\* The entry of a method, up to its decision whether to wait for capacity.
Call(s, o) ==
    /\ MayCall(s, o)
    /\ op' = [op EXCEPT ![s] = o]
    /\ \/ /\ o = "try_send" \/ ShouldSend(Len(queue))
          /\ pc' = [pc EXCEPT ![s] = "assign"]
          /\ UNCHANGED wait
       \/ /\ o # "try_send" /\ ~ShouldSend(Len(queue))
          /\ pc' = [pc EXCEPT ![s] = "wait"]
          /\ wait' = [wait EXCEPT ![s] = "check"]
    /\ UNCHANGED <<depth, messagesSent, messagesReceived, permit, waiters>>
    /\ UNCHANGED <<sendSequence, recvSequence, queue, rx, rxpc, sequence, outcome,
                   delivered>>

\* A step inside wait_for_capacity.
WaitStep(s) ==
    /\ pc[s] = "wait"
    /\ CheckCapacity(s) \/ PollNotified(s) \/ Wake(s)
    /\ UNCHANGED chVars

\* wait_for_capacity has returned.
Granted(s) ==
    /\ pc[s] = "wait" /\ wait[s] = "granted"
    /\ wait' = [wait EXCEPT ![s] = "none"]
    /\ pc' = [pc EXCEPT ![s] = "assign"]
    /\ UNCHANGED <<depth, messagesSent, messagesReceived, permit, waiters>>
    /\ UNCHANGED <<sendSequence, recvSequence, queue, rx, rxpc, op, sequence, outcome,
                   delivered>>

\* send_timeout's first select: the sleep ends before the capacity comes.
WaitTimeout(s) ==
    /\ pc[s] = "wait" /\ op[s] = "send_timeout"
    /\ CancelWait(s)
    /\ Return(s, "timeout")
    /\ UNCHANGED <<sendSequence, recvSequence, queue, rx, rxpc, delivered>>

AssignSequence(s) ==
    /\ pc[s] = "assign"
    /\ sequence' = [sequence EXCEPT ![s] = sendSequence]
    /\ sendSequence' = sendSequence + 1
    /\ pc' = [pc EXCEPT ![s] = "push"]
    /\ UNCHANGED <<bqVars, recvSequence, queue, rx, rxpc, op, outcome, delivered>>

\* Mutant: an envelope that jumps the queue.
PushFront(s) ==
    /\ pc[s] = "push" /\ op[s] # "try_send"
    /\ rx = "open" /\ Len(queue) < Buffer
    /\ queue' = <<EnvelopeOf(s)>> \o queue
    /\ pc' = [pc EXCEPT ![s] = "sent"]
    /\ UNCHANGED <<bqVars, sendSequence, recvSequence, rx, rxpc, op, sequence, outcome,
                   delivered>>

\* The mpsc send of the waiting methods: it completes when there is room.
Push(s) ==
    /\ pc[s] = "push" /\ op[s] # "try_send"
    /\ rx = "open" /\ Len(queue) < Buffer
    /\ queue' = Append(queue, EnvelopeOf(s))
    /\ pc' = [pc EXCEPT ![s] = "sent"]
    /\ UNCHANGED <<bqVars, sendSequence, recvSequence, rx, rxpc, op, sequence, outcome,
                   delivered>>

PushClosed(s) ==
    /\ pc[s] = "push"
    /\ rx # "open"
    /\ Return(s, "closed")
    /\ UNCHANGED <<bqVars, sendSequence, recvSequence, queue, rx, rxpc, delivered>>

\* Mutant: the timeout is reported although the envelope has gone.
PushTimeoutLate(s) ==
    /\ pc[s] = "push" /\ op[s] = "send_timeout"
    /\ Return(s, "timeout")
    /\ queue' = IF rx = "open" /\ Len(queue) < Buffer
                   THEN Append(queue, EnvelopeOf(s)) ELSE queue
    /\ UNCHANGED <<bqVars, sendSequence, recvSequence, rx, rxpc, delivered>>

\* send_timeout's second select: the envelope, with its number, is dropped.
PushTimeout(s) ==
    /\ pc[s] = "push" /\ op[s] = "send_timeout"
    /\ Return(s, "timeout")
    /\ UNCHANGED <<bqVars, sendSequence, recvSequence, queue, rx, rxpc, delivered>>

\* The caller drops the future at an await, in a select or a timeout of its own: as
\* in send_timeout, the wait is given up or the envelope is dropped with its number.
DropSend(s) ==
    /\ op[s] \in Droppable
    /\ \/ pc[s] = "wait" /\ CancelWait(s)
       \/ pc[s] = "push" /\ UNCHANGED bqVars
    /\ Return(s, "dropped")
    /\ UNCHANGED <<sendSequence, recvSequence, queue, rx, rxpc, delivered>>

\* The task drops its clone of the sender.
DropSender(s) ==
    /\ pc[s] = "idle"
    /\ pc' = [pc EXCEPT ![s] = "gone"]
    /\ UNCHANGED <<bqVars, sendSequence, recvSequence, queue, rx, rxpc, op, sequence,
                   outcome, delivered>>

\* Mutant: a full queue swallows the envelope.
TryPushSilent(s) ==
    /\ pc[s] = "push" /\ op[s] = "try_send"
    /\ rx = "open"
    /\ queue' = IF Len(queue) < Buffer THEN Append(queue, EnvelopeOf(s)) ELSE queue
    /\ Return(s, "ok")
    /\ UNCHANGED <<bqVars, sendSequence, recvSequence, rx, rxpc, delivered>>

\* try_send's mpsc try_send, which is not followed by on_message_sent.
TryPush(s) ==
    /\ pc[s] = "push" /\ op[s] = "try_send"
    /\ rx = "open"
    /\ \/ /\ Len(queue) < Buffer
          /\ queue' = Append(queue, EnvelopeOf(s))
          /\ Return(s, "ok")
       \/ /\ Len(queue) >= Buffer
          /\ Return(s, "full")
          /\ UNCHANGED queue
    /\ UNCHANGED <<bqVars, sendSequence, recvSequence, rx, rxpc, delivered>>

\* Mutant: the methods that await do not count either.
SentUncounted(s) ==
    /\ pc[s] = "sent"
    /\ Return(s, "ok")
    /\ UNCHANGED <<bqVars, sendSequence, recvSequence, queue, rx, rxpc, delivered>>

OnMessageSent(s) ==
    /\ pc[s] = "sent"
    /\ CountSent
    /\ Return(s, "ok")
    /\ UNCHANGED <<sendSequence, recvSequence, queue, rx, rxpc, delivered>>

(***************************************************************************)
(* The receiving methods.  recv, recv_timeout and try_recv do the same     *)
(* with an envelope; with none they change nothing.                        *)
(***************************************************************************)
Mismatch(e, r) ==
    /\ DebugAssertions
    /\ r = "recv" \/ ~Correlated(e)
    /\ e.seq # recvSequence

\* Mutant: a correlated envelope does not move the expected number on.
TakeUncounted(r) ==
    /\ rxpc = "idle" /\ rx # "dropped" /\ queue # <<>>
    /\ ~Mismatch(Head(queue), r)
    /\ recvSequence' = IF Correlated(Head(queue)) THEN recvSequence ELSE recvSequence + 1
    /\ queue' = Tail(queue)
    /\ delivered' = Append(delivered, Head(queue))
    /\ rxpc' = "received"
    /\ UNCHANGED <<bqVars, sendSequence, rx, pc, op, sequence, outcome>>

Take(r) ==
    /\ rxpc = "idle" /\ rx # "dropped" /\ queue # <<>>
    /\ ~Mismatch(Head(queue), r)
    /\ recvSequence' = recvSequence + 1
    /\ queue' = Tail(queue)
    /\ delivered' = Append(delivered, Head(queue))
    /\ rxpc' = "received"
    /\ UNCHANGED <<bqVars, sendSequence, rx, pc, op, sequence, outcome>>

\* "Message reordering detected": the panic unwinds the receiver's task, which
\* drops the receiving half and what is queued.
Panic(r) ==
    /\ rxpc = "idle" /\ rx # "dropped" /\ queue # <<>>
    /\ Mismatch(Head(queue), r)
    /\ recvSequence' = recvSequence + 1
    /\ queue' = <<>>
    /\ rx' = "dropped"
    /\ rxpc' = "panicked"
    /\ UNCHANGED <<bqVars, sendSequence, pc, op, sequence, outcome, delivered>>

OnMessageReceived ==
    /\ rxpc = "received"
    /\ CountReceived
    /\ rxpc' = IF MustNotify THEN "notify" ELSE "idle"
    /\ UNCHANGED <<sendSequence, recvSequence, queue, rx, pc, op, sequence, outcome,
                   delivered>>

NotifySender ==
    /\ rxpc = "notify"
    /\ NotifyOne(wait)
    /\ rxpc' = "idle"
    /\ UNCHANGED <<depth, messagesSent, messagesReceived>>
    /\ UNCHANGED <<sendSequence, recvSequence, queue, rx, pc, op, sequence, outcome,
                   delivered>>

\* Mutant: the end of the stream comes before what is queued.
ReceiveEndEarly ==
    /\ rxpc = "idle" /\ rx # "dropped"
    /\ rx = "closed" \/ \A s \in Senders : pc[s] = "gone"
    /\ rxpc' = "ended"
    /\ UNCHANGED <<bqVars, sendSequence, recvSequence, queue, rx, pc, op, sequence, outcome,
                   delivered>>

\* Mutant: only close ends the stream.
ReceiveEndClosed ==
    /\ rxpc = "idle" /\ rx = "closed" /\ queue = <<>>
    /\ rxpc' = "ended"
    /\ UNCHANGED <<bqVars, sendSequence, recvSequence, queue, rx, pc, op, sequence, outcome,
                   delivered>>

\* recv finds the queue empty for good, and returns None, as it then always will.
ReceiveEnd ==
    /\ rxpc = "idle" /\ rx # "dropped" /\ queue = <<>>
    /\ rx = "closed" \/ \A s \in Senders : pc[s] = "gone"
    /\ rxpc' = "ended"
    /\ UNCHANGED <<bqVars, sendSequence, recvSequence, queue, rx, pc, op, sequence, outcome,
                   delivered>>

\* close: what is queued stays receivable, and no send succeeds any more.
Close ==
    /\ rxpc = "idle" /\ rx = "open"
    /\ rx' = "closed"
    /\ UNCHANGED <<bqVars, sendSequence, recvSequence, queue, rxpc, pc, op, sequence,
                   outcome, delivered>>

\* The receiving half goes out of scope.
DropReceiver ==
    /\ rxpc \in {"idle", "ended"} /\ rx # "dropped"
    /\ rx' = "dropped"
    /\ queue' = <<>>
    /\ UNCHANGED <<bqVars, sendSequence, recvSequence, rxpc, pc, op, sequence, outcome,
                   delivered>>

-----------------------------------------------------------------------------
SenderStep(s) ==
    \/ \E o \in Ops : Reject(s, o) \/ Call(s, o)
    \/ WaitStep(s) \/ Granted(s) \/ WaitTimeout(s)
    \/ AssignSequence(s)
    \/ Push(s) \/ PushClosed(s) \/ PushTimeout(s) \/ TryPush(s)
    \/ OnMessageSent(s) \/ DropSend(s) \/ DropSender(s)

ReceiverStep ==
    \/ \E r \in Receives : Take(r) \/ Panic(r)
    \/ OnMessageReceived \/ NotifySender \/ ReceiveEnd

Next ==
    \/ \E s \in Senders : SenderStep(s)
    \/ ReceiverStep
    \/ Close \/ DropReceiver

Spec == Init /\ [][Next]_vars

\* The tasks of the senders run when they can.  tokio's semaphore serves the
\* waiting mpsc sends in order, so one for which there is room infinitely often
\* gets it: strong fairness of Push.  The receiver keeps receiving.  Nothing
\* makes a task start a call, a sleep end early, or the receiver close.
Fairness ==
    /\ \A s \in Senders :
          /\ WF_vars(WaitStep(s)) /\ WF_vars(Granted(s))
          /\ WF_vars(AssignSequence(s))
          /\ SF_vars(Push(s)) /\ WF_vars(PushClosed(s)) /\ WF_vars(TryPush(s))
          /\ WF_vars(OnMessageSent(s))
    /\ WF_vars(ReceiverStep)

FairSpec == Spec /\ Fairness
=============================================================================
