------------------------- MODULE ChannelProperties -------------------------
(***************************************************************************)
(* What a channel has to guarantee, stated over module Channel.            *)
(***************************************************************************)
EXTENDS Channel

TypeOK ==
    /\ BQTypeOK
    /\ sendSequence \in Nat
    /\ recvSequence \in Nat
    /\ queue \in Seq(Envelope) /\ Len(queue) <= Buffer
    /\ rx \in {"open", "closed", "dropped"}
    /\ rxpc \in {"idle", "received", "notify", "panicked", "ended"}
    /\ pc \in [Senders -> Stages]
    /\ op \in [Senders -> SendOps \cup {NoOp}]
    /\ sequence \in [Senders -> Nat]
    /\ outcome \in [Senders -> Seq(Outcomes)]
    /\ delivered \in Seq(Envelope)

\* A task that is in a call has a method.
InCall == \A s \in Senders : pc[s] \notin Free => op[s] \in Ops

InLog(log, s, n) == \E i \in DOMAIN log : log[i].from = s /\ log[i].num = n

\* The messages of one task arrive in the order of its calls and none arrives
\* twice, whatever the other clones of the sender do (ADR-007: FIFO ordering
\* within a channel).
PerSenderFifo ==
    \A i, j \in DOMAIN delivered :
        /\ i < j
        /\ delivered[i].from = delivered[j].from
        => delivered[i].num < delivered[j].num

\* A method that returned an error has not sent its message, now or later, nor has
\* one whose future was dropped: a caller that retries after Timeout, Full or Closed,
\* or after a timeout of its own, duplicates nothing.
ErrorMeansNotSent ==
    \A s \in Senders : \A n \in DOMAIN outcome[s] :
        outcome[s][n] # "ok" => ~InLog(delivered, s, n) /\ ~InLog(queue, s, n)

\* A method that returned Ok has its message delivered or queued, as long as
\* the receiving half exists.
OkMeansKept ==
    \A s \in Senders : \A n \in DOMAIN outcome[s] :
        outcome[s][n] = "ok" /\ rx # "dropped"
            => InLog(delivered, s, n) \/ InLog(queue, s, n)

\* A receiver that was told the end has been given every message that a method
\* returned Ok for, be it close that ended the stream or the last clone's drop.
EndIsComplete ==
    rxpc = "ended" =>
        \A s \in Senders : \A n \in DOMAIN outcome[s] :
            outcome[s][n] = "ok" => InLog(delivered, s, n)

\* The messages that on_message_sent never counted.
Uncounted == {e \in ToSet(delivered) \cup ToSet(queue) : e.op = "try_send"}

AtRest == rxpc \in {"idle", "ended"} /\ \A s \in Senders : pc[s] \in Free

\* With no call in progress the backpressure count is the number of queued
\* messages, less one for every try_send that was ever accepted (which wraps).
DepthAtRest ==
    Bounded /\ AtRest /\ rx # "dropped" => depth = (Len(queue) - Cardinality(Uncounted)) % Word

\* The count always is the balance of the two message counters of the strategy.
DepthIsBalance == Bounded => depth = (messagesSent - messagesReceived) % Word

\* A send that waits for capacity has something that will wake it, as long as the
\* receiver exists: a message to take, or a receive that has not ended.
NoStrandedWaiter ==
    \A s \in Senders : wait[s] = "parked" /\ rx # "dropped" =>
        queue # <<>> \/ rxpc \in {"received", "notify"}

\* The check of debug builds never fires (channel.rs:870).
NoReorderPanic == rxpc # "panicked"

\* The channel implements the abstract FIFO channel, in every build and with
\* any number of clones: an envelope is its sender and the number of the call.
Messages(log) == [i \in DOMAIN log |-> <<log[i].from, log[i].num>>]

Fifo == INSTANCE FifoChannel WITH
    Writers <- Senders, Bound <- Buffer, MaxNumber <- MaxOps,
    buffer <- Messages(queue), received <- Messages(delivered), open <- (rx = "open")

ImplementsFifo == Fifo!Spec

\* A send that waits for capacity returns, if the receiver keeps receiving and
\* neither end goes away ("will wait until space is available").
SendReturns == \A s \in Senders : pc[s] \notin Free ~> pc[s] \in Free \/ rx # "open"

\* A receiver that keeps receiving learns that the last sender has gone.
EndIsTold ==
    (\A s \in Senders : pc[s] = "gone") ~> rxpc \in {"ended", "panicked"} \/ rx = "dropped"

-----------------------------------------------------------------------------
(***************************************************************************)
(* The inductive invariant behind PerSenderFifo and ErrorMeansNotSent.     *)
(***************************************************************************)

\* An envelope that the queue has accepted belongs to a call that returned Ok,
\* or to the call its sender is about to return from.
Settled(e) ==
    /\ e.num \in 1..Number(e.from)
    /\ e.num = Number(e.from) => pc[e.from] = "sent"
    /\ e.num < Number(e.from) => outcome[e.from][e.num] = "ok"

AllSettled(log) == \A i \in DOMAIN log : Settled(log[i])

InOrder(log) ==
    \A i, j \in DOMAIN log :
        i < j /\ log[i].from = log[j].from => log[i].num < log[j].num

\* What is delivered comes before what is queued.
Before(log1, log2) ==
    \A i \in DOMAIN log1, j \in DOMAIN log2 :
        log1[i].from = log2[j].from => log1[i].num < log2[j].num

OrderInv ==
    /\ AllSettled(delivered) /\ AllSettled(queue)
    /\ InOrder(delivered) /\ InOrder(queue)
    /\ Before(delivered, queue)

IndInv == TypeOK /\ InCall /\ OrderInv

-----------------------------------------------------------------------------
(***************************************************************************)
(* The invariants behind OkMeansKept and EndIsComplete, DepthAtRest, and   *)
(* NoReorderPanic and NoStrandedWaiter of one sender, beside IndInv.       *)
(***************************************************************************)

\* The channel has taken message n of s for good.
Accepted(s, n) ==
    \/ n \in DOMAIN outcome[s] /\ outcome[s][n] = "ok"
    \/ pc[s] = "sent" /\ n = Number(s)

KeptInv ==
    \A s \in Senders : \A n \in DOMAIN outcome[s] \cup {Number(s)} : Accepted(s, n) =>
        /\ rx # "dropped" => InLog(delivered, s, n) \/ InLog(queue, s, n)
        /\ rxpc = "ended" => InLog(delivered, s, n)

\* After the end there is nothing to receive, and nobody can send.
EndInv ==
    rxpc = "ended" => queue = <<>> /\ (rx # "open" \/ \A s \in Senders : pc[s] = "gone")

\* The message counters of the strategy follow the logs, but for the calls that have
\* pushed and not yet counted and the message that is received and not yet counted.
Pushed == {s \in Senders : pc[s] = "sent"}
CountInv ==
    rx # "dropped" =>
        /\ IsFiniteSet(Uncounted) /\ IsFiniteSet(Pushed)
        /\ messagesReceived = Len(delivered) - (IF rxpc = "received" THEN 1 ELSE 0)
        /\ messagesSent = Len(delivered) + Len(queue)
                              - Cardinality(Uncounted) - Cardinality(Pushed)

\* Nobody is registered with Notify while a permit is stored, and exactly the parked
\* futures are registered.
NotifyConsistent ==
    /\ permit => waiters = <<>>
    /\ ToSet(waiters) = {s \in Senders : wait[s] = "parked"}
    /\ IsInjective(waiters)

\* Only a task that is in wait_for_capacity has a future there.
WaitInv == NotifyConsistent /\ \A s \in Senders : pc[s] # "wait" => wait[s] = "none"

\* With one sender s whose methods all wait and whose futures are not dropped, every
\* number that is taken is queued, in its place, as long as the receiver is open.
SoloInv(s) ==
    /\ rxpc # "panicked"
    /\ \A i \in DOMAIN queue : queue[i].seq = recvSequence + i - 1
    /\ rx = "open" =>
          /\ pc[s] # "push" => sendSequence = recvSequence + Len(queue)
          /\ pc[s] = "push" => /\ sequence[s] = recvSequence + Len(queue)
                               /\ sendSequence = sequence[s] + 1

\* With one sender s that never calls try_send, what it waits for is still to come:
\* the count is at capacity, or the notification is under way.
SoloWait(s) ==
    /\ Uncounted = {}
    /\ wait[s] # "none" => Bounded
    /\ wait[s] = "poll" => depth >= Capacity \/ permit \/ rxpc = "notify"
    /\ wait[s] = "parked" => depth >= Capacity \/ rxpc = "notify"
=============================================================================
