------------------------ MODULE MessageLoopProperties ------------------------
(***************************************************************************)
(* What the message loop of a server has to guarantee.                     *)
(***************************************************************************)
EXTENDS MessageLoop, FiniteSets

Outcomes == [message : System, written : BOOLEAN]

TypeOK ==
    /\ reader \in {"ready", "lock", "route", "ended"}
    /\ writer \in {"receive", "ready", "lock", "ended"}
    /\ line \in {<<>>, <<"reader">>, <<"writer">>, <<"reader", "writer">>, <<"writer", "reader">>}
    /\ incoming \in Frames \cup {Nothing} /\ outgoing \in System \cup {Nothing}
    /\ queue \in Seq(System) /\ Len(queue) <= SystemBuffer
    /\ wire \in Seq(Frames) /\ frames \in 0..MaxFrames
    /\ peer \in {"open", "closed"}
    /\ request \in [Requests -> {"idle", "send", "wait", "failed", "timed_out"}]
    /\ accepted \in Seq(System) /\ handled \in Seq(Outcomes)

\* What the peer is sent is what the channel has accepted, in order, be it the
\* endpoint's or routed from the peer, and without a gap but for messages that do not
\* serialize: one that cannot be written is the end, and none comes after it.
WrittenWithoutGap ==
    /\ Len(handled) <= Len(accepted)
    /\ \A i \in 1..Len(handled) : accepted[i] = handled[i].message

\* The reader waits, with the lock, for a frame that does not come.
PeerSilent ==
    reader = "lock" /\ Holds("reader") /\ wire = <<>> /\ peer = "open"

\* The writer gets its turn: a message that it has received is written, or fails to
\* be, unless the peer stays silent for good.  In particular it does so while the reader
\* waits for room in the channel that the writer alone empties.
WriterNotStarved == <>[]PeerSilent \/ []<>(writer \notin {"ready", "lock"})

\* A message that the system channel has accepted goes on to the peer (or is one that does
\* not serialize), unless the peer stays silent for good or a write fails, although the
\* reader needs the lock again and again and may wait for room for ever.
AcceptedGoesOut ==
    \/ <>[]PeerSilent
    \/ \A n \in 1..Cardinality(Requests) + MaxFrames :
          Len(accepted) >= n ~> Len(handled) >= n \/ writer = "ended"

-----------------------------------------------------------------------------
(***************************************************************************)
(* The inductive invariant behind TypeOK and WrittenWithoutGap.            *)
(***************************************************************************)

\* Who waits for the lock is in line, once.
LockInv ==
    /\ reader = "lock" /\ writer = "lock"
          => line \in {<<"reader", "writer">>, <<"writer", "reader">>}
    /\ reader = "lock" /\ writer # "lock" => line = <<"reader">>
    /\ reader # "lock" /\ writer = "lock" => line = <<"writer">>
    /\ reader # "lock" /\ writer # "lock" => line = <<>>

\* How many messages the writer has in hand, on their way from the channel to the peer.
InHand == IF writer \in {"ready", "lock"} THEN 1 ELSE 0

HandInv == outgoing \in IF InHand = 1 THEN System ELSE {Nothing}

\* What was accepted is what was handled, then what is in hand, then what is queued, as
\* long as the writer goes on.
PathInv ==
    /\ WrittenWithoutGap
    /\ writer # "ended" =>
          /\ Len(accepted) = Len(handled) + InHand + Len(queue)
          /\ InHand = 1 => accepted[Len(handled) + 1] = outgoing
          /\ \A i \in 1..Len(queue) : accepted[Len(handled) + InHand + i] = queue[i]

LoopInv == TypeOK /\ LockInv /\ HandInv /\ PathInv
=============================================================================
