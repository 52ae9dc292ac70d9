--------------------------- MODULE MessageLoopProofs ---------------------------
(***************************************************************************)
(* Proofs about module MessageLoop, for any requests, system buffer and    *)
(* number of frames.                                                       *)
(***************************************************************************)
EXTENDS MessageLoopProperties, TLAPS

Lines == {<<>>, <<"reader">>, <<"writer">>, <<"reader", "writer">>, <<"writer", "reader">>}

LEMMA SameSeq ==
    ASSUME NEW T, NEW s \in Seq(T), NEW t \in Seq(T), Len(s) = Len(t),
           \A i \in 1..Len(s) : s[i] = t[i]
    PROVE  s = t
OBVIOUS

LEMMA Joins ==
    ASSUME NEW a, NEW b
    PROVE  Append(<<>>, a) = <<a>> /\ Append(<<a>>, b) = <<a, b>>
<1>. DEFINE T == {a, b}
<1>1. Append(<<>>, a) = <<a>>
  <2>1. /\ <<a>> \in Seq(T) /\ Len(<<a>>) = 1 /\ <<a>>[1] = a
        /\ Append(<<>>, a) \in Seq(T) /\ Len(Append(<<>>, a)) = 1 /\ Append(<<>>, a)[1] = a
    OBVIOUS
  <2>. HIDE DEF T
  <2>. QED BY <2>1, SameSeq
<1>2. Append(<<a>>, b) = <<a, b>>
  <2>1. /\ <<a, b>> \in Seq(T) /\ Len(<<a, b>>) = 2
        /\ <<a, b>>[1] = a /\ <<a, b>>[2] = b
    OBVIOUS
  <2>2. /\ Append(<<a>>, b) \in Seq(T) /\ Len(Append(<<a>>, b)) = 2
        /\ Append(<<a>>, b)[1] = a /\ Append(<<a>>, b)[2] = b
    OBVIOUS
  <2>3. \A i \in 1..2 : <<a, b>>[i] = Append(<<a>>, b)[i]
    <3>1. \A i \in 1..2 : i = 1 \/ i = 2
      OBVIOUS
    <3>. QED BY <2>1, <2>2, <3>1
  <2>. HIDE DEF T
  <2>. QED BY <2>1, <2>2, <2>3, SameSeq
<1>. QED BY <1>1, <1>2

LEMMA Leaves ==
    /\ Tail(<<"reader">>) = <<>> /\ Tail(<<"writer">>) = <<>>
    /\ Tail(<<"reader", "writer">>) = <<"writer">>
    /\ Tail(<<"writer", "reader">>) = <<"reader">>
    /\ Head(<<"reader">>) = "reader" /\ Head(<<"writer">>) = "writer"
    /\ Head(<<"reader", "writer">>) = "reader" /\ Head(<<"writer", "reader">>) = "writer"
OBVIOUS

LEMMA AppendLog ==
    ASSUME NEW S, NEW s \in Seq(S), NEW e \in S
    PROVE  /\ Append(s, e) \in Seq(S) /\ Len(Append(s, e)) = Len(s) + 1 /\ Len(s) \in Nat
           /\ Append(s, e)[Len(s) + 1] = e
           /\ \A i \in 1..Len(s) : Append(s, e)[i] = s[i]
OBVIOUS

LEMMA TailLog ==
    ASSUME NEW S, NEW s \in Seq(S), s # <<>>
    PROVE  /\ Head(s) \in S /\ Head(s) = s[1] /\ Tail(s) \in Seq(S)
           /\ Len(s) \in Nat /\ Len(s) >= 1 /\ Len(Tail(s)) = Len(s) - 1
           /\ \A i \in 1..Len(s) - 1 : Tail(s)[i] = s[i + 1]
OBVIOUS

-----------------------------------------------------------------------------
(***************************************************************************)
(* The parts of the invariant that a step leaves alone                     *)
(***************************************************************************)
LEMMA LockSame ==
    ASSUME LockInv, UNCHANGED line, (reader' = "lock") = (reader = "lock"),
           (writer' = "lock") = (writer = "lock")
    PROVE  LockInv'
BY DEF LockInv

\* The reader, the requests and the peer do not touch the path of messages.
LEMMA PathSame ==
    ASSUME HandInv, PathInv, UNCHANGED <<outgoing, queue, accepted, handled>>,
           InHand' = InHand, (writer' = "ended") = (writer = "ended")
    PROVE  HandInv' /\ PathInv'
BY DEF HandInv, PathInv, WrittenWithoutGap

\* A task joins the line, or the one at its head leaves.
LEMMA LineMoves ==
    ASSUME LockInv
    PROVE  /\ reader # "lock" /\ reader' = "lock" /\ UNCHANGED writer
                /\ line' = Append(line, "reader") => LockInv' /\ line' \in Lines
           /\ writer # "lock" /\ writer' = "lock" /\ UNCHANGED reader
                /\ line' = Append(line, "writer") => LockInv' /\ line' \in Lines
           /\ reader = "lock" /\ Holds("reader") /\ Release /\ reader' # "lock"
                /\ UNCHANGED writer => LockInv' /\ line' \in Lines
           /\ writer = "lock" /\ Holds("writer") /\ Release /\ writer' # "lock"
                /\ UNCHANGED reader => LockInv' /\ line' \in Lines
<1>1. /\ Append(<<>>, "reader") = <<"reader">> /\ Append(<<>>, "writer") = <<"writer">>
      /\ Append(<<"reader">>, "writer") = <<"reader", "writer">>
      /\ Append(<<"writer">>, "reader") = <<"writer", "reader">>
  BY Joins
<1>. QED BY <1>1, Leaves DEF LockInv, Lines, Holds, Release

-----------------------------------------------------------------------------
(***************************************************************************)
(* The channel takes a message, and gives it to the writer                 *)
(***************************************************************************)
LEMMA AcceptKeeps ==
    ASSUME TypeOK, HandInv, PathInv, HasRoom, NEW m \in System, Accept(m), Received,
           UNCHANGED <<writer, outgoing, handled>>
    PROVE  /\ queue' \in Seq(System) /\ Len(queue') <= SystemBuffer
           /\ accepted' \in Seq(System) /\ HandInv' /\ PathInv'
<1>1. /\ queue \in Seq(System) /\ accepted \in Seq(System) /\ handled \in Seq(Outcomes)
      /\ Len(queue) < SystemBuffer /\ Len(queue) \in Nat /\ Len(handled) \in Nat
      /\ SystemBuffer \in Nat
  BY BufferAssumption DEF TypeOK, HasRoom
<1>2. /\ queue' \in Seq(System) /\ Len(queue') = Len(queue) + 1
      /\ queue'[Len(queue) + 1] = m /\ \A i \in 1..Len(queue) : queue'[i] = queue[i]
  BY <1>1, AppendLog DEF Accept
<1>3. /\ accepted' \in Seq(System) /\ Len(accepted') = Len(accepted) + 1
      /\ Len(accepted) \in Nat /\ accepted'[Len(accepted) + 1] = m
      /\ \A i \in 1..Len(accepted) : accepted'[i] = accepted[i]
  BY <1>1, AppendLog DEF Accept
<1>4. InHand \in {0, 1} /\ InHand' = InHand /\ HandInv'
  BY DEF InHand, HandInv
<1>5. /\ Len(accepted) = Len(handled) + InHand + Len(queue)
      /\ InHand = 1 => accepted[Len(handled) + 1] = outgoing
      /\ \A i \in 1..Len(queue) : accepted[Len(handled) + InHand + i] = queue[i]
      /\ \A i \in 1..Len(handled) : accepted[i] = handled[i].message
  BY DEF PathInv, WrittenWithoutGap, Received
<1>. HIDE DEF InHand
<1>6. PathInv'
  <2>1. Len(handled') <= Len(accepted') /\ \A i \in 1..Len(handled') : accepted'[i] = handled'[i].message
    <3>1. Len(handled) <= Len(accepted) /\ \A i \in 1..Len(handled) : i \in 1..Len(accepted)
      BY <1>1, <1>3, <1>4, <1>5
    <3>2. Len(handled') <= Len(accepted')
      BY <1>1, <1>3, <3>1
    <3>3. ASSUME NEW i \in 1..Len(handled) PROVE accepted'[i] = handled[i].message
      <4>1. accepted'[i] = accepted[i]
        BY <1>3, <3>1
      <4>2. accepted[i] = handled[i].message
        BY <1>5
      <4>. QED BY <4>1, <4>2
    <3>4. Len(handled') = Len(handled) /\ \A i \in 1..Len(handled) : handled'[i] = handled[i]
      OBVIOUS
    <3>. QED BY <3>2, <3>3, <3>4
  <2>2. Len(accepted') = Len(handled') + InHand' + Len(queue')
    <3>1. Len(handled') = Len(handled) /\ InHand' = InHand /\ InHand \in Nat
      BY <1>4
    <3>2. /\ Len(accepted') = Len(accepted) + 1 /\ Len(queue') = Len(queue) + 1
          /\ Len(accepted) = Len(handled) + InHand + Len(queue)
      BY <1>2, <1>3, <1>5
    <3>. QED BY <1>1, <3>1, <3>2
  <2>3. InHand' = 1 => accepted'[Len(handled') + 1] = outgoing'
    BY <1>1, <1>3, <1>4, <1>5
  <2>4. ASSUME NEW i \in 1..Len(queue')
        PROVE  accepted'[Len(handled') + InHand' + i] = queue'[i]
    <3>1. CASE i = Len(queue) + 1
      BY <1>1, <1>2, <1>3, <1>4, <1>5, <3>1
    <3>2. CASE i \in 1..Len(queue)
      <4>. DEFINE k == Len(handled) + InHand + i
      <4>1. k \in 1..Len(accepted)
        BY <1>1, <1>3, <1>4, <1>5, <3>2
      <4>2. accepted'[k] = accepted[k]
        BY <1>3, <4>1
      <4>3. accepted[k] = queue[i] /\ queue'[i] = queue[i]
        BY <1>2, <1>5, <3>2
      <4>4. Len(handled') + InHand' + i = k
        BY <1>4
      <4>. QED BY <4>2, <4>3, <4>4
    <3>. QED BY <1>1, <1>2, <3>1, <3>2
  <2>. QED BY <2>1, <2>2, <2>3, <2>4 DEF PathInv, WrittenWithoutGap
<1>. QED BY <1>1, <1>2, <1>3, <1>4, <1>6

LEMMA WriterReceivesKeeps == LoopInv /\ WriterReceives => LoopInv'
<1>. SUFFICES ASSUME LoopInv, WriterReceives PROVE LoopInv'
  OBVIOUS
<1>1. /\ writer = "receive" /\ queue # <<>> /\ queue' = Tail(queue) /\ outgoing' = Head(queue)
      /\ writer' = "ready"
      /\ UNCHANGED <<reader, line, incoming, wire, peer, request, frames, accepted, handled>>
  BY DEF WriterReceives
<1>2. /\ queue \in Seq(System) /\ accepted \in Seq(System) /\ handled \in Seq(Outcomes)
      /\ Len(queue) <= SystemBuffer /\ Len(handled) \in Nat /\ SystemBuffer \in Nat
  BY BufferAssumption DEF LoopInv, TypeOK
<1>3. /\ Head(queue) \in System /\ Head(queue) = queue[1] /\ queue' \in Seq(System)
      /\ Len(queue) \in Nat /\ Len(queue) >= 1 /\ Len(queue') = Len(queue) - 1
      /\ \A i \in 1..Len(queue) - 1 : queue'[i] = queue[i + 1]
  BY <1>1, <1>2, TailLog
<1>4. InHand = 0 /\ InHand' = 1
  BY <1>1 DEF InHand
<1>5. /\ Len(handled) <= Len(accepted) /\ \A i \in 1..Len(handled) : accepted[i] = handled[i].message
      /\ Len(accepted) = Len(handled) + Len(queue)
      /\ \A i \in 1..Len(queue) : accepted[Len(handled) + i] = queue[i]
  <2>1. /\ Len(handled) <= Len(accepted) /\ \A i \in 1..Len(handled) : accepted[i] = handled[i].message
        /\ Len(accepted) = Len(handled) + InHand + Len(queue)
        /\ \A i \in 1..Len(queue) : accepted[Len(handled) + InHand + i] = queue[i]
    BY <1>1 DEF LoopInv, PathInv, WrittenWithoutGap
  <2>2. Len(handled) + InHand = Len(handled)
    BY <1>2, <1>4
  <2>. QED BY <2>1, <2>2
<1>6. TypeOK'
  BY <1>1, <1>2, <1>3 DEF LoopInv, TypeOK
<1>7. LockInv' /\ HandInv'
  BY <1>1, <1>3, <1>4, LockSame DEF LoopInv, HandInv
<1>8. PathInv'
  <2>1. 1 \in 1..Len(queue) /\ \A i \in 1..Len(queue') : i + 1 \in 1..Len(queue)
    BY <1>3
  <2>2. Len(accepted') = Len(handled') + InHand' + Len(queue')
    BY <1>1, <1>2, <1>3, <1>4, <1>5
  <2>3. accepted'[Len(handled') + 1] = outgoing'
    BY <1>1, <1>3, <1>5, <2>1
  <2>4. ASSUME NEW i \in 1..Len(queue')
        PROVE  accepted'[Len(handled') + InHand' + i] = queue'[i]
    <3>1. accepted[Len(handled) + (i + 1)] = queue[i + 1] /\ queue'[i] = queue[i + 1]
      BY <1>3, <1>5, <2>1
    <3>2. Len(handled) + (i + 1) = Len(handled) + 1 + i
      BY <1>2, <1>3
    <3>. QED BY <1>1, <1>4, <3>1, <3>2
  <2>. QED BY <1>1, <1>5, <2>2, <2>3, <2>4 DEF PathInv, WrittenWithoutGap
<1>. QED BY <1>6, <1>7, <1>8 DEF LoopInv

\* The writer is done with the message it has in hand: it has written it, or it could not
\* serialize it.
LEMMA DoneKeeps ==
    ASSUME LoopInv, NEW w \in BOOLEAN, Done(w), outgoing' = Nothing, InHand = 1, InHand' = 0,
           writer # "ended", UNCHANGED <<queue, accepted>>
    PROVE  handled' \in Seq(Outcomes) /\ HandInv' /\ PathInv'
<1>. DEFINE e == [message |-> outgoing, written |-> w]
<1>1. /\ queue \in Seq(System) /\ accepted \in Seq(System) /\ handled \in Seq(Outcomes)
      /\ Len(queue) \in Nat /\ outgoing \in System
  BY DEF LoopInv, TypeOK, HandInv
<1>2. e \in Outcomes /\ e.message = outgoing
  BY <1>1 DEF Outcomes
<1>3. handled' = Append(handled, e)
  BY DEF Done
<1>. HIDE DEF e
<1>4. /\ handled' \in Seq(Outcomes) /\ Len(handled') = Len(handled) + 1 /\ Len(handled) \in Nat
      /\ handled'[Len(handled) + 1] = e
      /\ \A i \in 1..Len(handled) : handled'[i] = handled[i]
  BY <1>1, <1>2, <1>3, AppendLog
<1>5. /\ \A i \in 1..Len(handled) : accepted[i] = handled[i].message
      /\ Len(accepted) = Len(handled) + 1 + Len(queue)
      /\ accepted[Len(handled) + 1] = outgoing
      /\ \A i \in 1..Len(queue) : accepted[Len(handled) + 1 + i] = queue[i]
  BY DEF LoopInv, PathInv, WrittenWithoutGap
<1>6. HandInv'
  BY DEF HandInv
<1>7. PathInv'
  <2>1. Len(handled') <= Len(accepted') /\ Len(accepted') = Len(handled') + InHand' + Len(queue')
    BY <1>1, <1>4, <1>5
  <2>2. \A i \in 1..Len(handled') : accepted'[i] = handled'[i].message
    <3>1. \A i \in 1..Len(handled') : i \in 1..Len(handled) \/ i = Len(handled) + 1
      BY <1>4
    <3>. QED BY <1>2, <1>4, <1>5, <3>1
  <2>3. ASSUME NEW i \in 1..Len(queue') PROVE accepted'[Len(handled') + InHand' + i] = queue'[i]
    <3>1. Len(handled') + InHand' + i = Len(handled) + 1 + i
      BY <1>1, <1>4
    <3>. QED BY <1>5, <3>1
  <2>. QED BY <2>1, <2>2, <2>3 DEF PathInv, WrittenWithoutGap
<1>. QED BY <1>4, <1>6, <1>7
LEMMA WriteFrameKeeps == LoopInv /\ WriteFrame => LoopInv'
<1>. SUFFICES ASSUME LoopInv, WriteFrame PROVE LoopInv'
  OBVIOUS
<1>1. /\ writer = "lock" /\ Holds("writer") /\ Release /\ writer' = "receive"
      /\ Done(TRUE) /\ outgoing' = Nothing
      /\ UNCHANGED <<reader, incoming, queue, wire, peer, request, frames, accepted>>
  BY DEF WriteFrame
<1>2. InHand = 1 /\ InHand' = 0
  BY <1>1 DEF InHand
<1>3. LockInv' /\ line' \in Lines
  BY <1>1, LineMoves DEF LoopInv
<1>4. handled' \in Seq(Outcomes) /\ HandInv' /\ PathInv'
  BY <1>1, <1>2, DoneKeeps
<1>5. TypeOK'
  BY <1>1, <1>3, <1>4 DEF LoopInv, TypeOK, Lines
<1>. QED BY <1>3, <1>4, <1>5 DEF LoopInv

LEMMA SkipKeeps == LoopInv /\ SkipMessage => LoopInv'
<1>. SUFFICES ASSUME LoopInv, SkipMessage PROVE LoopInv'
  OBVIOUS
<1>1. /\ writer = "ready" /\ writer' = "receive" /\ Done(FALSE) /\ outgoing' = Nothing
      /\ UNCHANGED <<reader, line, incoming, queue, wire, peer, request, frames, accepted>>
  BY DEF SkipMessage
<1>2. InHand = 1 /\ InHand' = 0
  BY <1>1 DEF InHand
<1>3. LockInv'
  BY <1>1, LockSame DEF LoopInv
<1>4. handled' \in Seq(Outcomes) /\ HandInv' /\ PathInv'
  BY <1>1, <1>2, DoneKeeps
<1>5. TypeOK'
  BY <1>1, <1>4 DEF LoopInv, TypeOK
<1>. QED BY <1>3, <1>4, <1>5 DEF LoopInv

LEMMA WriteFailsKeeps == LoopInv /\ WriteFails => LoopInv'
<1>. SUFFICES ASSUME LoopInv, WriteFails PROVE LoopInv'
  OBVIOUS
<1>1. /\ writer = "lock" /\ Holds("writer") /\ Release /\ writer' = "ended"
      /\ outgoing' = Nothing /\ queue' = <<>>
      /\ UNCHANGED <<reader, incoming, wire, peer, request, frames, accepted, handled>>
  BY DEF WriteFails
<1>2. LockInv' /\ line' \in Lines
  BY <1>1, LineMoves DEF LoopInv
<1>3. TypeOK' /\ HandInv'
  <2>1. <<>> \in Seq(System) /\ Len(<<>>) = 0
    OBVIOUS
  <2>. QED BY <1>1, <1>2, <2>1, BufferAssumption DEF LoopInv, TypeOK, HandInv, InHand, Lines
<1>4. PathInv'
  BY <1>1 DEF LoopInv, PathInv, WrittenWithoutGap
<1>. QED BY <1>2, <1>3, <1>4 DEF LoopInv

-----------------------------------------------------------------------------
(***************************************************************************)
(* The reader, the requests and the peer                                   *)
(***************************************************************************)
LEMMA ReadKeeps == LoopInv /\ (ReadFrame \/ ReadFails) => LoopInv'
<1>. SUFFICES ASSUME LoopInv, ReadFrame \/ ReadFails PROVE LoopInv'
  OBVIOUS
<1>1. /\ reader = "lock" /\ Holds("reader") /\ Release /\ reader' \in {"route", "ended"}
      /\ UNCHANGED <<writer, outgoing, queue, peer, request, frames, accepted, handled>>
  BY DEF ReadFrame, ReadFails
<1>2. wire' \in Seq(Frames) /\ incoming' \in Frames \cup {Nothing}
  <2>1. wire \in Seq(Frames) /\ incoming \in Frames \cup {Nothing}
    BY DEF LoopInv, TypeOK
  <2>2. CASE ReadFrame
    <3>1. wire # <<>> /\ wire' = Tail(wire) /\ incoming' = Head(wire)
      BY <2>2 DEF ReadFrame
    <3>. QED BY <2>1, <3>1, TailLog
  <2>3. CASE ReadFails
    BY <2>1, <2>3 DEF ReadFails
  <2>. QED BY <2>2, <2>3
<1>3. LockInv' /\ line' \in Lines
  BY <1>1, LineMoves DEF LoopInv
<1>4. HandInv' /\ PathInv'
  <2>1. InHand' = InHand /\ (writer' = "ended") = (writer = "ended")
    BY <1>1 DEF InHand
  <2>. QED BY <1>1, <2>1, PathSame DEF LoopInv
<1>5. TypeOK'
  BY <1>1, <1>2, <1>3 DEF LoopInv, TypeOK, Lines
<1>. QED BY <1>3, <1>4, <1>5 DEF LoopInv

LEMMA LocksKeep == LoopInv /\ (ReaderLocks \/ WriterLocks) => LoopInv'
<1>. SUFFICES ASSUME LoopInv, ReaderLocks \/ WriterLocks PROVE LoopInv'
  OBVIOUS
<1>1. /\ \/ reader = "ready" /\ reader' = "lock" /\ line' = Append(line, "reader")
            /\ UNCHANGED writer
         \/ writer = "ready" /\ writer' = "lock" /\ line' = Append(line, "writer")
            /\ UNCHANGED reader
      /\ UNCHANGED <<incoming, outgoing, queue, wire, peer, request, frames, accepted, handled>>
  BY DEF ReaderLocks, WriterLocks
<1>2. LockInv' /\ line' \in Lines
  BY <1>1, LineMoves DEF LoopInv
<1>3. HandInv' /\ PathInv'
  <2>1. InHand' = InHand /\ (writer' = "ended") = (writer = "ended")
    BY <1>1 DEF InHand
  <2>. QED BY <1>1, <2>1, PathSame DEF LoopInv
<1>4. TypeOK'
  BY <1>1, <1>2 DEF LoopInv, TypeOK, Lines
<1>. QED BY <1>2, <1>3, <1>4 DEF LoopInv

LEMMA RouteKeeps == LoopInv /\ (RouteToSystem \/ RouteNowhere) => LoopInv'
<1>. SUFFICES ASSUME LoopInv, RouteToSystem \/ RouteNowhere PROVE LoopInv'
  OBVIOUS
<1>1. /\ reader = "route" /\ reader' = "ready" /\ incoming' = Nothing
      /\ UNCHANGED <<writer, line, outgoing, wire, peer, request, frames, handled>>
  BY DEF RouteToSystem, RouteNowhere, Routed
<1>2. LockInv'
  BY <1>1, LockSame DEF LoopInv
<1>3. /\ queue' \in Seq(System) /\ Len(queue') <= SystemBuffer
      /\ accepted' \in Seq(System) /\ HandInv' /\ PathInv'
  <2>1. CASE HasRoom /\ Received /\ incoming \in System /\ Accept(incoming)
    BY <1>1, <2>1, AcceptKeeps DEF LoopInv
  <2>2. CASE UNCHANGED <<queue, accepted>>
    <3>1. InHand' = InHand /\ (writer' = "ended") = (writer = "ended")
      BY <1>1 DEF InHand
    <3>2. HandInv' /\ PathInv'
      BY <1>1, <2>2, <3>1, PathSame DEF LoopInv
    <3>. QED BY <2>2, <3>2 DEF LoopInv, TypeOK
  <2>. QED BY <2>1, <2>2 DEF RouteToSystem, RouteNowhere
<1>4. TypeOK'
  BY <1>1, <1>3 DEF LoopInv, TypeOK
<1>. QED BY <1>2, <1>3, <1>4 DEF LoopInv

LEMMA RequestKeeps ==
    ASSUME LoopInv, NEW r \in Requests, RequestChannel(r) \/ SendRequest(r) \/ TimeOut(r)
    PROVE  LoopInv'
<1>1. /\ UNCHANGED <<loopVars, wire, peer, frames, handled>>
      /\ \E where \in {"send", "wait", "failed", "timed_out"} : GoTo(r, where)
  BY DEF RequestChannel, SendRequest, TimeOut
<1>2. UNCHANGED <<reader, writer, line, incoming, outgoing, wire, peer, frames, handled>>
  BY <1>1 DEF loopVars
<1>3. request' \in [Requests -> {"idle", "send", "wait", "failed", "timed_out"}]
  BY <1>1 DEF GoTo, LoopInv, TypeOK
<1>4. LockInv'
  BY <1>2, LockSame DEF LoopInv
<1>5. /\ queue' \in Seq(System) /\ Len(queue') <= SystemBuffer
      /\ accepted' \in Seq(System) /\ HandInv' /\ PathInv'
  <2>1. CASE HasRoom /\ Received /\ Accept([kind |-> "request", about |-> r])
    <3>1. [kind |-> "request", about |-> r] \in System
      BY DEF System
    <3>. QED BY <1>2, <2>1, <3>1, AcceptKeeps DEF LoopInv
  <2>2. CASE UNCHANGED <<queue, accepted>>
    <3>1. InHand' = InHand /\ (writer' = "ended") = (writer = "ended")
      BY <1>2 DEF InHand
    <3>2. HandInv' /\ PathInv'
      BY <1>2, <2>2, <3>1, PathSame DEF LoopInv
    <3>. QED BY <2>2, <3>2 DEF LoopInv, TypeOK
  <2>. QED BY <2>1, <2>2 DEF RequestChannel, SendRequest, TimeOut
<1>6. TypeOK'
  BY <1>2, <1>3, <1>5 DEF LoopInv, TypeOK
<1>. QED BY <1>4, <1>5, <1>6 DEF LoopInv

LEMMA PeerKeeps == LoopInv /\ (PeerSends \/ PeerCloses) => LoopInv'
<1>. SUFFICES ASSUME LoopInv, PeerSends \/ PeerCloses PROVE LoopInv'
  OBVIOUS
<1>1. UNCHANGED <<reader, writer, line, incoming, outgoing, queue, request, accepted, handled>>
  BY DEF PeerSends, PeerCloses, loopVars
<1>2. wire' \in Seq(Frames) /\ frames' \in 0..MaxFrames /\ peer' \in {"open", "closed"}
  <2>1. wire \in Seq(Frames) /\ frames \in 0..MaxFrames /\ peer \in {"open", "closed"}
    BY DEF LoopInv, TypeOK
  <2>2. CASE PeerSends
    <3>1. PICK f \in Frames : wire' = Append(wire, f)
      BY <2>2 DEF PeerSends
    <3>2. wire' \in Seq(Frames)
      BY <2>1, <3>1, AppendLog
    <3>. QED BY <2>1, <2>2, <3>2, FramesAssumption DEF PeerSends
  <2>3. CASE PeerCloses
    BY <2>1, <2>3 DEF PeerCloses
  <2>. QED BY <2>2, <2>3
<1>3. LockInv'
  BY <1>1, LockSame DEF LoopInv
<1>4. HandInv' /\ PathInv'
  <2>1. InHand' = InHand /\ (writer' = "ended") = (writer = "ended")
    BY <1>1 DEF InHand
  <2>. QED BY <1>1, <2>1, PathSame DEF LoopInv
<1>5. TypeOK'
  BY <1>1, <1>2 DEF LoopInv, TypeOK
<1>. QED BY <1>3, <1>4, <1>5 DEF LoopInv

-----------------------------------------------------------------------------
(***************************************************************************)
(* The theorems                                                            *)
(***************************************************************************)
LEMMA LoopStart == Init => LoopInv
<1>. SUFFICES ASSUME Init PROVE LoopInv
  OBVIOUS
<1>1. TypeOK
  BY BufferAssumption, FramesAssumption DEF Init, TypeOK
<1>2. LockInv /\ HandInv
  BY DEF Init, LockInv, HandInv, InHand
<1>3. PathInv
  BY DEF Init, PathInv, WrittenWithoutGap, InHand
<1>. QED BY <1>1, <1>2, <1>3 DEF LoopInv

LEMMA LoopStep == LoopInv /\ [Next]_vars => LoopInv'
<1>1. CASE UNCHANGED vars
  BY <1>1 DEF vars, loopVars, LoopInv, TypeOK, LockInv, HandInv, InHand, PathInv, WrittenWithoutGap
<1>. QED
  BY <1>1, LocksKeep, ReadKeeps, RouteKeeps, WriterReceivesKeeps, WriteFrameKeeps,
     SkipKeeps, WriteFailsKeeps, RequestKeeps, PeerKeeps
  DEF Next, ReaderGoesOn, WriterStep

\* The inductive invariant of a server's message loop: who waits for the lock is in
\* line, and a message is lost between the system channel and the peer only if the
\* serializer refuses it, or if a write fails, which ends the writer.
THEOREM LoopInvariant == Spec => []LoopInv
BY LoopStart, LoopStep, PTL DEF Spec

\* Every variable of the loop has the values the code can give it, and the system
\* channel keeps its bound, for any requests, bound and frames.
THEOREM LoopTypes == Spec => []TypeOK
<1>1. LoopInv => TypeOK
  BY DEF LoopInv
<1>. QED BY <1>1, LoopInvariant, PTL

\* The peer is sent what the system channel has accepted, in order and, but for messages
\* that do not serialize, without a gap: whatever fails otherwise is the end.
THEOREM NoGap == Spec => []WrittenWithoutGap
<1>1. LoopInv => WrittenWithoutGap
  BY DEF LoopInv, PathInv
<1>. QED BY <1>1, LoopInvariant, PTL
=============================================================================
