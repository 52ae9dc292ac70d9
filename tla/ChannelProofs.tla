---------------------------- MODULE ChannelProofs ----------------------------
(***************************************************************************)
(* Proofs about module Channel, for any set of senders, any capacity, any  *)
(* word size and both builds.                                              *)
(***************************************************************************)
EXTENDS ChannelProperties, FiniteSetTheorems, TLAPS

USE DEF SendOps, ReceiveOps, NoOp, Outcomes, Envelope, WaitStates, Free, Stages

-----------------------------------------------------------------------------
(***************************************************************************)
(* Type correctness                                                        *)
(***************************************************************************)
LEMMA InitTypeOK == Init => TypeOK
<1>. SUFFICES ASSUME Init PROVE TypeOK
  OBVIOUS
<1>a. 0 \in 0..(Word - 1)
  BY CapacityAssumption, WordAssumption
<1>b. /\ waiters \in Seq(Senders)
      /\ wait \in [Senders -> WaitStates]
  BY DEF Init, BQInit
<1>c. permit \in BOOLEAN
  BY Zenon DEF Init, BQInit
<1>1. BQTypeOK
  BY <1>a, <1>b, <1>c DEF Init, BQInit, BQTypeOK
<1>2. Len(queue) <= Buffer
  BY BufferAssumption DEF Init
<1>3. /\ queue \in Seq(Envelope) /\ delivered \in Seq(Envelope)
      /\ outcome \in [Senders -> Seq(Outcomes)]
  BY DEF Init
<1>4. /\ pc \in [Senders -> Stages]
      /\ op \in [Senders -> SendOps \cup {NoOp}]
      /\ sequence \in [Senders -> Nat]
  BY DEF Init
<1>. QED BY <1>1, <1>2, <1>3, <1>4 DEF Init, TypeOK

\* Arithmetic of the machine word: the remainder is a word.
LEMMA ModType ==
    ASSUME NEW a \in Int, NEW w \in Nat \ {0}
    PROVE  a % w \in 0..(w - 1)
OBVIOUS

LEMMA WordType ==
    ASSUME NEW a \in Int
    PROVE  a % Word \in 0..(Word - 1)
<1>1. Word \in Nat \ {0}
  BY CapacityAssumption, WordAssumption
<1>. QED BY <1>1, ModType

\* Removing an element of a sequence leaves a sequence over the same set.
LEMMA RemoveAtType ==
    ASSUME NEW S, NEW q \in Seq(S), NEW k \in DOMAIN q
    PROVE  RemoveAt(q, k) \in Seq(S)
BY DEF RemoveAt

\* The two ends of a non-empty sequence.
LEMMA HeadTailType ==
    ASSUME NEW S, NEW q \in Seq(S), q # <<>>
    PROVE  /\ Head(q) \in S /\ Tail(q) \in Seq(S)
           /\ Len(q) \in Nat \ {0} /\ Len(Tail(q)) = Len(q) - 1
OBVIOUS

LEMMA HeadTailElements ==
    ASSUME NEW S, NEW q \in Seq(S), q # <<>>
    PROVE  /\ 1 \in DOMAIN q /\ Head(q) = q[1]
           /\ \A i \in DOMAIN Tail(q) :
                 i \in Nat \ {0} /\ i + 1 \in DOMAIN q /\ Tail(q)[i] = q[i + 1]
OBVIOUS

LEMMA ElementType ==
    ASSUME NEW S, NEW q \in Seq(S)
    PROVE  \A i \in DOMAIN q : q[i] \in S
OBVIOUS

LEMMA AppendElements ==
    ASSUME NEW S, NEW q \in Seq(S), NEW e, NEW i \in DOMAIN Append(q, e)
    PROVE  (i \in DOMAIN q /\ Append(q, e)[i] = q[i]) \/ Append(q, e)[i] = e
OBVIOUS

LEMMA AppendType ==
    ASSUME NEW S, NEW q \in Seq(S), NEW e \in S
    PROVE  Append(q, e) \in Seq(S)
OBVIOUS

LEMMA AppendAll ==
    ASSUME NEW S, NEW q \in Seq(S), NEW e \in S
    PROVE  /\ Len(q) \in Nat /\ Len(Append(q, e)) = Len(q) + 1
           /\ DOMAIN q = 1..Len(q) /\ DOMAIN Append(q, e) = 1..(Len(q) + 1)
           /\ DOMAIN Append(q, e) = DOMAIN q \cup {Len(q) + 1}
           /\ Append(q, e)[Len(q) + 1] = e
           /\ \A i \in DOMAIN q : Append(q, e)[i] = q[i]
OBVIOUS

\* Waking the first waiter, from any well-typed wait states.
LEMMA NotifyOneType ==
    ASSUME BQTypeOK, NEW w \in [Senders -> WaitStates], NotifyOne(w)
    PROVE  /\ permit' \in BOOLEAN
           /\ waiters' \in Seq(Senders)
           /\ wait' \in [Senders -> WaitStates]
<1>1. CASE waiters = <<>>
  BY <1>1 DEF BQTypeOK, NotifyOne
<1>2. CASE waiters # <<>>
  BY <1>2 DEF BQTypeOK, NotifyOne
<1>. QED BY <1>1, <1>2

\* A wait that is given up leaves the others as they were, or wakes one.
LEMMA CancelWaitType ==
    ASSUME BQTypeOK, NEW s \in Senders, CancelWait(s)
    PROVE  BQTypeOK'
<1>1. ASSUME wait[s] = "parked", NEW k \in DOMAIN waiters,
             waiters' = RemoveAt(waiters, k)
      PROVE  waiters' \in Seq(Senders)
  BY <1>1, RemoveAtType DEF BQTypeOK
<1>2. [wait EXCEPT ![s] = "none"] \in [Senders -> WaitStates]
  BY DEF BQTypeOK
<1>3. CASE wait[s] = "parked"
  BY <1>1, <1>2, <1>3 DEF CancelWait, BQTypeOK
<1>4. CASE wait[s] = "woken"
  <2>1. NotifyOne([wait EXCEPT ![s] = "none"])
    BY <1>4 DEF CancelWait
  <2>. QED BY <1>2, <2>1, NotifyOneType DEF CancelWait, BQTypeOK
<1>. QED BY <1>3, <1>4 DEF CancelWait

\* What a method does when it returns keeps the types.
LEMMA ReturnType ==
    ASSUME TypeOK, NEW s \in Senders, NEW r \in Outcomes, Return(s, r)
    PROVE  /\ pc' \in [Senders -> Stages]
           /\ op' \in [Senders -> SendOps \cup {NoOp}]
           /\ sequence' \in [Senders -> Nat]
           /\ outcome' \in [Senders -> Seq(Outcomes)]
BY DEF TypeOK, Return

LEMMA EnvelopeType ==
    ASSUME TypeOK, NEW s \in Senders, op[s] \in SendOps
    PROVE  EnvelopeOf(s) \in Envelope
BY DEF TypeOK, EnvelopeOf, Number

\* A step keeps the types, given that calls have methods.
LEMMA NextType ==
    ASSUME TypeOK, InCall, [Next]_vars
    PROVE  TypeOK' /\ InCall'
<1>. USE DEF TypeOK, InCall, bqVars, chVars
<1>1. ASSUME NEW s \in Senders, NEW o \in Ops, Reject(s, o)
      PROVE  TypeOK' /\ InCall'
  BY <1>1, ReturnType DEF Reject, BQTypeOK, Return
<1>2. ASSUME NEW s \in Senders, NEW o \in Ops, Call(s, o)
      PROVE  TypeOK' /\ InCall'
  <2>1. o \in SendOps
    BY OpsAssumption
  <2>. QED BY <1>2, <2>1 DEF Call, BQTypeOK, MayCall
<1>3. ASSUME NEW s \in Senders, WaitStep(s)
      PROVE  TypeOK' /\ InCall'
  <2>1. BQTypeOK'
    <3>1. CASE CheckCapacity(s)
      BY <3>1 DEF CheckCapacity, BQTypeOK
    <3>2. CASE PollNotified(s)
      <4>1. waiters' \in Seq(Senders) /\ wait' \in [Senders -> WaitStates]
        <5>1. CASE waiters' = Append(waiters, s) /\ wait' = [wait EXCEPT ![s] = "parked"]
          BY <5>1 DEF BQTypeOK
        <5>2. CASE waiters' = waiters /\ wait' = [wait EXCEPT ![s] = "check"]
          BY <5>2 DEF BQTypeOK
        <5>. QED BY <3>2, <5>1, <5>2, Zenon DEF PollNotified
      <4>2. permit' \in BOOLEAN
        BY <3>2, Zenon DEF PollNotified, BQTypeOK
      <4>. QED BY <3>2, <4>1, <4>2 DEF PollNotified, BQTypeOK
    <3>3. CASE Wake(s)
      BY <3>3 DEF Wake, BQTypeOK
    <3>. QED BY <1>3, <3>1, <3>2, <3>3 DEF WaitStep
  <2>. QED BY <1>3, <2>1 DEF WaitStep
<1>4. ASSUME NEW s \in Senders, Granted(s)
      PROVE  TypeOK' /\ InCall'
  BY <1>4 DEF Granted, BQTypeOK
<1>5. ASSUME NEW s \in Senders, WaitTimeout(s)
      PROVE  TypeOK' /\ InCall'
  BY <1>5, CancelWaitType, ReturnType DEF WaitTimeout, Return
<1>6. ASSUME NEW s \in Senders, AssignSequence(s)
      PROVE  TypeOK' /\ InCall'
  BY <1>6 DEF AssignSequence, BQTypeOK
<1>7. ASSUME NEW s \in Senders, Push(s)
      PROVE  TypeOK' /\ InCall'
  <2>1. EnvelopeOf(s) \in Envelope
    BY <1>7, OpsAssumption, EnvelopeType DEF Push
  <2>2. queue' \in Seq(Envelope) /\ Len(queue') <= Buffer
    BY <1>7, <2>1, BufferAssumption DEF Push
  <2>. QED BY <1>7, <2>2 DEF Push, BQTypeOK
<1>8. ASSUME NEW s \in Senders, PushClosed(s) \/ PushTimeout(s)
      PROVE  TypeOK' /\ InCall'
  BY <1>8, ReturnType DEF PushClosed, PushTimeout, BQTypeOK, Return
<1>9. ASSUME NEW s \in Senders, TryPush(s)
      PROVE  TypeOK' /\ InCall'
  <2>1. EnvelopeOf(s) \in Envelope
    BY <1>9, EnvelopeType DEF TryPush
  <2>2. queue' \in Seq(Envelope) /\ Len(queue') <= Buffer
    <3>1. CASE queue' = queue
      BY <3>1
    <3>2. CASE Len(queue) < Buffer /\ queue' = Append(queue, EnvelopeOf(s))
      BY <2>1, <3>2, BufferAssumption
    <3>. QED BY <1>9, <3>1, <3>2 DEF TryPush
  <2>3. Return(s, "ok") \/ Return(s, "full")
    BY <1>9 DEF TryPush
  <2>. QED BY <1>9, <2>2, <2>3, ReturnType DEF TryPush, BQTypeOK, Return
<1>10. ASSUME NEW s \in Senders, OnMessageSent(s)
       PROVE  TypeOK' /\ InCall'
  <2>0. depth + 1 \in Int
    BY DEF BQTypeOK
  <2>1. (depth + 1) % Word \in 0..(Word - 1)
    BY <2>0, WordType
  <2>2. BQTypeOK'
    BY <1>10, <2>1 DEF OnMessageSent, CountSent, BQTypeOK
  <2>. QED BY <1>10, <2>2, ReturnType DEF OnMessageSent, Return
<1>11. ASSUME NEW r \in Receives, Take(r)
       PROVE  TypeOK' /\ InCall'
  <2>1. /\ queue' \in Seq(Envelope) /\ Len(queue') <= Buffer
        /\ delivered' \in Seq(Envelope)
    <3>1. queue # <<>> /\ queue \in Seq(Envelope)
      BY <1>11 DEF Take
    <3>2. /\ Head(queue) \in Envelope /\ Tail(queue) \in Seq(Envelope)
          /\ Len(Tail(queue)) = Len(queue) - 1
      BY <3>1, HeadTailType
    <3>3. queue' = Tail(queue) /\ delivered' = Append(delivered, Head(queue))
      BY <1>11 DEF Take
    <3>4. delivered' \in Seq(Envelope)
      BY <3>2, <3>3, AppendType
    <3>5. Len(queue') <= Buffer
      <4>1. Len(queue) \in Nat \ {0}
        BY <3>1, HeadTailType
      <4>. QED BY <3>2, <3>3, <4>1, BufferAssumption
    <3>. QED BY <3>2, <3>3, <3>4, <3>5
  <2>2. UNCHANGED <<bqVars, sendSequence, rx, pc, op, sequence, outcome>>
    BY <1>11 DEF Take
  <2>3. recvSequence' \in Nat /\ rxpc' = "received"
    BY <1>11 DEF Take
  <2>. QED BY <2>1, <2>2, <2>3 DEF BQTypeOK, bqVars
<1>12. ASSUME NEW r \in Receives, Panic(r)
       PROVE  TypeOK' /\ InCall'
  <2>1. queue' \in Seq(Envelope) /\ Len(queue') <= Buffer
    BY <1>12, BufferAssumption DEF Panic
  <2>2. rx' \in {"open", "closed", "dropped"} /\ recvSequence' \in Nat
    BY <1>12 DEF Panic
  <2>. QED BY <1>12, <2>1, <2>2 DEF Panic, BQTypeOK
<1>13. CASE OnMessageReceived
  <2>0. depth - 1 \in Int
    BY DEF BQTypeOK
  <2>1. (depth - 1) % Word \in 0..(Word - 1)
    BY <2>0, WordType
  <2>2. BQTypeOK'
    BY <1>13, <2>1 DEF OnMessageReceived, CountReceived, BQTypeOK
  <2>. QED BY <1>13, <2>2 DEF OnMessageReceived
<1>14. CASE NotifySender
  <2>1. wait \in [Senders -> WaitStates] /\ NotifyOne(wait)
    BY <1>14 DEF NotifySender, BQTypeOK
  <2>2. BQTypeOK'
    BY <1>14, <2>1, NotifyOneType DEF NotifySender, BQTypeOK
  <2>. QED BY <1>14, <2>2 DEF NotifySender
<1>15. CASE Close
  BY <1>15 DEF Close, BQTypeOK
<1>16. CASE DropReceiver
  BY <1>16, BufferAssumption DEF DropReceiver, BQTypeOK
<1>17. CASE UNCHANGED vars
  BY <1>17 DEF vars, BQTypeOK
<1>18. ASSUME NEW s \in Senders, DropSend(s)
       PROVE  TypeOK' /\ InCall'
  <2>1. BQTypeOK'
    BY <1>18, CancelWaitType DEF DropSend, BQTypeOK
  <2>. QED BY <1>18, <2>1, ReturnType DEF DropSend, Return
<1>19. ASSUME NEW s \in Senders, DropSender(s)
       PROVE  TypeOK' /\ InCall'
  BY <1>19 DEF DropSender, BQTypeOK
<1>20. CASE ReceiveEnd
  BY <1>20 DEF ReceiveEnd, BQTypeOK
<1>. QED
  BY <1>1, <1>2, <1>3, <1>4, <1>5, <1>6, <1>7, <1>8, <1>9, <1>10, <1>11, <1>12,
     <1>13, <1>14, <1>15, <1>16, <1>17, <1>18, <1>19, <1>20
  DEF Next, SenderStep, ReceiverStep

-----------------------------------------------------------------------------
(***************************************************************************)
(* Order                                                                   *)
(***************************************************************************)
LEMMA InOrderAppend ==
    ASSUME NEW log \in Seq(Envelope), NEW e \in Envelope, InOrder(log),
           \A i \in DOMAIN log : log[i].from = e.from => log[i].num < e.num
    PROVE  InOrder(Append(log, e))
<1>. DEFINE new == Append(log, e)
<1>1. /\ DOMAIN log = 1..Len(log) /\ Len(log) \in Nat
      /\ DOMAIN new = 1..(Len(log) + 1)
      /\ new[Len(log) + 1] = e
      /\ \A i \in 1..Len(log) : new[i] = log[i]
  OBVIOUS
<1>. HIDE DEF new
<1>2. ASSUME NEW i \in DOMAIN new, NEW j \in DOMAIN new, i < j,
             new[i].from = new[j].from
      PROVE  new[i].num < new[j].num
  <2>1. i \in DOMAIN log
    BY <1>1, <1>2
  <2>2. CASE j \in DOMAIN log
    BY <1>1, <1>2, <2>1, <2>2 DEF InOrder
  <2>3. CASE j = Len(log) + 1
    BY <1>1, <1>2, <2>1, <2>3
  <2>. QED BY <1>1, <2>2, <2>3
<1>. QED BY <1>2 DEF InOrder, new

LEMMA BeforeAppendRight ==
    ASSUME NEW log1 \in Seq(Envelope), NEW log2 \in Seq(Envelope), NEW e \in Envelope,
           Before(log1, log2),
           \A i \in DOMAIN log1 : log1[i].from = e.from => log1[i].num < e.num
    PROVE  Before(log1, Append(log2, e))
<1>. DEFINE new == Append(log2, e)
<1>1. /\ DOMAIN new = DOMAIN log2 \cup {Len(log2) + 1}
      /\ new[Len(log2) + 1] = e
      /\ \A i \in DOMAIN log2 : new[i] = log2[i]
  OBVIOUS
<1>. HIDE DEF new
<1>2. Before(log1, new)
  BY <1>1 DEF Before
<1>. QED BY <1>2 DEF new

\* The oldest queued message becomes the newest delivered one.
LEMMA MoveHead ==
    ASSUME NEW log1 \in Seq(Envelope), NEW log2 \in Seq(Envelope), log2 # <<>>,
           InOrder(log1), InOrder(log2), Before(log1, log2)
    PROVE  /\ InOrder(Append(log1, Head(log2))) /\ InOrder(Tail(log2))
           /\ Before(Append(log1, Head(log2)), Tail(log2))
<1>. DEFINE h == Head(log2)
            t == Tail(log2)
            new == Append(log1, h)
<1>1. /\ 1 \in DOMAIN log2 /\ h = log2[1] /\ h \in Envelope
      /\ \A i \in DOMAIN t : /\ i \in Nat \ {0} /\ i + 1 \in DOMAIN log2
                             /\ t[i] = log2[i + 1]
  BY HeadTailType, HeadTailElements
<1>2. /\ DOMAIN new = DOMAIN log1 \cup {Len(log1) + 1}
      /\ new[Len(log1) + 1] = h
      /\ \A i \in DOMAIN log1 : new[i] = log1[i]
  BY <1>1, AppendAll
<1>. HIDE DEF h, t, new
<1>3. InOrder(new)
  BY <1>1, InOrderAppend DEF Before, new
<1>4. InOrder(t)
  <2>1. ASSUME NEW i \in DOMAIN t, NEW j \in DOMAIN t, i < j, t[i].from = t[j].from
        PROVE  t[i].num < t[j].num
    <3>1. /\ i + 1 \in DOMAIN log2 /\ j + 1 \in DOMAIN log2 /\ i + 1 < j + 1
          /\ t[i] = log2[i + 1] /\ t[j] = log2[j + 1]
      BY <1>1, <2>1
    <3>. QED BY <2>1, <3>1 DEF InOrder
  <2>. QED BY <2>1 DEF InOrder
<1>5. ASSUME NEW i \in DOMAIN new, NEW j \in DOMAIN t, new[i].from = t[j].from
      PROVE  new[i].num < t[j].num
  <2>1. CASE i \in DOMAIN log1
    BY <1>1, <1>2, <1>5, <2>1 DEF Before
  <2>2. CASE i = Len(log1) + 1
    <3>1. /\ j + 1 \in DOMAIN log2 /\ 1 < j + 1
          /\ new[i] = log2[1] /\ t[j] = log2[j + 1]
      BY <1>1, <1>2, <2>2
    <3>. QED BY <1>1, <1>5, <3>1 DEF InOrder
  <2>. QED BY <1>2, <2>1, <2>2
<1>6. Before(new, t)
  BY <1>5 DEF Before
<1>. QED BY <1>3, <1>4, <1>6 DEF h, t, new

-----------------------------------------------------------------------------
(***************************************************************************)
(* Settled envelopes stay settled, whatever a task does next.              *)
(***************************************************************************)

\* A task moves on inside its call, and had not just pushed.
LEMMA SettledMove ==
    ASSUME TypeOK, NEW e \in Envelope, Settled(e), NEW s \in Senders,
           NEW p, pc' = [pc EXCEPT ![s] = p],
           pc[s] # "sent", UNCHANGED outcome
    PROVE  Settled(e)'
BY DEF TypeOK, Settled, Number

\* A task returns, with Ok if it had pushed.
LEMMA SettledReturn ==
    ASSUME TypeOK, NEW e \in Envelope, Settled(e), NEW s \in Senders,
           NEW r \in Outcomes, Return(s, r), pc[s] = "sent" => r = "ok"
    PROVE  Settled(e)'
<1>1. CASE e.from # s
  BY <1>1 DEF TypeOK, Settled, Number, Return
<1>2. CASE e.from = s
  <2>1. /\ outcome[s] \in Seq(Outcomes) /\ outcome'[s] = Append(outcome[s], r)
    BY DEF TypeOK, Return
  <2>2. /\ Len(outcome[s]) \in Nat /\ Len(outcome'[s]) = Len(outcome[s]) + 1
        /\ \A n \in 1..Len(outcome[s]) : outcome'[s][n] = outcome[s][n]
        /\ outcome'[s][Len(outcome[s]) + 1] = r
    BY <2>1
  <2>3. CASE e.num = Len(outcome[s]) + 1
    BY <1>2, <2>2, <2>3 DEF Settled, Number
  <2>4. CASE e.num \in 1..Len(outcome[s])
    BY <1>2, <2>2, <2>4 DEF Settled, Number
  <2>. QED BY <1>2, <2>2, <2>3, <2>4 DEF Settled, Number
<1>. QED BY <1>1, <1>2

\* Nothing about the settled envelopes can change.
LEMMA SettledSame ==
    ASSUME NEW e \in Envelope, Settled(e), UNCHANGED <<pc, outcome>>
    PROVE  Settled(e)'
BY DEF Settled, Number

\* A step that leaves both logs alone has only to keep what is settled.
LEMMA KeepLogs ==
    ASSUME TypeOK, OrderInv, UNCHANGED <<queue, delivered>>,
           \A e \in Envelope : Settled(e) => Settled(e)'
    PROVE  OrderInv'
<1>1. /\ \A i \in DOMAIN queue : queue[i] \in Envelope
      /\ \A i \in DOMAIN delivered : delivered[i] \in Envelope
  <2>1. queue \in Seq(Envelope) /\ delivered \in Seq(Envelope)
    BY DEF TypeOK
  <2>. QED BY <2>1, ElementType
<1>2. AllSettled(queue)' /\ AllSettled(delivered)'
  BY <1>1 DEF OrderInv, AllSettled, Settled, Number
<1>. QED BY <1>2 DEF OrderInv, InOrder, Before

\* A step that queues the envelope of a task which had pushed none before.
LEMMA QueueEnvelope ==
    ASSUME TypeOK, OrderInv, NEW s \in Senders, EnvelopeOf(s) \in Envelope,
           pc[s] # "sent", queue' = Append(queue, EnvelopeOf(s)),
           UNCHANGED delivered,
           \A e \in Envelope : Settled(e) => Settled(e)',
           \A e \in Envelope : e = EnvelopeOf(s) => Settled(e)'
    PROVE  OrderInv'
<1>. DEFINE new == EnvelopeOf(s)
<1>1. /\ queue \in Seq(Envelope) /\ delivered \in Seq(Envelope)
      /\ \A i \in DOMAIN queue : queue[i] \in Envelope
      /\ \A i \in DOMAIN delivered : delivered[i] \in Envelope
  <2>1. queue \in Seq(Envelope) /\ delivered \in Seq(Envelope)
    BY DEF TypeOK
  <2>. QED BY <2>1, ElementType
<1>2. \A e \in Envelope : Settled(e) /\ e.from = new.from => e.num < new.num
  BY DEF TypeOK, Settled, Number, EnvelopeOf
<1>3. InOrder(queue')
  BY <1>1, <1>2, InOrderAppend DEF OrderInv, AllSettled
<1>4. Before(delivered', queue')
  BY <1>1, <1>2, BeforeAppendRight DEF OrderInv, AllSettled
<1>5. AllSettled(delivered)'
  BY <1>1 DEF OrderInv, AllSettled, Settled, Number
<1>6. AllSettled(queue)'
  <2>1. ASSUME NEW i \in DOMAIN queue'
        PROVE  \/ i \in DOMAIN queue /\ queue'[i] = queue[i]
               \/ queue'[i] = new
    BY <1>1, <2>1, AppendElements
  <2>2. ASSUME NEW i \in DOMAIN queue'
        PROVE  /\ queue'[i] \in Envelope
               /\ Settled(queue'[i]) \/ queue'[i] = new
    BY <1>1, <2>1 DEF OrderInv, AllSettled
  <2>. QED BY <2>2 DEF AllSettled, Settled, Number
<1>. QED BY <1>3, <1>4, <1>5, <1>6 DEF OrderInv, InOrder

LEMMA NextOrder ==
    ASSUME IndInv, [Next]_vars
    PROVE  OrderInv'
<1>. USE DEF IndInv
<1>1. ASSUME NEW s \in Senders, NEW o \in Ops, Reject(s, o)
      PROVE  OrderInv'
  BY <1>1, SettledReturn, KeepLogs DEF Reject, MayCall
<1>2. ASSUME NEW s \in Senders, NEW o \in Ops, Call(s, o)
      PROVE  OrderInv'
  BY <1>2, SettledMove, KeepLogs DEF Call, MayCall
<1>3. ASSUME NEW s \in Senders, WaitStep(s)
      PROVE  OrderInv'
  BY <1>3, SettledSame, KeepLogs DEF WaitStep, chVars
<1>4. ASSUME NEW s \in Senders, Granted(s)
      PROVE  OrderInv'
  BY <1>4, SettledMove, KeepLogs DEF Granted
<1>5. ASSUME NEW s \in Senders, WaitTimeout(s)
      PROVE  OrderInv'
  BY <1>5, SettledReturn, KeepLogs DEF WaitTimeout
<1>6. ASSUME NEW s \in Senders, AssignSequence(s) \/ DropSender(s)
      PROVE  OrderInv'
  BY <1>6, SettledMove, KeepLogs DEF AssignSequence, DropSender
<1>7. ASSUME NEW s \in Senders, Push(s)
      PROVE  OrderInv'
  <2>1. EnvelopeOf(s) \in Envelope
    BY <1>7, OpsAssumption, EnvelopeType DEF Push, InCall
  <2>2. \A e \in Envelope : Settled(e) => Settled(e)'
    BY <1>7, SettledMove DEF Push
  <2>3. \A e \in Envelope : e = EnvelopeOf(s) => Settled(e)'
    BY <1>7 DEF Push, TypeOK, EnvelopeOf, Settled, Number
  <2>. QED BY <1>7, <2>1, <2>2, <2>3, QueueEnvelope DEF Push
<1>8. ASSUME NEW s \in Senders, PushClosed(s) \/ PushTimeout(s) \/ DropSend(s)
      PROVE  OrderInv'
  BY <1>8, SettledReturn, KeepLogs DEF PushClosed, PushTimeout, DropSend
<1>9. ASSUME NEW s \in Senders, TryPush(s)
      PROVE  OrderInv'
  <2>1. EnvelopeOf(s) \in Envelope
    BY <1>9, EnvelopeType DEF TryPush
  <2>2. \A e \in Envelope : Settled(e) => Settled(e)'
    BY <1>9, SettledReturn DEF TryPush
  <2>3. CASE Return(s, "ok") /\ queue' = Append(queue, EnvelopeOf(s))
    <3>1. \A e \in Envelope : e = EnvelopeOf(s) => Settled(e)'
      BY <2>3 DEF TypeOK, EnvelopeOf, Settled, Number, Return
    <3>. QED BY <1>9, <2>1, <2>2, <2>3, <3>1, QueueEnvelope DEF TryPush
  <2>4. CASE UNCHANGED queue
    BY <1>9, <2>2, <2>4, KeepLogs DEF TryPush
  <2>. QED BY <1>9, <2>3, <2>4 DEF TryPush
<1>10. ASSUME NEW s \in Senders, OnMessageSent(s)
       PROVE  OrderInv'
  BY <1>10, SettledReturn, KeepLogs DEF OnMessageSent
<1>11. ASSUME NEW r \in Receives, Take(r)
       PROVE  OrderInv'
  <2>1. /\ queue \in Seq(Envelope) /\ queue # <<>> /\ delivered \in Seq(Envelope)
        /\ queue' = Tail(queue) /\ delivered' = Append(delivered, Head(queue))
        /\ UNCHANGED <<pc, outcome>>
    BY <1>11 DEF Take, TypeOK
  <2>2. InOrder(delivered') /\ InOrder(queue') /\ Before(delivered', queue')
    BY <2>1, MoveHead DEF OrderInv
  <2>3. \A i \in DOMAIN queue' : Settled(queue'[i])
    BY <2>1, HeadTailElements DEF OrderInv, AllSettled
  <2>4. \A i \in DOMAIN delivered' : Settled(delivered'[i])
    BY <2>1, HeadTailElements DEF OrderInv, AllSettled
  <2>. QED BY <2>1, <2>2, <2>3, <2>4
           DEF OrderInv, AllSettled, Settled, Number, InOrder, Before
<1>12. ASSUME queue' = <<>>, UNCHANGED <<delivered, pc, outcome>>
       PROVE  OrderInv'
  BY <1>12 DEF OrderInv, AllSettled, Settled, Number, InOrder, Before
<1>13. ASSUME UNCHANGED <<queue, delivered, pc, outcome>>
       PROVE  OrderInv'
  BY <1>13, SettledSame, KeepLogs
<1>14. ASSUME NEW r \in Receives, Panic(r)
       PROVE  OrderInv'
  BY <1>12, <1>14 DEF Panic
<1>15. CASE OnMessageReceived \/ NotifySender \/ ReceiveEnd \/ Close
  BY <1>13, <1>15 DEF OnMessageReceived, NotifySender, ReceiveEnd, Close
<1>16. CASE DropReceiver
  BY <1>12, <1>16 DEF DropReceiver
<1>17. CASE UNCHANGED vars
  BY <1>13, <1>17 DEF vars, chVars
<1>. QED
  BY <1>1, <1>2, <1>3, <1>4, <1>5, <1>6, <1>7, <1>8, <1>9, <1>10, <1>11, <1>14,
     <1>15, <1>16, <1>17
  DEF Next, SenderStep, ReceiverStep

-----------------------------------------------------------------------------
(***************************************************************************)
(* The theorems                                                            *)
(***************************************************************************)
THEOREM Inductive == Spec => []IndInv
<1>1. Init => IndInv
  <2>1. ASSUME Init PROVE InCall
    BY <2>1 DEF Init, InCall
  <2>2. ASSUME Init PROVE OrderInv
    BY <2>2 DEF Init, OrderInv, AllSettled, InOrder, Before
  <2>. QED BY <2>1, <2>2, InitTypeOK DEF IndInv
<1>2. IndInv /\ [Next]_vars => IndInv'
  BY NextType, NextOrder DEF IndInv
<1>. QED BY <1>1, <1>2, PTL DEF Spec

\* Every variable keeps its type, and the queue its bound.
THEOREM TypeCorrect == Spec => []TypeOK
<1>1. IndInv => TypeOK
  BY DEF IndInv
<1>. QED BY <1>1, Inductive, PTL

\* Messages of one sender are delivered in the order of its calls, each at
\* most once, with any number of clones and any interleaving of their calls.
THEOREM SenderOrder == Spec => []PerSenderFifo
<1>1. IndInv => PerSenderFifo
  BY DEF IndInv, OrderInv, InOrder, PerSenderFifo
<1>. QED BY <1>1, Inductive, PTL

\* A call that returned an error never put its message into the channel.
THEOREM ErrorsAreFinal == Spec => []ErrorMeansNotSent
<1>1. ASSUME IndInv, NEW s \in Senders, NEW n \in DOMAIN outcome[s],
             NEW log \in {delivered, queue}, InLog(log, s, n)
      PROVE  outcome[s][n] = "ok"
  <2>1. PICK i \in DOMAIN log : log[i].from = s /\ log[i].num = n
    BY <1>1 DEF InLog
  <2>2. Settled(log[i])
    BY <1>1 DEF IndInv, OrderInv, AllSettled
  <2>3. n \in 1..Len(outcome[s]) /\ Len(outcome[s]) \in Nat
    <3>1. outcome[s] \in Seq(Outcomes)
      BY <1>1 DEF IndInv, TypeOK
    <3>. HIDE DEF Outcomes
    <3>. QED BY <1>1, <3>1
  <2>. QED BY <2>1, <2>2, <2>3 DEF Settled, Number
<1>2. IndInv => ErrorMeansNotSent
  BY <1>1 DEF ErrorMeansNotSent
<1>. QED BY <1>2, Inductive, PTL

-----------------------------------------------------------------------------
(***************************************************************************)
(* The backpressure count                                                  *)
(***************************************************************************)
LEMMA ModSplit ==
    ASSUME NEW a \in Int, NEW w \in Nat \ {0}
    PROVE  \E q \in Int : a = w * q + (a % w)
<1>. DEFINE q == a \div w
<1>1. q \in Int /\ a = w * q + (a % w)
  OBVIOUS
<1>. QED BY <1>1

LEMMA ModUnique ==
    ASSUME NEW w \in Nat \ {0}, NEW q \in Int, NEW r \in 0..(w - 1)
    PROVE  (w * q + r) % w = r
OBVIOUS

\* Counting one up or down modulo the word keeps the count a balance.
LEMMA ModStep ==
    ASSUME NEW a \in Int, NEW w \in Nat \ {0}, NEW d \in {1, -1}
    PROVE  ((a % w) + d) % w = (a + d) % w
<1>1. PICK q \in Int : a = w * q + (a % w)
  BY ModSplit
<1>. DEFINE r == a % w
<1>2. r \in 0..(w - 1)
  BY ModType
<1>. HIDE DEF r
<1>3. a = w * q + r
  BY <1>1 DEF r
<1>4. CASE r + d \in 0..(w - 1)
  <2>1. a + d = w * q + (r + d)
    BY <1>2, <1>3
  <2>2. (w * 0 + (r + d)) % w = r + d
    BY <1>4, ModUnique
  <2>3. (w * q + (r + d)) % w = r + d
    BY <1>4, ModUnique
  <2>. QED BY <1>2, <2>1, <2>2, <2>3 DEF r
<1>5. CASE r + d = w
  <2>1. a + d = w * (q + 1) + 0 /\ r + d = w * 1 + 0
    BY <1>2, <1>3, <1>5
  <2>2. (w * (q + 1) + 0) % w = 0 /\ (w * 1 + 0) % w = 0
    BY ModUnique
  <2>. QED BY <2>1, <2>2 DEF r
<1>6. CASE r + d = -1
  <2>1. a + d = w * (q - 1) + (w - 1) /\ r + d = w * (-1) + (w - 1)
    BY <1>2, <1>3, <1>6
  <2>2. (w * (q - 1) + (w - 1)) % w = w - 1 /\ (w * (-1) + (w - 1)) % w = w - 1
    BY ModUnique
  <2>. QED BY <2>1, <2>2 DEF r
<1>. QED BY <1>2, <1>4, <1>5, <1>6

\* Whatever is called, and however often the count wraps, it stays the balance
\* of the messages counted in and counted out.
THEOREM BalanceKept == Spec => []DepthIsBalance
<1>1. Init => DepthIsBalance
  BY WordType, ModUnique, CapacityAssumption, WordAssumption
  DEF Init, BQInit, DepthIsBalance
<1>2. IndInv /\ DepthIsBalance /\ [Next]_vars => DepthIsBalance'
  <2>. SUFFICES ASSUME IndInv, DepthIsBalance, [Next]_vars
                PROVE  DepthIsBalance'
    OBVIOUS
  <2>1. /\ messagesSent \in Nat /\ messagesReceived \in Nat
        /\ Word \in Nat \ {0}
    BY CapacityAssumption, WordAssumption DEF IndInv, TypeOK, BQTypeOK
  <2>2. CASE UNCHANGED <<depth, messagesSent, messagesReceived>>
    BY <2>2 DEF DepthIsBalance
  <2>0. CASE ~Bounded
    BY <2>0 DEF DepthIsBalance, Bounded
  <2>. SUFFICES ASSUME Bounded PROVE DepthIsBalance'
    BY <2>0
  <2>3. CASE CountSent
    <3>. DEFINE a == messagesSent - messagesReceived
    <3>0. a \in Int
      BY <2>1
    <3>. HIDE DEF a
    <3>1. ((a % Word) + 1) % Word = (a + 1) % Word
      BY <2>1, <3>0, ModStep
    <3>2. a + 1 = messagesSent' - messagesReceived' /\ depth' = ((a % Word) + 1) % Word
      BY <2>1, <2>3 DEF CountSent, DepthIsBalance, a
    <3>. QED BY <3>1, <3>2 DEF DepthIsBalance
  <2>4. CASE CountReceived
    <3>. DEFINE a == messagesSent - messagesReceived
    <3>0. a \in Int
      BY <2>1
    <3>. HIDE DEF a
    <3>1. ((a % Word) + (-1)) % Word = (a + (-1)) % Word
      BY <2>1, <3>0, ModStep
    <3>2. (a % Word) \in Int
      BY <2>1, <3>0, ModType
    <3>3. /\ a + (-1) = messagesSent' - messagesReceived'
          /\ depth' = ((a % Word) + (-1)) % Word
      BY <2>1, <2>4, <3>2 DEF CountReceived, DepthIsBalance, a
    <3>. QED BY <3>1, <3>3 DEF DepthIsBalance
  <2>5. CASE UNCHANGED bqVars
    BY <2>2, <2>5 DEF bqVars
  <2>6. ASSUME NEW s \in Senders, WaitStep(s) \/ WaitTimeout(s) \/ DropSend(s)
        PROVE  DepthIsBalance'
    BY <2>2, <2>5, <2>6
    DEF WaitStep, WaitTimeout, DropSend, CheckCapacity, PollNotified, Wake, CancelWait
  <2>. QED
    BY <2>2, <2>3, <2>4, <2>5, <2>6
    DEF Next, SenderStep, ReceiverStep, vars, Reject, Call, Granted, AssignSequence,
        Push, PushClosed, PushTimeout, TryPush, OnMessageSent, DropSender, Take, Panic,
        OnMessageReceived, NotifySender, ReceiveEnd, Close, DropReceiver
<1>. QED BY <1>1, <1>2, Inductive, PTL DEF Spec

-----------------------------------------------------------------------------
(***************************************************************************)
(* What was accepted is kept, and the end comes after all of it            *)
(***************************************************************************)
LEMMA KeptAppend ==
    ASSUME NEW log \in Seq(Envelope), NEW e \in Envelope, NEW s, NEW n
    PROVE  /\ InLog(log, s, n) => InLog(Append(log, e), s, n)
           /\ e.from = s /\ e.num = n => InLog(Append(log, e), s, n)
<1>1. /\ \A i \in DOMAIN log : i \in DOMAIN Append(log, e) /\ Append(log, e)[i] = log[i]
      /\ Len(log) + 1 \in DOMAIN Append(log, e) /\ Append(log, e)[Len(log) + 1] = e
  OBVIOUS
<1>2. ASSUME InLog(log, s, n) PROVE InLog(Append(log, e), s, n)
  <2>1. PICK i \in DOMAIN log : log[i].from = s /\ log[i].num = n
    BY <1>2 DEF InLog
  <2>. QED BY <1>1, <2>1 DEF InLog
<1>3. ASSUME e.from = s, e.num = n PROVE InLog(Append(log, e), s, n)
  BY <1>1, <1>3 DEF InLog
<1>. QED BY <1>2, <1>3

LEMMA KeptMove ==
    ASSUME NEW log1 \in Seq(Envelope), NEW log2 \in Seq(Envelope), log2 # <<>>,
           NEW s, NEW n, InLog(log2, s, n)
    PROVE  InLog(Append(log1, Head(log2)), s, n) \/ InLog(Tail(log2), s, n)
<1>1. PICK i \in DOMAIN log2 : log2[i].from = s /\ log2[i].num = n
  BY DEF InLog
<1>2. Head(log2) \in Envelope /\ Head(log2) = log2[1]
  BY HeadTailType, HeadTailElements
<1>3. CASE i = 1
  BY <1>1, <1>2, <1>3, KeptAppend
<1>4. CASE i # 1
  <2>1. i - 1 \in DOMAIN Tail(log2) /\ Tail(log2)[i - 1] = log2[i]
    BY <1>4
  <2>. QED BY <1>1, <2>1 DEF InLog
<1>. QED BY <1>3, <1>4

LEMMA KeptAt ==
    ASSUME KeptInv, NEW s \in Senders, NEW n, Accepted(s, n)
    PROVE  /\ rx # "dropped" => InLog(delivered, s, n) \/ InLog(queue, s, n)
           /\ rxpc = "ended" => InLog(delivered, s, n)
<1>1. n \in DOMAIN outcome[s] \cup {Number(s)}
  BY DEF Accepted
<1>. QED BY <1>1 DEF KeptInv

\* A step that accepts nothing new and changes neither log.
LEMMA KeptStays ==
    ASSUME KeptInv, UNCHANGED <<queue, delivered>>,
           rx' # "dropped" => rx # "dropped", rxpc' = "ended" => rxpc = "ended",
           \A s \in Senders : \A n : Accepted(s, n)' => Accepted(s, n)
    PROVE  KeptInv'
BY KeptAt DEF KeptInv, InLog

\* A task that returns has had its message accepted before, or has not.
LEMMA ReturnAccepts ==
    ASSUME TypeOK, NEW s \in Senders, NEW r \in Outcomes, Return(s, r),
           NEW q \in Senders, NEW n, Accepted(q, n)'
    PROVE  Accepted(q, n) \/ (q = s /\ n = Number(s) /\ r = "ok")
<1>1. CASE q # s
  BY <1>1 DEF TypeOK, Return, Accepted, Number
<1>2. CASE q = s
  <2>1. outcome[s] \in Seq(Outcomes) /\ outcome'[s] = Append(outcome[s], r) /\ pc'[s] = "idle"
    BY DEF TypeOK, Return
  <2>2. n \in DOMAIN outcome'[s] /\ outcome'[s][n] = "ok"
    BY <1>2, <2>1 DEF Accepted
  <2>3. \/ n \in DOMAIN outcome[s] /\ outcome'[s][n] = outcome[s][n]
        \/ n = Len(outcome[s]) + 1 /\ outcome'[s][n] = r
    <3>. HIDE DEF Outcomes
    <3>. QED BY <2>1, <2>2
  <2>. QED BY <1>2, <2>2, <2>3 DEF Accepted, Number
<1>. QED BY <1>1, <1>2

\* A task that moves on inside its call without a push.
LEMMA MoveAccepts ==
    ASSUME TypeOK, NEW s \in Senders, NEW p, p # "sent", pc' = [pc EXCEPT ![s] = p],
           UNCHANGED outcome, NEW q \in Senders, NEW n, Accepted(q, n)'
    PROVE  Accepted(q, n)
BY DEF TypeOK, Accepted, Number

\* A step that queues the envelope of s.
LEMMA KeptQueued ==
    ASSUME TypeOK, KeptInv, EndInv, NEW s \in Senders, pc[s] = "push", rx = "open",
           EnvelopeOf(s) \in Envelope, queue' = Append(queue, EnvelopeOf(s)),
           UNCHANGED <<delivered, rx, rxpc>>,
           \A q \in Senders : \A n :
               Accepted(q, n)' => Accepted(q, n) \/ (q = s /\ n = Number(s))
    PROVE  KeptInv'
<1>1. rxpc # "ended"
  BY DEF EndInv
<1>2. queue \in Seq(Envelope)
  BY DEF TypeOK
<1>3. ASSUME NEW q \in Senders, NEW n, Accepted(q, n)'
      PROVE  InLog(delivered, q, n) \/ InLog(queue', q, n)
  <2>1. CASE Accepted(q, n)
    <3>1. InLog(delivered, q, n) \/ InLog(queue, q, n)
      BY <2>1, KeptAt
    <3>. QED BY <1>2, <3>1, KeptAppend
  <2>2. CASE q = s /\ n = Number(s)
    <3>1. EnvelopeOf(s).from = s /\ EnvelopeOf(s).num = Number(s)
      BY DEF EnvelopeOf
    <3>. QED BY <1>2, <2>2, <3>1, KeptAppend
  <2>. QED BY <1>3, <2>1, <2>2
<1>. QED BY <1>1, <1>3 DEF KeptInv, InLog

LEMMA NextKept ==
    ASSUME IndInv, KeptInv, EndInv, [Next]_vars
    PROVE  KeptInv'
<1>. USE DEF IndInv
<1>1. ASSUME UNCHANGED <<queue, delivered, rx, rxpc>>, NEW s \in Senders,
             \E r \in Outcomes : Return(s, r) /\ (r = "ok" => pc[s] = "sent")
      PROVE  KeptInv'
  <2>1. PICK r \in Outcomes : Return(s, r) /\ (r = "ok" => pc[s] = "sent")
    BY <1>1
  <2>2. ASSUME NEW q \in Senders, NEW n, Accepted(q, n)' PROVE Accepted(q, n)
    <3>1. Accepted(q, n) \/ (q = s /\ n = Number(s) /\ r = "ok")
      BY <2>1, <2>2, ReturnAccepts
    <3>. QED BY <2>1, <3>1 DEF Accepted
  <2>. QED BY <1>1, <2>2, KeptStays
<1>2. ASSUME UNCHANGED <<queue, delivered, rx, rxpc, outcome>>, NEW s \in Senders,
             \E p \in Stages \ {"sent"} : pc' = [pc EXCEPT ![s] = p]
      PROVE  KeptInv'
  <2>1. PICK p \in Stages \ {"sent"} : pc' = [pc EXCEPT ![s] = p]
    BY <1>2
  <2>2. ASSUME NEW q \in Senders, NEW n, Accepted(q, n)' PROVE Accepted(q, n)
    BY <1>2, <2>1, <2>2, MoveAccepts
  <2>. QED BY <1>2, <2>2, KeptStays
<1>3. ASSUME UNCHANGED <<queue, delivered, pc, outcome>>,
             rx' # "dropped" => rx # "dropped", rxpc' = "ended" => rxpc = "ended"
      PROVE  KeptInv'
  <2>1. ASSUME NEW q \in Senders, NEW n, Accepted(q, n)' PROVE Accepted(q, n)
    BY <1>3, <2>1 DEF Accepted, Number
  <2>. QED BY <1>3, <2>1, KeptStays
<1>4. ASSUME NEW s \in Senders, NEW o \in Ops, Reject(s, o) PROVE KeptInv'
  BY <1>1, <1>4 DEF Reject
<1>5. ASSUME NEW s \in Senders, NEW o \in Ops, Call(s, o) PROVE KeptInv'
  <2>1. \E p \in Stages \ {"sent"} : pc' = [pc EXCEPT ![s] = p]
    BY <1>5 DEF Call
  <2>. QED BY <1>2, <1>5, <2>1 DEF Call
<1>6. ASSUME NEW s \in Senders, WaitStep(s) PROVE KeptInv'
  BY <1>3, <1>6 DEF WaitStep, chVars
<1>7. ASSUME NEW s \in Senders, Granted(s) \/ AssignSequence(s) \/ DropSender(s)
      PROVE  KeptInv'
  <2>1. \E p \in Stages \ {"sent"} : pc' = [pc EXCEPT ![s] = p]
    BY <1>7 DEF Granted, AssignSequence, DropSender
  <2>. QED BY <1>2, <1>7, <2>1 DEF Granted, AssignSequence, DropSender
<1>8. ASSUME NEW s \in Senders,
             WaitTimeout(s) \/ PushClosed(s) \/ PushTimeout(s) \/ OnMessageSent(s) \/ DropSend(s)
      PROVE  KeptInv'
  <2>1. \E r \in Outcomes : Return(s, r) /\ (r = "ok" => pc[s] = "sent")
    BY <1>8 DEF WaitTimeout, PushClosed, PushTimeout, OnMessageSent, DropSend
  <2>. QED BY <1>1, <1>8, <2>1
           DEF WaitTimeout, PushClosed, PushTimeout, OnMessageSent, DropSend
<1>9. ASSUME NEW s \in Senders, Push(s) PROVE KeptInv'
  <2>1. EnvelopeOf(s) \in Envelope
    BY <1>9, OpsAssumption, EnvelopeType DEF Push, InCall
  <2>2. ASSUME NEW q \in Senders, NEW n, Accepted(q, n)'
        PROVE  Accepted(q, n) \/ (q = s /\ n = Number(s))
    BY <1>9, <2>2 DEF Push, TypeOK, Accepted, Number
  <2>. QED BY <1>9, <2>1, <2>2, KeptQueued DEF Push
<1>10. ASSUME NEW s \in Senders, TryPush(s) PROVE KeptInv'
  <2>1. EnvelopeOf(s) \in Envelope
    BY <1>10, EnvelopeType DEF TryPush
  <2>2. CASE Return(s, "ok") /\ queue' = Append(queue, EnvelopeOf(s))
    <3>1. ASSUME NEW q \in Senders, NEW n, Accepted(q, n)'
          PROVE  Accepted(q, n) \/ (q = s /\ n = Number(s))
      BY <2>2, <3>1, ReturnAccepts
    <3>. QED BY <1>10, <2>1, <2>2, <3>1, KeptQueued DEF TryPush
  <2>3. CASE Return(s, "full") /\ UNCHANGED queue
    BY <1>1, <1>10, <2>3 DEF TryPush
  <2>. QED BY <1>10, <2>2, <2>3 DEF TryPush
<1>11. ASSUME NEW r \in Receives, Take(r) PROVE KeptInv'
  <2>1. /\ queue \in Seq(Envelope) /\ queue # <<>> /\ delivered \in Seq(Envelope)
        /\ queue' = Tail(queue) /\ delivered' = Append(delivered, Head(queue))
        /\ rxpc' # "ended" /\ UNCHANGED <<rx, pc, outcome>> /\ Head(queue) \in Envelope
    BY <1>11, HeadTailType DEF Take, TypeOK
  <2>2. ASSUME NEW q \in Senders, NEW n, Accepted(q, n)', rx' # "dropped"
        PROVE  InLog(delivered', q, n) \/ InLog(queue', q, n)
    <3>1. Accepted(q, n)
      BY <2>1, <2>2 DEF Accepted, Number
    <3>2. InLog(delivered, q, n) \/ InLog(queue, q, n)
      BY <2>1, <2>2, <3>1, KeptAt
    <3>. QED BY <2>1, <3>2, KeptAppend, KeptMove
  <2>. QED BY <2>1, <2>2 DEF KeptInv, InLog
<1>12. ASSUME UNCHANGED <<delivered, pc, outcome>>, rx' = "dropped",
              rxpc' = "ended" => rxpc = "ended"
       PROVE  KeptInv'
  <2>1. ASSUME NEW q \in Senders, NEW n, Accepted(q, n)' PROVE Accepted(q, n)
    BY <1>12, <2>1 DEF Accepted, Number
  <2>. QED BY <1>12, <2>1, KeptAt DEF KeptInv, InLog
<1>13. ASSUME NEW r \in Receives, Panic(r) PROVE KeptInv'
  BY <1>12, <1>13 DEF Panic
<1>14. CASE DropReceiver
  BY <1>12, <1>14 DEF DropReceiver
<1>15. CASE OnMessageReceived \/ NotifySender \/ Close
  BY <1>3, <1>15 DEF OnMessageReceived, NotifySender, Close
<1>16. CASE ReceiveEnd
  <2>1. rx # "dropped" /\ queue = <<>> /\ UNCHANGED <<queue, delivered, rx, pc, outcome>>
    BY <1>16 DEF ReceiveEnd
  <2>2. ASSUME NEW q \in Senders, NEW n, Accepted(q, n)'
        PROVE  InLog(delivered, q, n)
    <3>1. Accepted(q, n)
      BY <2>1, <2>2 DEF Accepted, Number
    <3>2. ~InLog(queue, q, n)
      BY <2>1 DEF InLog
    <3>. QED BY <2>1, <3>1, <3>2, KeptAt
  <2>. QED BY <2>1, <2>2 DEF KeptInv, InLog
<1>17. CASE UNCHANGED vars
  BY <1>3, <1>17 DEF vars, chVars
<1>. QED
  BY <1>4, <1>5, <1>6, <1>7, <1>8, <1>9, <1>10, <1>11, <1>13, <1>14, <1>15, <1>16, <1>17
  DEF Next, SenderStep, ReceiverStep

LEMMA NextEnd ==
    ASSUME IndInv, EndInv, [Next]_vars
    PROVE  EndInv'
<1>. USE DEF IndInv
<1>1. ASSUME NEW s \in Senders, SenderStep(s) PROVE EndInv'
  <2>1. CASE rx # "open"
    <3>1. UNCHANGED <<rx, rxpc, queue>>
      BY <1>1, <2>1 DEF SenderStep, Reject, Call, WaitStep, Granted, WaitTimeout,
         AssignSequence, Push, PushClosed, PushTimeout, TryPush, OnMessageSent, DropSend,
         DropSender, chVars
    <3>. QED BY <2>1, <3>1 DEF EndInv
  <2>2. CASE rxpc # "ended"
    <3>1. UNCHANGED rxpc
      BY <1>1 DEF SenderStep, Reject, Call, WaitStep, Granted, WaitTimeout,
         AssignSequence, Push, PushClosed, PushTimeout, TryPush, OnMessageSent, DropSend,
         DropSender, chVars
    <3>. QED BY <2>2, <3>1 DEF EndInv
  <2>3. CASE pc[s] = "gone"
    <3>1. op[s] \notin Droppable \/ pc[s] \notin {"wait", "push"}
      BY <2>3
    <3>. QED BY <1>1, <2>3 DEF SenderStep, Reject, Call, MayCall, WaitStep, Granted, WaitTimeout,
         AssignSequence, Push, PushClosed, PushTimeout, TryPush, OnMessageSent, DropSend,
         DropSender
  <2>. QED BY <2>1, <2>2, <2>3 DEF EndInv
<1>2. ASSUME ReceiverStep \/ Close \/ DropReceiver \/ UNCHANGED vars PROVE EndInv'
  <2>1. CASE ReceiveEnd
    BY <2>1 DEF ReceiveEnd, EndInv
  <2>2. CASE Close \/ DropReceiver
    BY <2>2 DEF Close, DropReceiver, EndInv
  <2>3. ASSUME NEW r \in Receives, Take(r) \/ Panic(r) PROVE EndInv'
    BY <2>3 DEF Take, Panic, EndInv
  <2>4. CASE OnMessageReceived \/ NotifySender
    BY <2>4 DEF OnMessageReceived, NotifySender, EndInv
  <2>5. CASE UNCHANGED vars
    BY <2>5 DEF vars, chVars, EndInv
  <2>. QED BY <1>2, <2>1, <2>2, <2>3, <2>4, <2>5 DEF ReceiverStep
<1>. QED BY <1>1, <1>2 DEF Next

\* What the channel has accepted is delivered, or queued while there is a receiver; a
\* receiver that has been told the end has had all of it.
THEOREM AcceptedIsKept == Spec => [](KeptInv /\ EndInv)
<1>1. Init => KeptInv /\ EndInv
  BY DEF Init, KeptInv, EndInv, Accepted
<1>. QED BY <1>1, NextKept, NextEnd, Inductive, PTL DEF Spec

\* A method that returned Ok has its message delivered or queued for as long as there is
\* a receiver (channel.rs send and its siblings).
THEOREM OkKept == Spec => []OkMeansKept
<1>1. KeptInv => OkMeansKept
  BY KeptAt DEF OkMeansKept, Accepted
<1>. QED BY <1>1, AcceptedIsKept, PTL

\* Whoever was told the end of the stream has had every message that was accepted
\* (channel.rs recv and close).
THEOREM EndComplete == Spec => []EndIsComplete
<1>1. KeptInv => EndIsComplete
  BY KeptAt DEF EndIsComplete, Accepted
<1>. QED BY <1>1, AcceptedIsKept, PTL

-----------------------------------------------------------------------------
(***************************************************************************)
(* Who is registered with Notify                                           *)
(***************************************************************************)
LEMMA InjectiveAppend ==
    ASSUME NEW S, NEW q \in Seq(S), IsInjective(q), NEW e \in S, e \notin ToSet(q)
    PROVE  /\ ToSet(Append(q, e)) = ToSet(q) \cup {e}
           /\ IsInjective(Append(q, e))
<1>1. /\ Len(q) \in Nat /\ DOMAIN q = 1..Len(q)
      /\ DOMAIN Append(q, e) = 1..(Len(q) + 1)
      /\ Append(q, e)[Len(q) + 1] = e
      /\ \A i \in 1..Len(q) : Append(q, e)[i] = q[i]
  BY AppendAll
<1>2. \A i \in DOMAIN q : q[i] # e
  BY DEF ToSet
<1>3. ToSet(Append(q, e)) = ToSet(q) \cup {e}
  BY <1>1 DEF ToSet
<1>4. IsInjective(Append(q, e))
  BY <1>1, <1>2 DEF IsInjective
<1>. QED BY <1>3, <1>4

LEMMA RemoveAtElements ==
    ASSUME NEW S, NEW q \in Seq(S), NEW k \in DOMAIN q
    PROVE  /\ Len(q) \in Nat /\ DOMAIN q = 1..Len(q) /\ k \in 1..Len(q)
           /\ DOMAIN RemoveAt(q, k) = 1..(Len(q) - 1)
           /\ \A i \in 1..(Len(q) - 1) : RemoveAt(q, k)[i] = IF i < k THEN q[i] ELSE q[i + 1]
<1>. DEFINE a == SubSeq(q, 1, k - 1)
            b == SubSeq(q, k + 1, Len(q))
<1>1. Len(q) \in Nat /\ DOMAIN q = 1..Len(q) /\ k \in 1..Len(q)
  OBVIOUS
<1>2. a \in Seq(S) /\ Len(a) = k - 1 /\ \A i \in 1..(k - 1) : a[i] = q[i]
  BY <1>1
<1>3. b \in Seq(S) /\ Len(b) = Len(q) - k /\ \A i \in 1..(Len(q) - k) : b[i] = q[i + k]
  BY <1>1
<1>4. RemoveAt(q, k) = a \o b
  BY DEF RemoveAt
<1>. HIDE DEF a, b
<1>5. /\ DOMAIN (a \o b) = 1..(Len(a) + Len(b))
      /\ \A i \in 1..(Len(a) + Len(b)) : (a \o b)[i] = IF i <= Len(a) THEN a[i] ELSE b[i - Len(a)]
  BY <1>2, <1>3
<1>6. Len(a) + Len(b) = Len(q) - 1
  BY <1>1, <1>2, <1>3
<1>7. ASSUME NEW i \in 1..(Len(q) - 1)
      PROVE  RemoveAt(q, k)[i] = IF i < k THEN q[i] ELSE q[i + 1]
  <2>1. CASE i < k
    BY <1>1, <1>2, <1>4, <1>5, <1>6, <2>1
  <2>2. CASE ~(i < k)
    <3>1. (a \o b)[i] = b[i - Len(a)]
      BY <1>1, <1>2, <1>5, <1>6, <2>2
    <3>2. i - Len(a) \in 1..(Len(q) - k) /\ (i - Len(a)) + k = i + 1
      BY <1>1, <1>2, <2>2
    <3>. QED BY <1>3, <1>4, <2>2, <3>1, <3>2
  <2>. QED BY <2>1, <2>2
<1>. QED BY <1>1, <1>4, <1>5, <1>6, <1>7

LEMMA InjectiveRemove ==
    ASSUME NEW S, NEW q \in Seq(S), IsInjective(q), NEW k \in DOMAIN q
    PROVE  /\ ToSet(RemoveAt(q, k)) = ToSet(q) \ {q[k]}
           /\ IsInjective(RemoveAt(q, k))
<1>. DEFINE r == RemoveAt(q, k)
<1>1. /\ Len(q) \in Nat /\ DOMAIN q = 1..Len(q) /\ k \in 1..Len(q)
      /\ DOMAIN r = 1..(Len(q) - 1)
      /\ \A i \in 1..(Len(q) - 1) : r[i] = IF i < k THEN q[i] ELSE q[i + 1]
  BY RemoveAtElements
<1>2. \A i, j \in DOMAIN q : q[i] = q[j] => i = j
  BY DEF IsInjective
<1>. HIDE DEF r
<1>3. IsInjective(r)
  <2>1. ASSUME NEW i \in DOMAIN r, NEW j \in DOMAIN r, r[i] = r[j], i < j PROVE FALSE
    <3>1. /\ i \in 1..(Len(q) - 1) /\ j \in 1..(Len(q) - 1)
          /\ i \in DOMAIN q /\ j \in DOMAIN q /\ i + 1 \in DOMAIN q /\ j + 1 \in DOMAIN q
      BY <1>1
    <3>2. PICK a \in {i, i + 1} : r[i] = q[a] /\ (a = i <=> i < k)
      BY <1>1, <3>1
    <3>3. PICK b \in {j, j + 1} : r[j] = q[b] /\ (b = j <=> j < k)
      BY <1>1, <3>1
    <3>4. a = b
      BY <1>2, <2>1, <3>1, <3>2, <3>3
    <3>. QED BY <1>1, <2>1, <3>1, <3>2, <3>3, <3>4
  <2>2. \A i, j \in DOMAIN r : i < j \/ j < i \/ i = j
    BY <1>1
  <2>. QED BY <2>1, <2>2 DEF IsInjective
<1>4. ASSUME NEW i \in DOMAIN r PROVE r[i] \in ToSet(q) \ {q[k]}
  <2>1. CASE i < k
    BY <1>1, <1>2, <2>1 DEF ToSet
  <2>2. CASE ~(i < k)
    <3>1. i + 1 \in DOMAIN q /\ i + 1 # k /\ r[i] = q[i + 1]
      BY <1>1, <2>2
    <3>. QED BY <1>2, <3>1 DEF ToSet
  <2>. QED BY <2>1, <2>2
<1>5. ASSUME NEW j \in DOMAIN q, j # k PROVE q[j] \in ToSet(r)
  <2>1. CASE j < k
    BY <1>1, <2>1 DEF ToSet
  <2>2. CASE ~(j < k)
    <3>1. j - 1 \in DOMAIN r /\ r[j - 1] = q[j]
      BY <1>1, <1>5, <2>2
    <3>. QED BY <3>1 DEF ToSet
  <2>. QED BY <2>1, <2>2
<1>6. ToSet(r) = ToSet(q) \ {q[k]}
  <2>1. ToSet(r) \subseteq ToSet(q) \ {q[k]}
    BY <1>4 DEF ToSet
  <2>2. ToSet(q) \ {q[k]} \subseteq ToSet(r)
    BY <1>5 DEF ToSet
  <2>. QED BY <2>1, <2>2
<1>. QED BY <1>3, <1>6 DEF r

LEMMA InjectiveTail ==
    ASSUME NEW S, NEW q \in Seq(S), IsInjective(q), q # <<>>
    PROVE  /\ ToSet(Tail(q)) = ToSet(q) \ {Head(q)}
           /\ IsInjective(Tail(q)) /\ Head(q) \in ToSet(q)
<1>1. 1 \in DOMAIN q /\ Head(q) = q[1] /\ Tail(q) = RemoveAt(q, 1)
  <2>1. Len(q) \in Nat \ {0} /\ Head(q) = q[1]
    OBVIOUS
  <2>2. Tail(q) = RemoveAt(q, 1)
    <3>1. SubSeq(q, 1, 0) = <<>> /\ SubSeq(q, 2, Len(q)) = Tail(q)
      BY <2>1
    <3>. QED BY <2>1, <3>1 DEF RemoveAt
  <2>. QED BY <2>1, <2>2
<1>2. ToSet(RemoveAt(q, 1)) = ToSet(q) \ {q[1]} /\ IsInjective(RemoveAt(q, 1))
  BY <1>1, InjectiveRemove
<1>3. Head(q) \in ToSet(q)
  BY <1>1 DEF ToSet
<1>. QED BY <1>1, <1>2, <1>3

\* A step that leaves the Notify alone and parks nobody.
LEMMA SameWaiters ==
    ASSUME NotifyConsistent, UNCHANGED <<permit, waiters>>,
           \A s \in Senders : wait'[s] = "parked" <=> wait[s] = "parked"
    PROVE  NotifyConsistent'
BY DEF NotifyConsistent

\* notify_one, started from waits w of which the parked ones are registered.
LEMMA NotifyWaits ==
    ASSUME waiters \in Seq(Senders), NEW w \in [Senders -> WaitStates], NotifyOne(w),
           ToSet(waiters) = {s \in Senders : w[s] = "parked"}, IsInjective(waiters),
           permit => waiters = <<>>
    PROVE  /\ NotifyConsistent'
           /\ \A s \in Senders : wait'[s] = w[s] \/ w[s] = "parked"
<1>1. CASE waiters = <<>> /\ wait' = w /\ UNCHANGED waiters
  BY <1>1 DEF NotifyConsistent
<1>2. CASE /\ waiters # <<>> /\ waiters' = Tail(waiters) /\ UNCHANGED permit
           /\ wait' = [w EXCEPT ![Head(waiters)] = "woken"]
  <2>1. /\ ToSet(waiters') = ToSet(waiters) \ {Head(waiters)}
        /\ IsInjective(waiters') /\ Head(waiters) \in ToSet(waiters)
    BY <1>2, InjectiveTail
  <2>2. Head(waiters) \in Senders /\ w[Head(waiters)] = "parked"
    BY <2>1
  <2>3. ToSet(waiters') = {s \in Senders : wait'[s] = "parked"}
    BY <1>2, <2>1, <2>2
  <2>4. permit' => waiters' = <<>>
    BY <1>2
  <2>. QED BY <1>2, <2>1, <2>2, <2>3, <2>4 DEF NotifyConsistent
<1>. QED BY <1>1, <1>2 DEF NotifyOne

LEMMA CancelWaits ==
    ASSUME TypeOK, WaitInv, NEW s \in Senders, CancelWait(s)
    PROVE  /\ NotifyConsistent'
           /\ wait'[s] = "none"
           /\ \A q \in Senders : wait'[q] = "none" \/ wait[q] # "none"
<1>1. /\ waiters \in Seq(Senders) /\ wait \in [Senders -> WaitStates]
      /\ IsInjective(waiters) /\ ToSet(waiters) = {q \in Senders : wait[q] = "parked"}
  BY DEF TypeOK, BQTypeOK, WaitInv, NotifyConsistent
<1>2. permit => waiters = <<>>
  BY DEF WaitInv, NotifyConsistent
<1>3. ASSUME NEW k \in DOMAIN waiters, waiters[k] = s, waiters' = RemoveAt(waiters, k),
             wait' = [wait EXCEPT ![s] = "none"], UNCHANGED permit
      PROVE  NotifyConsistent'
  <2>1. ToSet(waiters') = ToSet(waiters) \ {s} /\ IsInjective(waiters')
    BY <1>1, <1>3, InjectiveRemove
  <2>2. ToSet(waiters') = {q \in Senders : wait'[q] = "parked"}
    BY <1>1, <1>3, <2>1
  <2>3. waiters # <<>>
    BY <1>1, <1>3
  <2>. QED BY <1>2, <1>3, <2>1, <2>2, <2>3 DEF NotifyConsistent
<1>4. ASSUME wait[s] = "woken", NotifyOne([wait EXCEPT ![s] = "none"])
      PROVE  /\ NotifyConsistent'
             /\ wait'[s] = "none"
             /\ \A q \in Senders : wait'[q] = "none" \/ wait[q] # "none"
  <2>. DEFINE w == [wait EXCEPT ![s] = "none"]
  <2>1. /\ w \in [Senders -> WaitStates] /\ w[s] = "none"
        /\ \A q \in Senders : q # s => w[q] = wait[q]
    BY <1>1
  <2>2. \A q \in Senders : w[q] = "parked" <=> wait[q] = "parked"
    BY <1>4, <2>1
  <2>3. NotifyOne(w)
    BY <1>4
  <2>. HIDE DEF w
  <2>4. ToSet(waiters) = {q \in Senders : w[q] = "parked"}
    BY <1>1, <2>2
  <2>5. /\ NotifyConsistent'
        /\ \A q \in Senders : wait'[q] = w[q] \/ w[q] = "parked"
    BY <1>1, <1>2, <2>1, <2>3, <2>4, NotifyWaits
  <2>. QED BY <2>1, <2>5
<1>5. CASE wait[s] = "parked"
  BY <1>1, <1>3, <1>5 DEF CancelWait
<1>. QED BY <1>4, <1>5 DEF CancelWait

LEMMA NextWaits ==
    ASSUME IndInv, WaitInv, [Next]_vars
    PROVE  WaitInv'
<1>. USE DEF IndInv
<1>0. /\ waiters \in Seq(Senders) /\ wait \in [Senders -> WaitStates]
      /\ pc \in [Senders -> Stages]
      /\ NotifyConsistent /\ \A q \in Senders : pc[q] # "wait" => wait[q] = "none"
  BY DEF TypeOK, BQTypeOK, WaitInv
<1>1. ASSUME UNCHANGED <<permit, waiters, wait>>, NEW s \in Senders, pc[s] # "wait",
             \A q \in Senders : q # s => pc'[q] = pc[q]
      PROVE  WaitInv'
  <2>1. NotifyConsistent'
    BY <1>0, <1>1, SameWaiters
  <2>. QED BY <1>0, <1>1, <2>1 DEF WaitInv
<1>2. ASSUME UNCHANGED <<permit, waiters, wait, pc>> PROVE WaitInv'
  <2>1. NotifyConsistent'
    BY <1>0, <1>2, SameWaiters
  <2>. QED BY <1>0, <1>2, <2>1 DEF WaitInv
<1>3. ASSUME NEW s \in Senders, pc[s] # "wait",
             AssignSequence(s) \/ Push(s) \/ PushClosed(s)
             \/ PushTimeout(s) \/ TryPush(s) \/ OnMessageSent(s) \/ DropSender(s)
             \/ \E o \in Ops : Reject(s, o)
      PROVE  WaitInv'
  <2>1. UNCHANGED <<permit, waiters, wait>> /\ \A q \in Senders : q # s => pc'[q] = pc[q]
    BY <1>0, <1>3
    DEF Reject, AssignSequence, Push, PushClosed, PushTimeout, TryPush, OnMessageSent,
        DropSender, Return, CountSent, bqVars
  <2>. QED BY <1>1, <1>3, <2>1
<1>4. ASSUME NEW s \in Senders, NEW o \in Ops, Call(s, o) PROVE WaitInv'
  <2>1. wait[s] = "none" /\ UNCHANGED <<permit, waiters>>
    BY <1>0, <1>4 DEF Call, MayCall
  <2>2. CASE pc' = [pc EXCEPT ![s] = "assign"] /\ UNCHANGED wait
    BY <1>0, <1>1, <1>4, <2>1, <2>2 DEF Call, MayCall
  <2>3. CASE pc' = [pc EXCEPT ![s] = "wait"] /\ wait' = [wait EXCEPT ![s] = "check"]
    <3>1. NotifyConsistent'
      BY <1>0, <2>1, <2>3, SameWaiters
    <3>. QED BY <1>0, <2>3, <3>1 DEF WaitInv
  <2>. QED BY <1>4, <2>2, <2>3 DEF Call
<1>5. ASSUME NEW s \in Senders, pc[s] = "wait", UNCHANGED <<permit, waiters>>,
             wait[s] # "parked",
             NEW t \in WaitStates \ {"parked"}, wait' = [wait EXCEPT ![s] = t],
             pc' = pc \/ (pc' = [pc EXCEPT ![s] = "assign"] /\ t = "none")
      PROVE  WaitInv'
  <2>1. NotifyConsistent'
    BY <1>0, <1>5, SameWaiters
  <2>. QED BY <1>0, <1>5, <2>1 DEF WaitInv
<1>6. ASSUME NEW s \in Senders, WaitStep(s) PROVE WaitInv'
  <2>1. pc[s] = "wait" /\ UNCHANGED pc
    BY <1>6 DEF WaitStep, chVars
  <2>2. CASE CheckCapacity(s)
    BY <1>5, <2>1, <2>2 DEF CheckCapacity
  <2>3. CASE Wake(s)
    BY <1>5, <2>1, <2>3 DEF Wake
  <2>4. CASE PollNotified(s)
    <3>1. CASE /\ permit /\ permit' = FALSE /\ UNCHANGED waiters
               /\ wait' = [wait EXCEPT ![s] = "check"]
      <4>1. waiters' = waiters /\ ~permit'
        BY <3>1
      <4>2. \A q \in Senders : wait'[q] = "parked" <=> wait[q] = "parked"
        BY <1>0, <2>4, <3>1 DEF PollNotified
      <4>3. NotifyConsistent'
        BY <1>0, <4>1, <4>2 DEF NotifyConsistent
      <4>. QED BY <1>0, <2>1, <3>1, <4>3 DEF WaitInv
    <3>2. CASE /\ ~permit /\ UNCHANGED permit /\ waiters' = Append(waiters, s)
               /\ wait' = [wait EXCEPT ![s] = "parked"]
      <4>1. s \notin ToSet(waiters) /\ IsInjective(waiters)
            /\ ToSet(waiters) = {q \in Senders : wait[q] = "parked"}
        BY <1>0, <2>4 DEF NotifyConsistent, PollNotified
      <4>2. ToSet(waiters') = ToSet(waiters) \cup {s} /\ IsInjective(waiters')
        BY <1>0, <3>2, <4>1, InjectiveAppend
      <4>3. ToSet(waiters') = {q \in Senders : wait'[q] = "parked"}
        BY <1>0, <3>2, <4>1, <4>2
      <4>4. ~permit'
        BY <3>2
      <4>5. NotifyConsistent'
        BY <4>2, <4>3, <4>4 DEF NotifyConsistent
      <4>. QED BY <1>0, <2>1, <3>2, <4>5 DEF WaitInv
    <3>. QED BY <2>4, <3>1, <3>2 DEF PollNotified
  <2>. QED BY <1>6, <2>2, <2>3, <2>4 DEF WaitStep
<1>7. ASSUME NEW s \in Senders, Granted(s) PROVE WaitInv'
  BY <1>5, <1>7 DEF Granted
<1>8. ASSUME NEW s \in Senders, NEW r \in Outcomes, CancelWait(s), Return(s, r)
      PROVE  WaitInv'
  <2>1. /\ NotifyConsistent' /\ wait'[s] = "none"
        /\ \A q \in Senders : wait'[q] = "none" \/ wait[q] # "none"
    BY <1>8, CancelWaits
  <2>2. \A q \in Senders : q # s => pc'[q] = pc[q]
    BY <1>0, <1>8 DEF Return
  <2>. QED BY <1>0, <2>1, <2>2 DEF WaitInv
<1>9. ASSUME NEW s \in Senders, DropSend(s) \/ WaitTimeout(s) PROVE WaitInv'
  <2>1. CASE pc[s] = "push" /\ UNCHANGED bqVars /\ Return(s, "dropped")
    <3>1. \A q \in Senders : q # s => pc'[q] = pc[q]
      BY <1>0, <2>1 DEF Return
    <3>. QED BY <1>1, <2>1, <3>1 DEF bqVars
  <2>2. CASE CancelWait(s) /\ (Return(s, "dropped") \/ Return(s, "timeout"))
    BY <1>8, <2>2
  <2>. QED BY <1>9, <2>1, <2>2 DEF DropSend, WaitTimeout
<1>10. CASE NotifySender
  <2>1. /\ ToSet(waiters) = {q \in Senders : wait[q] = "parked"} /\ IsInjective(waiters)
        /\ NotifyOne(wait) /\ pc' = pc
    BY <1>0, <1>10 DEF NotifyConsistent, NotifySender
  <2>2. permit => waiters = <<>>
    BY <1>0 DEF NotifyConsistent
  <2>3. /\ NotifyConsistent'
        /\ \A q \in Senders : wait'[q] = wait[q] \/ wait[q] = "parked"
    BY <1>0, <2>1, <2>2, NotifyWaits
  <2>. QED BY <1>0, <2>1, <2>3 DEF WaitInv
<1>11. ASSUME NEW r \in Receives, Take(r) \/ Panic(r) PROVE WaitInv'
  BY <1>2, <1>11 DEF Take, Panic, bqVars
<1>12. CASE OnMessageReceived \/ ReceiveEnd \/ Close \/ DropReceiver \/ UNCHANGED vars
  BY <1>2, <1>12
  DEF OnMessageReceived, CountReceived, ReceiveEnd, Close, DropReceiver, vars, bqVars, chVars
<1>13. ASSUME NEW s \in Senders, SenderStep(s) PROVE WaitInv'
  <2>1. CASE \E o \in Ops : Call(s, o)
    BY <1>4, <2>1
  <2>2. CASE WaitStep(s) \/ Granted(s) \/ WaitTimeout(s) \/ DropSend(s)
    BY <1>6, <1>7, <1>9, <2>2
  <2>3. CASE \/ AssignSequence(s) \/ Push(s) \/ PushClosed(s) \/ PushTimeout(s)
             \/ TryPush(s) \/ OnMessageSent(s) \/ DropSender(s)
             \/ \E o \in Ops : Reject(s, o)
    <3>1. pc[s] # "wait"
      BY <2>3 DEF AssignSequence, Push, PushClosed, PushTimeout, TryPush, OnMessageSent,
         DropSender, Reject, MayCall
    <3>. QED BY <1>3, <2>3, <3>1
  <2>. QED BY <1>13, <2>1, <2>2, <2>3 DEF SenderStep
<1>. QED BY <1>10, <1>11, <1>12, <1>13 DEF Next, ReceiverStep

-----------------------------------------------------------------------------
(***************************************************************************)
(* Where the check of debug builds holds                                   *)
(***************************************************************************)
Patient == {"send", "send_request", "send_response"}

LEMMA NextSolo ==
    ASSUME NEW s, Senders = {s}, Ops \subseteq Patient, Droppable = {},
           IndInv, SoloInv(s), [Next]_vars
    PROVE  SoloInv(s)'
<1>. USE DEF IndInv
<1>0. /\ queue \in Seq(Envelope) /\ sendSequence \in Nat /\ recvSequence \in Nat
      /\ pc \in [Senders -> Stages] /\ sequence \in [Senders -> Nat] /\ s \in Senders
      /\ Len(queue) \in Nat
  BY DEF TypeOK
<1>1. pc[s] \notin Free => op[s] \in Patient
  BY <1>0 DEF InCall
<1>2. ASSUME UNCHANGED <<queue, recvSequence, sendSequence, rx, rxpc>>,
             pc'[s] # "push", pc[s] # "push" \/ rx # "open"
      PROVE  SoloInv(s)'
  BY <1>2 DEF SoloInv
<1>3. ASSUME UNCHANGED <<queue, recvSequence, sendSequence, pc, sequence>>,
             rx' = "open" => rx = "open", rxpc' # "panicked"
      PROVE  SoloInv(s)'
  BY <1>3 DEF SoloInv
<1>4. CASE \E o \in Ops : Reject(s, o) \/ Call(s, o)
  BY <1>0, <1>2, <1>4 DEF Reject, Call, MayCall, Return
<1>5. CASE WaitStep(s)
  BY <1>3, <1>5 DEF WaitStep, chVars, SoloInv
<1>6. CASE Granted(s) \/ OnMessageSent(s) \/ DropSender(s)
  BY <1>0, <1>2, <1>6 DEF Granted, OnMessageSent, DropSender, Return
<1>7. CASE WaitTimeout(s) \/ PushTimeout(s) \/ TryPush(s) \/ DropSend(s)
  BY <1>0, <1>1, <1>7 DEF WaitTimeout, PushTimeout, TryPush, DropSend, Patient
<1>8. CASE AssignSequence(s)
  <2>1. /\ pc[s] = "assign" /\ pc'[s] = "push" /\ sequence'[s] = sendSequence
        /\ sendSequence' = sendSequence + 1 /\ UNCHANGED <<queue, recvSequence, rx, rxpc>>
    BY <1>0, <1>8 DEF AssignSequence
  <2>. QED BY <2>1 DEF SoloInv
<1>9. CASE Push(s)
  <2>1. /\ pc[s] = "push" /\ pc'[s] = "sent" /\ rx = "open"
        /\ queue' = Append(queue, EnvelopeOf(s))
        /\ UNCHANGED <<sendSequence, recvSequence, rx, rxpc>>
    BY <1>0, <1>9 DEF Push
  <2>2. EnvelopeOf(s).seq = sequence[s]
    BY DEF EnvelopeOf
  <2>3. EnvelopeOf(s) \in Envelope
    BY <1>0, <1>1, <2>1, EnvelopeType, OpsAssumption DEF InCall
  <2>4. /\ Len(queue') = Len(queue) + 1
        /\ \A i \in DOMAIN queue' :
              \/ i \in DOMAIN queue /\ queue'[i] = queue[i]
              \/ i = Len(queue) + 1 /\ queue'[i] = EnvelopeOf(s)
    BY <1>0, <2>1, <2>3
  <2>. QED BY <1>0, <2>1, <2>2, <2>4 DEF SoloInv
<1>10. CASE PushClosed(s)
  BY <1>0, <1>2, <1>10 DEF PushClosed, Return
<1>11. ASSUME NEW r \in Receives, Take(r) PROVE SoloInv(s)'
  <2>1. /\ queue # <<>> /\ queue' = Tail(queue) /\ recvSequence' = recvSequence + 1
        /\ rxpc' = "received" /\ UNCHANGED <<sendSequence, rx, pc, sequence>>
    BY <1>11 DEF Take
  <2>2. /\ Len(queue') = Len(queue) - 1
        /\ \A i \in DOMAIN queue' :
              i \in Nat /\ i + 1 \in DOMAIN queue /\ queue'[i] = queue[i + 1]
    BY <1>0, <2>1
  <2>3. \A i \in DOMAIN queue' : queue'[i].seq = recvSequence' + i - 1
    BY <1>0, <2>1, <2>2 DEF SoloInv
  <2>4. recvSequence' + Len(queue') = recvSequence + Len(queue) /\ rxpc' # "panicked"
    BY <1>0, <2>1, <2>2
  <2>. QED BY <2>1, <2>3, <2>4 DEF SoloInv
<1>12. ASSUME NEW r \in Receives, Panic(r) PROVE FALSE
  <2>1. queue # <<>> /\ Head(queue).seq # recvSequence
    BY <1>12 DEF Panic, Mismatch
  <2>2. 1 \in DOMAIN queue /\ Head(queue) = queue[1]
    BY <1>0, <2>1
  <2>. QED BY <1>0, <2>1, <2>2 DEF SoloInv
<1>13. CASE OnMessageReceived \/ NotifySender \/ ReceiveEnd \/ Close
  <2>1. rxpc' # "panicked" /\ (rx' = "open" => rx = "open")
    BY <1>13 DEF OnMessageReceived, NotifySender, ReceiveEnd, Close
  <2>. QED
    BY <1>3, <1>13, <2>1 DEF OnMessageReceived, NotifySender, ReceiveEnd, Close
<1>14. CASE DropReceiver
  <2>1. queue' = <<>> /\ rx' = "dropped" /\ UNCHANGED rxpc
    BY <1>14 DEF DropReceiver
  <2>. QED BY <2>1 DEF SoloInv
<1>15. CASE UNCHANGED vars
  BY <1>3, <1>15 DEF vars, chVars, SoloInv
<1>. QED
  BY <1>4, <1>5, <1>6, <1>7, <1>8, <1>9, <1>10, <1>11, <1>12, <1>13, <1>14, <1>15
  DEF Next, SenderStep, ReceiverStep

\* The check of debug builds (channel.rs recv) never fires for a sender that is not
\* cloned, calls methods that wait and does not drop their futures.
THEOREM SoloNeverPanics ==
    ASSUME NEW s, Senders = {s}, Ops \subseteq Patient, Droppable = {}
    PROVE  Spec => []NoReorderPanic
<1>1. Init => SoloInv(s)
  BY DEF Init, SoloInv
<1>2. IndInv /\ SoloInv(s) /\ [Next]_vars => SoloInv(s)'
  BY NextSolo
<1>3. SoloInv(s) => NoReorderPanic
  BY DEF SoloInv, NoReorderPanic
<1>. QED BY <1>1, <1>2, <1>3, Inductive, PTL DEF Spec

-----------------------------------------------------------------------------
(***************************************************************************)
(* What the count says at rest                                             *)
(***************************************************************************)
LEMMA SetAppend ==
    ASSUME NEW S, NEW q \in Seq(S), NEW e \in S
    PROVE  ToSet(Append(q, e)) = ToSet(q) \cup {e}
<1>1. /\ DOMAIN Append(q, e) = DOMAIN q \cup {Len(q) + 1} /\ Append(q, e)[Len(q) + 1] = e
      /\ \A i \in DOMAIN q : Append(q, e)[i] = q[i]
  BY AppendAll
<1>. QED BY <1>1 DEF ToSet

LEMMA SetHeadTail ==
    ASSUME NEW S, NEW q \in Seq(S), q # <<>>
    PROVE  ToSet(q) = ToSet(Tail(q)) \cup {Head(q)}
<1>1. \A i \in DOMAIN q : i = 1 \/ (i - 1 \in DOMAIN Tail(q) /\ Tail(q)[i - 1] = q[i])
  OBVIOUS
<1>2. /\ 1 \in DOMAIN q /\ Head(q) = q[1]
      /\ \A i \in DOMAIN Tail(q) : i + 1 \in DOMAIN q /\ Tail(q)[i] = q[i + 1]
  BY HeadTailElements
<1>3. ASSUME NEW x \in ToSet(q) PROVE x \in ToSet(Tail(q)) \cup {Head(q)}
  <2>1. PICK i \in DOMAIN q : x = q[i]
    BY <1>3 DEF ToSet
  <2>. QED BY <2>1, <1>1, <1>2 DEF ToSet
<1>4. ASSUME NEW x \in ToSet(Tail(q)) \cup {Head(q)} PROVE x \in ToSet(q)
  <2>1. CASE x = Head(q)
    BY <2>1, <1>2 DEF ToSet
  <2>2. CASE x \in ToSet(Tail(q))
    <3>1. PICK i \in DOMAIN Tail(q) : x = Tail(q)[i]
      BY <2>2 DEF ToSet
    <3>. QED BY <3>1, <1>2 DEF ToSet
  <2>. QED BY <1>4, <2>1, <2>2
<1>. QED BY <1>3, <1>4

\* An envelope that its sender has not pushed yet is in neither log.
LEMMA NewEnvelope ==
    ASSUME IndInv, NEW s \in Senders, pc[s] = "push"
    PROVE  EnvelopeOf(s) \notin ToSet(delivered) \cup ToSet(queue)
<1>1. ASSUME NEW log \in {delivered, queue}, NEW i \in DOMAIN log, log[i] = EnvelopeOf(s)
      PROVE  FALSE
  <2>1. Settled(log[i])
    BY <1>1 DEF IndInv, OrderInv, AllSettled
  <2>. QED BY <1>1, <2>1 DEF Settled, EnvelopeOf
<1>. QED BY <1>1 DEF ToSet

LEMMA NextCount ==
    ASSUME IndInv, CountInv, [Next]_vars
    PROVE  CountInv'
<1>. USE DEF IndInv
<1>. SUFFICES ASSUME rx' # "dropped"
              PROVE  /\ IsFiniteSet(Uncounted') /\ IsFiniteSet(Pushed')
                     /\ messagesReceived' = Len(delivered')
                                               - (IF rxpc' = "received" THEN 1 ELSE 0)
                     /\ messagesSent' = Len(delivered') + Len(queue')
                                           - Cardinality(Uncounted') - Cardinality(Pushed')
  BY DEF CountInv
<1>. DEFINE Counted(received, sent, delv, qu, rpc, unc, psh) ==
               /\ IsFiniteSet(unc) /\ IsFiniteSet(psh)
               /\ received = Len(delv) - (IF rpc = "received" THEN 1 ELSE 0)
               /\ sent = Len(delv) + Len(qu) - Cardinality(unc) - Cardinality(psh)
            Goal == Counted(messagesReceived', messagesSent', delivered', queue', rxpc',
                            Uncounted', Pushed')
<1>0. /\ queue \in Seq(Envelope) /\ delivered \in Seq(Envelope)
      /\ Len(queue) \in Nat /\ Len(delivered) \in Nat
      /\ messagesSent \in Nat /\ messagesReceived \in Nat
      /\ pc \in [Senders -> Stages] /\ op \in [Senders -> SendOps \cup {NoOp}]
  <2>1. queue \in Seq(Envelope) /\ delivered \in Seq(Envelope)
    BY DEF TypeOK
  <2>2. Len(queue) \in Nat /\ Len(delivered) \in Nat
    BY <2>1
  <2>. QED BY <2>1, <2>2 DEF TypeOK, BQTypeOK
<1>1. rx # "dropped"
  BY DEF Next, SenderStep, ReceiverStep, Reject, Call, WaitStep, Granted, WaitTimeout,
     AssignSequence, Push, PushClosed, PushTimeout, TryPush, OnMessageSent, DropSend,
     DropSender, Take, Panic, OnMessageReceived, NotifySender, ReceiveEnd, Close,
     DropReceiver, vars, chVars
<1>2. Counted(messagesReceived, messagesSent, delivered, queue, rxpc, Uncounted, Pushed)
  BY <1>1 DEF CountInv
<1>3. Cardinality(Uncounted) \in Nat /\ Cardinality(Pushed) \in Nat
  BY <1>2, FS_CardinalityType
<1>4. ASSUME UNCHANGED <<delivered, queue>> PROVE Uncounted' = Uncounted
  BY <1>4 DEF Uncounted
<1>5. ASSUME UNCHANGED <<delivered, queue, messagesSent, messagesReceived>>, Pushed' = Pushed,
             rxpc' = "received" <=> rxpc = "received"
      PROVE  Goal
  BY <1>2, <1>4, <1>5
<1>6. ASSUME NEW s \in Senders, pc[s] = "push", EnvelopeOf(s) \in Envelope,
             queue' = Append(queue, EnvelopeOf(s)),
             UNCHANGED <<delivered, messagesSent, messagesReceived, rxpc>>,
             \/ op[s] = "try_send" /\ Pushed' = Pushed
             \/ op[s] # "try_send" /\ Pushed' = Pushed \cup {s}
      PROVE  Goal
  <2>. DEFINE e == EnvelopeOf(s)
  <2>1. /\ ToSet(queue') = ToSet(queue) \cup {e} /\ Len(queue') = Len(queue) + 1
        /\ e \notin ToSet(delivered) \cup ToSet(queue) /\ e.op = op[s]
    <3>1. ToSet(queue') = ToSet(queue) \cup {e} /\ Len(queue') = Len(queue) + 1
      <4>1. e \in Envelope /\ queue \in Seq(Envelope) /\ queue' = Append(queue, e)
        BY <1>0, <1>6
      <4>. HIDE DEF e, Envelope
      <4>2. ToSet(queue') = ToSet(queue) \cup {e}
        BY <4>1, SetAppend
      <4>. QED BY <4>1, <4>2
    <3>2. e \notin ToSet(delivered) \cup ToSet(queue) /\ e.op = op[s]
      BY <1>6, NewEnvelope DEF EnvelopeOf
    <3>. QED BY <3>1, <3>2
  <2>. HIDE DEF e
  <2>2. CASE op[s] = "try_send" /\ Pushed' = Pushed
    <3>1. Uncounted' = Uncounted \cup {e} /\ e \notin Uncounted
      BY <1>6, <2>1, <2>2 DEF Uncounted
    <3>2. /\ IsFiniteSet(Uncounted') /\ Cardinality(Uncounted') = Cardinality(Uncounted) + 1
      BY <1>2, <3>1, FS_AddElement
    <3>. QED BY <1>0, <1>2, <1>3, <1>6, <2>1, <2>2, <3>2
  <2>3. CASE op[s] # "try_send" /\ Pushed' = Pushed \cup {s}
    <3>1. Uncounted' = Uncounted /\ s \notin Pushed
      BY <1>6, <2>1, <2>3 DEF Uncounted, Pushed
    <3>2. /\ IsFiniteSet(Pushed') /\ Cardinality(Pushed') = Cardinality(Pushed) + 1
      BY <1>2, <2>3, <3>1, FS_AddElement
    <3>. QED BY <1>0, <1>2, <1>3, <1>6, <2>1, <3>1, <3>2
  <2>. QED BY <1>6, <2>2, <2>3
<1>7. ASSUME NEW s \in Senders, Push(s) \/ TryPush(s) PROVE Goal
  <2>1. EnvelopeOf(s) \in Envelope /\ pc[s] = "push"
    <3>1. pc[s] = "push" /\ op[s] \in SendOps
      BY <1>7, OpsAssumption DEF Push, TryPush, InCall
    <3>. QED BY <3>1, EnvelopeType
  <2>2. UNCHANGED <<delivered, messagesSent, messagesReceived, rxpc>>
    BY <1>7 DEF Push, TryPush, bqVars
  <2>3. CASE queue' = queue /\ op[s] = "try_send"
    <3>1. Pushed' = Pushed
      BY <1>0, <1>7, <2>1, <2>3 DEF Push, TryPush, Return, Pushed
    <3>. QED BY <1>5, <2>2, <2>3, <3>1
  <2>4. CASE queue' = Append(queue, EnvelopeOf(s)) /\ op[s] = "try_send"
    <3>1. Pushed' = Pushed
      BY <1>0, <1>7, <2>1, <2>4 DEF Push, TryPush, Return, Pushed
    <3>. QED BY <1>6, <2>1, <2>2, <2>4, <3>1
  <2>5. CASE queue' = Append(queue, EnvelopeOf(s)) /\ op[s] # "try_send"
    <3>1. Pushed' = Pushed \cup {s}
      BY <1>0, <1>7, <2>5 DEF Push, TryPush, Pushed
    <3>. QED BY <1>6, <2>1, <2>2, <2>5, <3>1
  <2>. QED BY <1>7, <2>3, <2>4, <2>5 DEF Push, TryPush
<1>8. ASSUME NEW s \in Senders, OnMessageSent(s) PROVE Goal
  <2>1. Pushed' = Pushed \ {s} /\ s \in Pushed
    BY <1>0, <1>8 DEF OnMessageSent, Return, Pushed
  <2>2. IsFiniteSet(Pushed') /\ Cardinality(Pushed') = Cardinality(Pushed) - 1
    BY <1>2, <2>1, FS_RemoveElement
  <2>3. /\ UNCHANGED <<delivered, queue, messagesReceived, rxpc>>
        /\ messagesSent' = messagesSent + 1
    BY <1>8 DEF OnMessageSent, CountSent
  <2>. QED BY <1>0, <1>2, <1>3, <1>4, <2>2, <2>3
<1>9. ASSUME NEW r \in Receives, Take(r) PROVE Goal
  <2>1. /\ queue # <<>> /\ delivered' = Append(delivered, Head(queue)) /\ queue' = Tail(queue)
        /\ rxpc = "idle" /\ rxpc' = "received"
        /\ UNCHANGED <<messagesSent, messagesReceived, pc>>
    BY <1>9 DEF Take, bqVars
  <2>2. /\ Len(queue') = Len(queue) - 1 /\ Len(delivered') = Len(delivered) + 1
        /\ Head(queue) \in Envelope
    <3>1. queue \in Seq(Envelope) /\ delivered \in Seq(Envelope)
      BY <1>0
    <3>. HIDE DEF Envelope
    <3>. QED BY <3>1, <2>1
  <2>3. ToSet(delivered') \cup ToSet(queue') = ToSet(delivered) \cup ToSet(queue)
    <3>1. queue \in Seq(Envelope) /\ delivered \in Seq(Envelope)
      BY <1>0
    <3>. HIDE DEF Envelope
    <3>2. ToSet(delivered') = ToSet(delivered) \cup {Head(queue)}
      BY <3>1, <2>1, <2>2, SetAppend
    <3>3. ToSet(queue) = ToSet(Tail(queue)) \cup {Head(queue)}
      BY <3>1, <2>1, SetHeadTail
    <3>. QED BY <2>1, <3>2, <3>3
  <2>4. Uncounted' = Uncounted /\ Pushed' = Pushed
    BY <2>1, <2>3 DEF Uncounted, Pushed
  <2>5. messagesReceived' = Len(delivered') - 1
    BY <1>0, <1>2, <2>1, <2>2
  <2>6. messagesSent' = Len(delivered') + Len(queue') - Cardinality(Uncounted)
                            - Cardinality(Pushed)
    <3>1. messagesSent' = Len(delivered) + Len(queue) - Cardinality(Uncounted)
                             - Cardinality(Pushed)
      BY <1>2, <2>1
    <3>2. /\ Len(delivered) \in Nat /\ Len(queue) \in Nat
          /\ Cardinality(Uncounted) \in Nat /\ Cardinality(Pushed) \in Nat
      BY <1>0, <1>3
    <3>. DEFINE a == Len(delivered)
                b == Len(queue)
                unc == Cardinality(Uncounted)
                psh == Cardinality(Pushed)
    <3>3. /\ messagesSent' = a + b - unc - psh /\ Len(delivered') = a + 1 /\ Len(queue') = b - 1
          /\ a \in Nat /\ b \in Nat /\ unc \in Nat /\ psh \in Nat
      BY <3>1, <3>2, <2>2
    <3>. HIDE DEF a, b, unc, psh
    <3>4. messagesSent' = Len(delivered') + Len(queue') - unc - psh
      BY <3>3
    <3>. QED BY <3>4 DEF unc, psh
  <2>. QED BY <1>2, <2>1, <2>4, <2>5, <2>6
<1>10. CASE OnMessageReceived
  <2>1. /\ UNCHANGED <<delivered, queue, messagesSent, pc>> /\ rxpc = "received"
        /\ rxpc' # "received" /\ messagesReceived' = messagesReceived + 1
    BY <1>10 DEF OnMessageReceived, CountReceived
  <2>2. Pushed' = Pushed
    BY <2>1 DEF Pushed
  <2>. QED BY <1>0, <1>2, <1>4, <2>1, <2>2
<1>11. ASSUME NEW s \in Senders,
              \/ \E o \in Ops : Reject(s, o) \/ Call(s, o)
              \/ WaitStep(s) \/ Granted(s) \/ WaitTimeout(s) \/ AssignSequence(s)
              \/ PushClosed(s) \/ PushTimeout(s) \/ DropSend(s) \/ DropSender(s)
       PROVE  Goal
  <2>1. UNCHANGED <<delivered, queue, messagesSent, messagesReceived, rxpc>>
    BY <1>11 DEF Reject, Call, WaitStep, Granted, WaitTimeout, AssignSequence, PushClosed,
       PushTimeout, DropSend, DropSender, CancelWait, CheckCapacity, PollNotified, Wake,
       bqVars, chVars
  <2>2. Pushed' = Pushed
    BY <1>0, <1>11 DEF Reject, Call, MayCall, WaitStep, Granted, WaitTimeout, AssignSequence,
       PushClosed, PushTimeout, DropSend, DropSender, Return, Pushed, chVars
  <2>. QED BY <1>5, <2>1, <2>2
<1>12. CASE NotifySender \/ ReceiveEnd \/ Close \/ UNCHANGED vars
  <2>1. /\ UNCHANGED <<delivered, queue, messagesSent, messagesReceived, pc>>
        /\ rxpc' = "received" <=> rxpc = "received"
    BY <1>12 DEF NotifySender, ReceiveEnd, Close, vars, bqVars, chVars
  <2>2. Pushed' = Pushed
    BY <2>1 DEF Pushed
  <2>. QED BY <1>5, <2>1, <2>2
<1>13. ~DropReceiver /\ ~\E r \in Receives : Panic(r)
  BY DEF DropReceiver, Panic
<1>14. Goal
  BY <1>7, <1>8, <1>9, <1>10, <1>11, <1>12, <1>13 DEF Next, SenderStep, ReceiverStep
<1>. QED BY <1>14

LEMMA InitCount == Init => CountInv
<1>. SUFFICES ASSUME Init PROVE CountInv
  OBVIOUS
<1>1. Uncounted = {} /\ Pushed = {}
  BY DEF Init, Uncounted, Pushed, ToSet
<1>. QED BY <1>1, FS_EmptySet DEF Init, BQInit, CountInv

\* With no call in progress the count of a BoundedQueue is the number of queued messages
\* less that of the try_sends that were ever accepted, modulo the word: whatever timeouts,
\* dropped futures and clones there were, nothing else makes it drift.
THEOREM RestCounts == Spec => []DepthAtRest
<1>1. IndInv /\ CountInv /\ DepthIsBalance => DepthAtRest
  <2>. SUFFICES ASSUME IndInv, CountInv, DepthIsBalance, Bounded, AtRest, rx # "dropped"
                PROVE  depth = (Len(queue) - Cardinality(Uncounted)) % Word
    BY DEF DepthAtRest
  <2>1. Pushed = {}
    BY DEF AtRest, Pushed
  <2>2. /\ messagesReceived = Len(delivered) /\ IsFiniteSet(Uncounted)
        /\ messagesSent = Len(delivered) + Len(queue) - Cardinality(Uncounted)
                             - Cardinality(Pushed)
    BY DEF AtRest, CountInv
  <2>3. Cardinality(Pushed) = 0 /\ Cardinality(Uncounted) \in Nat
    BY <2>1, <2>2, FS_EmptySet, FS_CardinalityType
  <2>4. Len(delivered) \in Nat /\ Len(queue) \in Nat
    <3>1. queue \in Seq(Envelope) /\ delivered \in Seq(Envelope)
      BY DEF IndInv, TypeOK
    <3>. QED BY <3>1
  <2>5. messagesSent - messagesReceived = Len(queue) - Cardinality(Uncounted)
    BY <2>2, <2>3, <2>4
  <2>. QED BY <2>5 DEF DepthIsBalance
<1>. QED BY <1>1, InitCount, NextCount, Inductive, BalanceKept, PTL DEF Spec

-----------------------------------------------------------------------------
(***************************************************************************)
(* A wakeup for the one that waits                                         *)
(***************************************************************************)
LEMMA NextUncounted ==
    ASSUME IndInv, "try_send" \notin Ops, Uncounted = {}, [Next]_vars
    PROVE  Uncounted' = {}
<1>. USE DEF IndInv
<1>0. queue \in Seq(Envelope) /\ delivered \in Seq(Envelope)
  BY DEF TypeOK
<1>1. ASSUME NEW s \in Senders, Push(s) \/ TryPush(s) PROVE Uncounted' = {}
  <2>1. op[s] # "try_send" /\ EnvelopeOf(s) \in Envelope /\ EnvelopeOf(s).op = op[s]
    <3>1. pc[s] \notin Free
      BY <1>1 DEF Push, TryPush
    <3>2. op[s] \in Ops
      BY <3>1 DEF InCall
    <3>. QED BY <3>2, OpsAssumption, EnvelopeType DEF EnvelopeOf
  <2>2. delivered' = delivered /\ queue' = Append(queue, EnvelopeOf(s))
    BY <1>1, <2>1 DEF Push, TryPush
  <2>3. ToSet(queue') = ToSet(queue) \cup {EnvelopeOf(s)}
    <3>. HIDE DEF Envelope
    <3>. QED BY <1>0, <2>1, <2>2, SetAppend
  <2>. QED BY <2>1, <2>2, <2>3 DEF Uncounted
<1>2. ASSUME NEW r \in Receives, Take(r) PROVE Uncounted' = {}
  <2>. HIDE DEF Envelope
  <2>1. /\ queue # <<>> /\ delivered' = Append(delivered, Head(queue)) /\ queue' = Tail(queue)
    BY <1>2 DEF Take
  <2>2. Head(queue) \in Envelope
    BY <1>0, <2>1
  <2>3. ToSet(delivered') = ToSet(delivered) \cup {Head(queue)}
    BY <1>0, <2>1, <2>2, SetAppend
  <2>4. ToSet(queue) = ToSet(Tail(queue)) \cup {Head(queue)}
    BY <1>0, <2>1, SetHeadTail
  <2>. QED BY <2>1, <2>3, <2>4 DEF Uncounted
<1>3. ASSUME UNCHANGED delivered, queue' = queue \/ queue' = <<>> PROVE Uncounted' = {}
  BY <1>3 DEF Uncounted, ToSet
<1>4. ASSUME NEW s \in Senders, SenderStep(s)
      PROVE  Push(s) \/ TryPush(s) \/ UNCHANGED <<queue, delivered>>
  BY <1>4 DEF SenderStep, Reject, Call, WaitStep, Granted, WaitTimeout, AssignSequence,
     PushClosed, PushTimeout, OnMessageSent, DropSend, DropSender, chVars
<1>5. CASE \/ (\E r \in Receives : Panic(r)) \/ OnMessageReceived \/ NotifySender
           \/ ReceiveEnd \/ Close \/ DropReceiver \/ UNCHANGED vars
  BY <1>3, <1>5 DEF Panic, OnMessageReceived, NotifySender, ReceiveEnd, Close, DropReceiver,
     vars, chVars
<1>. QED BY <1>1, <1>2, <1>3, <1>4, <1>5 DEF Next, ReceiverStep

LEMMA NextSoloWait ==
    ASSUME NEW s, Senders = {s}, "try_send" \notin Ops, IndInv, WaitInv, SoloWait(s), [Next]_vars
    PROVE  SoloWait(s)'
<1>. USE DEF IndInv
<1>0. /\ s \in Senders /\ pc \in [Senders -> Stages] /\ wait \in [Senders -> WaitStates]
      /\ Capacity \in Nat \ {0}
  BY CapacityAssumption DEF TypeOK, BQTypeOK
<1>1. Uncounted' = {}
  BY NextUncounted DEF SoloWait
<1>2. ASSUME UNCHANGED <<wait, depth, permit>>, rxpc = "notify" => rxpc' = "notify"
      PROVE  SoloWait(s)'
  BY <1>1, <1>2 DEF SoloWait, Bounded
<1>3. ASSUME wait'[s] \in {"none", "check", "woken", "granted"}, wait'[s] # "none" => Bounded
      PROVE  SoloWait(s)'
  BY <1>1, <1>3 DEF SoloWait, Bounded
<1>4. ASSUME NEW o \in Ops, Call(s, o) PROVE SoloWait(s)'
  <2>1. CASE UNCHANGED wait
    BY <1>2, <1>4, <2>1 DEF Call
  <2>2. CASE ~ShouldSend(Len(queue)) /\ wait' = [wait EXCEPT ![s] = "check"]
    BY <1>0, <1>3, <2>2 DEF ShouldSend
  <2>. QED BY <1>4, <2>1, <2>2 DEF Call
<1>5. CASE WaitStep(s)
  <2>1. wait[s] # "none" => Bounded
    BY DEF SoloWait
  <2>2. CASE CheckCapacity(s)
    <3>1. /\ wait'[s] \in {"granted", "poll"} /\ (wait'[s] = "poll" => ~(depth < Capacity))
          /\ UNCHANGED depth /\ wait[s] # "none"
      BY <1>0, <2>2 DEF CheckCapacity
    <3>2. depth \in Nat
      BY WordAssumption DEF TypeOK, BQTypeOK
    <3>3. wait'[s] = "poll" => depth' >= Capacity
      BY <1>0, <3>1, <3>2
    <3>. QED BY <1>1, <2>1, <3>1, <3>3 DEF SoloWait, Bounded
  <2>3. CASE PollNotified(s)
    <3>1. CASE permit /\ wait' = [wait EXCEPT ![s] = "check"]
      BY <1>0, <1>3, <2>1, <2>3, <3>1 DEF PollNotified
    <3>2. CASE ~permit /\ wait' = [wait EXCEPT ![s] = "parked"]
      <4>1. wait[s] = "poll" /\ wait'[s] = "parked" /\ UNCHANGED <<depth, rxpc>>
        BY <1>0, <1>5, <2>3, <3>2 DEF WaitStep, PollNotified, chVars
      <4>. QED BY <1>1, <3>2, <4>1 DEF SoloWait, Bounded
    <3>. QED BY <2>3, <3>1, <3>2 DEF PollNotified
  <2>4. CASE Wake(s)
    BY <1>0, <1>3, <2>1, <2>4 DEF Wake
  <2>. QED BY <1>5, <2>2, <2>3, <2>4 DEF WaitStep
<1>6. CASE Granted(s) \/ WaitTimeout(s) \/ (DropSend(s) /\ CancelWait(s))
  <2>1. wait'[s] = "none"
    BY <1>0, <1>6, CancelWaits DEF Granted, WaitTimeout
  <2>. QED BY <1>3, <2>1
<1>7. CASE OnMessageSent(s)
  <2>1. wait'[s] = "none"
    BY <1>0, <1>7 DEF OnMessageSent, CountSent, WaitInv
  <2>. QED BY <1>3, <2>1
<1>8. CASE \/ \E o \in Ops : Reject(s, o)
           \/ AssignSequence(s) \/ Push(s) \/ PushClosed(s) \/ PushTimeout(s) \/ TryPush(s)
           \/ (DropSend(s) /\ UNCHANGED bqVars) \/ DropSender(s)
  BY <1>2, <1>8 DEF Reject, AssignSequence, Push, PushClosed, PushTimeout, TryPush, DropSend,
     DropSender, bqVars
<1>9. CASE SenderStep(s)
  BY <1>4, <1>5, <1>6, <1>7, <1>8, <1>9 DEF SenderStep, DropSend
<1>10. CASE OnMessageReceived
  <2>1. /\ UNCHANGED <<wait, permit>>
        /\ rxpc = "received" /\ rxpc' = IF MustNotify THEN "notify" ELSE "idle"
    BY <1>10 DEF OnMessageReceived, CountReceived
  <2>2. depth >= Capacity /\ Bounded => rxpc' = "notify"
    BY <2>1 DEF MustNotify
  <2>. QED BY <1>1, <2>1, <2>2 DEF SoloWait, Bounded
<1>11. CASE NotifySender
  <2>1. /\ waiters \in Seq(Senders) /\ IsInjective(waiters) /\ (permit => waiters = <<>>)
        /\ ToSet(waiters) = {q \in Senders : wait[q] = "parked"}
    BY DEF TypeOK, BQTypeOK, WaitInv, NotifyConsistent
  <2>2. CASE waiters = <<>> /\ permit' = TRUE /\ wait' = wait
    <3>1. wait[s] # "parked"
      BY <1>0, <2>1, <2>2 DEF ToSet
    <3>. QED BY <1>1, <2>2, <3>1 DEF SoloWait, Bounded
  <2>3. CASE waiters # <<>> /\ wait' = [wait EXCEPT ![Head(waiters)] = "woken"]
    <3>1. Head(waiters) = s /\ wait[s] = "parked"
      <4>1. Head(waiters) \in ToSet(waiters)
        <5>1. waiters \in Seq(Senders) /\ IsInjective(waiters) /\ waiters # <<>>
          BY <2>1, <2>3
        <5>. QED BY <5>1, InjectiveTail
      <4>. QED BY <2>1, <4>1
    <3>. QED BY <1>0, <1>3, <2>3, <3>1 DEF SoloWait
  <2>. QED BY <1>11, <2>2, <2>3 DEF NotifySender, NotifyOne
<1>12. CASE \/ \E r \in Receives : Take(r) \/ Panic(r)
            \/ ReceiveEnd \/ Close \/ DropReceiver \/ UNCHANGED vars
  BY <1>2, <1>12 DEF Take, Panic, ReceiveEnd, Close, DropReceiver, vars, bqVars, chVars
<1>. QED BY <1>9, <1>10, <1>11, <1>12 DEF Next, ReceiverStep

\* A sender alone with its receiver never waits for nothing (the notification that
\* on_message_received owes it is not lost): wait_for_capacity parks only while a message
\* is queued or a receive is under way, whatever futures are dropped and time out, as
\* long as no try_send makes the count wrap.  With two senders it may
\* (channel_lost_wakeup).
THEOREM SoloNeverStranded ==
    ASSUME NEW s, Senders = {s}, "try_send" \notin Ops
    PROVE  Spec => []NoStrandedWaiter
<1>1. Init => SoloWait(s) /\ WaitInv
  <2>. SUFFICES ASSUME Init PROVE SoloWait(s) /\ WaitInv
    OBVIOUS
  <2>1. Uncounted = {}
    BY DEF Init, Uncounted, ToSet
  <2>. QED BY <2>1 DEF Init, BQInit, SoloWait, WaitInv, NotifyConsistent, ToSet, IsInjective
<1>2. IndInv /\ WaitInv /\ CountInv /\ DepthIsBalance /\ SoloWait(s) => NoStrandedWaiter
  <2>. SUFFICES ASSUME IndInv, WaitInv, CountInv, DepthIsBalance, SoloWait(s),
                       wait[s] = "parked", rx # "dropped", queue = <<>>,
                       rxpc \notin {"received", "notify"}
                PROVE  FALSE
    BY DEF NoStrandedWaiter
  <2>1. pc[s] = "wait" /\ Bounded /\ depth >= Capacity
    BY DEF WaitInv, SoloWait
  <2>2. Pushed = {} /\ Uncounted = {}
    BY <2>1 DEF Pushed, SoloWait
  <2>3. Cardinality(Pushed) = 0 /\ Cardinality(Uncounted) = 0
    BY <2>2, FS_EmptySet
  <2>4. Len(delivered) \in Nat /\ Len(queue) = 0
    <3>1. delivered \in Seq(Envelope)
      BY DEF IndInv, TypeOK
    <3>. QED BY <3>1
  <2>5. messagesReceived = Len(delivered) /\ messagesSent = Len(delivered)
    BY <2>3, <2>4 DEF CountInv
  <2>6. depth = 0 % Word
    BY <2>1, <2>4, <2>5 DEF DepthIsBalance
  <2>7. Capacity \in Nat \ {0} /\ Word \in Nat \ {0}
    BY CapacityAssumption, WordAssumption
  <2>. QED BY <2>1, <2>6, <2>7
<1>. QED BY <1>1, <1>2, InitCount, NextCount, NextWaits, NextSoloWait, Inductive, BalanceKept,
     PTL DEF Spec

-----------------------------------------------------------------------------
HIDE DEF SendOps, ReceiveOps, NoOp, Outcomes, Envelope, WaitStates

(***************************************************************************)
(* The mapping commutes with the operations on the queue.                  *)
(***************************************************************************)
Pairs(S) == {<<x.from, x.num>> : x \in S}

LEMMA MessagesIsSeq ==
    ASSUME NEW S, NEW q \in Seq(S)
    PROVE  /\ Messages(q) \in Seq(Pairs(S))
           /\ Len(Messages(q)) = Len(q) /\ Len(q) \in Nat
           /\ \A i \in 1..Len(q) : Messages(q)[i] = <<q[i].from, q[i].num>>
<1>1. DOMAIN q = 1..Len(q) /\ Len(q) \in Nat /\ \A i \in 1..Len(q) : q[i] \in S
  OBVIOUS
<1>2. Messages(q) = [i \in 1..Len(q) |-> <<q[i].from, q[i].num>>]
  BY <1>1 DEF Messages
<1>3. \A i \in 1..Len(q) : <<q[i].from, q[i].num>> \in Pairs(S)
  BY <1>1 DEF Pairs
<1>4. Messages(q) \in Seq(Pairs(S)) /\ Len(Messages(q)) = Len(q)
  BY <1>1, <1>2, <1>3
<1>. QED BY <1>1, <1>2, <1>4

LEMMA SameSeq ==
    ASSUME NEW T, NEW s \in Seq(T), NEW t \in Seq(T), Len(s) = Len(t),
           \A i \in 1..Len(s) : s[i] = t[i]
    PROVE  s = t
OBVIOUS

LEMMA NextIndex ==
    ASSUME NEW n \in Nat, NEW i \in 1..n + 1
    PROVE  i \in 1..n \/ i = n + 1
OBVIOUS

LEMMA MessagesAppend ==
    ASSUME NEW S, NEW q \in Seq(S), NEW e \in S
    PROVE  Messages(Append(q, e)) = Append(Messages(q), <<e.from, e.num>>)
<1>. DEFINE a == <<e.from, e.num>>
            new == Append(q, e)
<1>0. a \in Pairs(S)
  BY DEF Pairs
<1>1. /\ new \in Seq(S) /\ Len(new) = Len(q) + 1 /\ Len(q) \in Nat
      /\ \A i \in 1..Len(q) : new[i] = q[i]
      /\ new[Len(q) + 1] = e
  OBVIOUS
<1>. HIDE DEF new
<1>2. /\ Messages(new) \in Seq(Pairs(S)) /\ Len(Messages(new)) = Len(q) + 1
      /\ \A i \in 1..Len(q) + 1 : Messages(new)[i] = <<new[i].from, new[i].num>>
  BY <1>1, MessagesIsSeq
<1>. DEFINE ms == Messages(q)
<1>3. /\ ms \in Seq(Pairs(S)) /\ Len(ms) = Len(q)
      /\ \A i \in 1..Len(q) : ms[i] = <<q[i].from, q[i].num>>
  BY MessagesIsSeq
<1>. HIDE DEF a, ms
<1>4. /\ Append(ms, a) \in Seq(Pairs(S)) /\ Len(Append(ms, a)) = Len(q) + 1
      /\ \A i \in 1..Len(q) : Append(ms, a)[i] = ms[i]
      /\ Append(ms, a)[Len(q) + 1] = a
  BY <1>0, <1>1, <1>3
<1>5. ASSUME NEW i \in 1..Len(q) + 1 PROVE Messages(new)[i] = Append(ms, a)[i]
  <2>1. CASE i \in 1..Len(q)
    BY <1>1, <1>2, <1>3, <1>4, <2>1
  <2>2. CASE i = Len(q) + 1
    BY <1>1, <1>2, <1>4, <2>2 DEF a
  <2>3. i \in 1..Len(q) \/ i = Len(q) + 1
    BY <1>1, <1>5, NextIndex
  <2>. QED BY <2>1, <2>2, <2>3
<1>6. Messages(new) = Append(ms, a)
  BY <1>2, <1>4, <1>5, SameSeq
<1>. QED BY <1>6 DEF new, ms, a

LEMMA MessagesTail ==
    ASSUME NEW S, NEW q \in Seq(S), q # <<>>
    PROVE  /\ Messages(q) # <<>>
           /\ Head(Messages(q)) = <<Head(q).from, Head(q).num>>
           /\ Messages(Tail(q)) = Tail(Messages(q))
<1>. DEFINE ms == Messages(q)
            rest == Tail(q)
<1>1. /\ rest \in Seq(S) /\ Len(rest) = Len(q) - 1 /\ Len(q) \in Nat \ {0}
      /\ \A i \in 1..(Len(q) - 1) : rest[i] = q[i + 1]
      /\ Head(q) = q[1]
  OBVIOUS
<1>2. /\ ms \in Seq(Pairs(S)) /\ Len(ms) = Len(q)
      /\ \A i \in 1..Len(q) : ms[i] = <<q[i].from, q[i].num>>
  BY MessagesIsSeq
<1>. HIDE DEF rest
<1>3. /\ Messages(rest) \in Seq(Pairs(S)) /\ Len(Messages(rest)) = Len(q) - 1
      /\ \A i \in 1..(Len(q) - 1) : Messages(rest)[i] = <<rest[i].from, rest[i].num>>
  BY <1>1, MessagesIsSeq
<1>. HIDE DEF ms
<1>4. ms # <<>> /\ Head(ms) = ms[1]
  BY <1>1, <1>2
<1>5. /\ Tail(ms) \in Seq(Pairs(S)) /\ Len(Tail(ms)) = Len(q) - 1
      /\ \A i \in 1..(Len(q) - 1) : Tail(ms)[i] = ms[i + 1]
  BY <1>1, <1>2, <1>4
<1>6. ASSUME NEW i \in 1..(Len(q) - 1) PROVE Messages(rest)[i] = Tail(ms)[i]
  <2>1. i + 1 \in 1..Len(q)
    BY <1>1, <1>6
  <2>. QED BY <1>1, <1>2, <1>3, <1>5, <1>6, <2>1
<1>7. Messages(rest) = Tail(ms)
  BY <1>3, <1>5, <1>6, SameSeq
<1>. QED BY <1>1, <1>2, <1>4, <1>7 DEF ms, rest

-----------------------------------------------------------------------------
(***************************************************************************)
(* No task starts more than MaxOps operations.                             *)
(***************************************************************************)
Started == \A s \in Senders : pc[s] \notin Free => Number(s) \in 1..MaxOps

LEMMA StartedKept == IndInv /\ Started /\ [Next]_vars => Started'
<1>. SUFFICES ASSUME IndInv, Started, [Next]_vars PROVE Started'
  OBVIOUS
<1>0. /\ pc \in [Senders -> Stages]
      /\ outcome \in [Senders -> Seq(Outcomes)]
      /\ \A s \in Senders : Len(outcome[s]) \in Nat
  BY DEF IndInv, TypeOK
<1>1. ASSUME NEW s \in Senders, NEW o \in Ops, Call(s, o) PROVE Started'
  <2>1. Number(s) \in 1..MaxOps /\ UNCHANGED outcome
    BY <1>0, <1>1, MaxOpsAssumption DEF Call, MayCall, Number
  <2>2. \A q \in Senders : q # s => pc'[q] = pc[q]
    BY <1>0, <1>1 DEF Call
  <2>. QED BY <2>1, <2>2 DEF Started, Number
<1>2. ASSUME NEW s \in Senders, NEW r, Return(s, r) PROVE Started'
  BY <1>0, <1>2 DEF Return, Started, Number
<1>3. ASSUME NEW s \in Senders, pc[s] \notin Free,
             \E l \in {"assign", "push", "sent"} : pc' = [pc EXCEPT ![s] = l],
             UNCHANGED outcome
      PROVE  Started'
  BY <1>0, <1>3 DEF Started, Number
<1>4. CASE UNCHANGED <<pc, outcome>>
  BY <1>4 DEF Started, Number
<1>5. ASSUME NEW s \in Senders, SenderStep(s) PROVE Started'
  <2>1. ASSUME NEW o \in Ops, Reject(s, o) PROVE Started'
    BY <1>2, <2>1 DEF Reject
  <2>2. ASSUME WaitTimeout(s) \/ PushClosed(s) \/ PushTimeout(s) \/ TryPush(s) \/ OnMessageSent(s)
               \/ DropSend(s)
        PROVE  \E r : Return(s, r)
    BY <2>2 DEF WaitTimeout, PushClosed, PushTimeout, TryPush, OnMessageSent, DropSend
  <2>3. ASSUME Granted(s) \/ AssignSequence(s) \/ Push(s) PROVE Started'
    BY <1>3, <2>3 DEF Granted, AssignSequence, Push
  <2>4. CASE WaitStep(s)
    BY <1>4, <2>4 DEF WaitStep, chVars
  <2>5. CASE DropSender(s)
    BY <1>0, <2>5 DEF DropSender, Started, Number
  <2>. QED BY <1>1, <1>2, <1>5, <2>1, <2>2, <2>3, <2>4, <2>5 DEF SenderStep
<1>6. ASSUME ReceiverStep \/ Close \/ DropReceiver \/ UNCHANGED vars
      PROVE  UNCHANGED <<pc, outcome>>
  BY <1>6 DEF ReceiverStep, Take, Panic, OnMessageReceived, NotifySender, ReceiveEnd, Close,
     DropReceiver,
     vars, chVars
<1>. QED BY <1>4, <1>5, <1>6 DEF Next

LEMMA StartedAlways == Spec => []Started
<1>1. Init => Started
  BY DEF Init, Started
<1>. QED BY <1>1, StartedKept, Inductive, PTL DEF Spec

-----------------------------------------------------------------------------
(***************************************************************************)
(* Every step is a step of the abstract channel or a stutter.              *)
(***************************************************************************)
LEMMA PushAccepts ==
    ASSUME IndInv, Started, NEW s \in Senders, pc[s] = "push",
           rx = "open", Len(queue) < Buffer, queue' = Append(queue, EnvelopeOf(s)),
           UNCHANGED <<delivered, rx>>
    PROVE  Fifo!Accept(s, Number(s))
<1>0. /\ queue \in Seq(Envelope) /\ delivered \in Seq(Envelope)
      /\ EnvelopeOf(s) \in Envelope
  BY EnvelopeType, OpsAssumption DEF IndInv, TypeOK, InCall
<1>1. Messages(queue') = Append(Messages(queue), <<s, Number(s)>>)
  BY <1>0, MessagesAppend DEF EnvelopeOf
<1>2. ASSUME NEW log \in {queue, delivered}, NEW i \in DOMAIN Messages(log),
             Messages(log)[i][1] = s
      PROVE  Messages(log)[i][2] < Number(s)
  <2>1. /\ i \in DOMAIN log /\ log[i].from = s
        /\ Messages(log)[i][2] = log[i].num
    BY <1>2 DEF Messages
  <2>2. Settled(log[i])
    BY <2>1 DEF IndInv, OrderInv, AllSettled
  <2>3. Len(outcome[s]) \in Nat
    BY DEF IndInv, TypeOK
  <2>. QED BY <2>1, <2>2, <2>3 DEF Settled, Number
<1>3. Fifo!IsNext(s, Number(s))
  BY <1>2 DEF Fifo!IsNext
<1>4. Len(Messages(queue)) < Buffer
  BY <1>0, MessagesIsSeq
<1>. QED BY <1>1, <1>3, <1>4 DEF Fifo!Accept

LEMMA TakeDelivers ==
    ASSUME IndInv, NEW r \in Receives, Take(r)
    PROVE  Fifo!Deliver
<1>0. /\ queue \in Seq(Envelope) /\ delivered \in Seq(Envelope) /\ queue # <<>>
      /\ Head(queue) \in Envelope
  BY HeadTailType DEF IndInv, TypeOK, Take
<1>1. /\ Messages(queue) # <<>>
      /\ Head(Messages(queue)) = <<Head(queue).from, Head(queue).num>>
      /\ Messages(Tail(queue)) = Tail(Messages(queue))
  BY <1>0, MessagesTail
<1>2. Messages(delivered') = Append(Messages(delivered), Head(Messages(queue)))
  BY <1>0, <1>1, MessagesAppend DEF Take
<1>3. UNCHANGED rx /\ queue' = Tail(queue)
  BY DEF Take
<1>. QED BY <1>1, <1>2, <1>3 DEF Fifo!Deliver

LEMMA StepRefines ==
    IndInv /\ Started /\ [Next]_vars => [Fifo!Next]_<<Messages(queue), Messages(delivered), rx = "open">>
<1>. DEFINE fifo == <<Messages(queue), Messages(delivered), rx = "open">>
<1>. SUFFICES ASSUME IndInv, Started, [Next]_vars
              PROVE  Fifo!Next \/ UNCHANGED fifo
  OBVIOUS
<1>1. CASE UNCHANGED <<queue, delivered, rx>>
  BY <1>1
<1>2. ASSUME NEW s \in Senders, Push(s) \/ TryPush(s)
      PROVE  Fifo!Next \/ UNCHANGED fifo
  <2>1. CASE UNCHANGED queue
    BY <1>1, <1>2, <2>1 DEF Push, TryPush
  <2>2. CASE queue' = Append(queue, EnvelopeOf(s)) /\ Len(queue) < Buffer
    <3>1. Fifo!Accept(s, Number(s))
      BY <1>2, <2>2, PushAccepts DEF Push, TryPush
    <3>2. Number(s) \in 1..MaxOps
      BY <1>2 DEF Started, Push, TryPush
    <3>. QED BY <3>1, <3>2 DEF Fifo!Next
  <2>. QED BY <1>2, <2>1, <2>2 DEF Push, TryPush
<1>3. ASSUME NEW r \in Receives, Take(r) PROVE Fifo!Next
  BY <1>3, TakeDelivers DEF Fifo!Next
<1>4. ASSUME \/ \E r \in Receives : Panic(r)
             \/ Close \/ DropReceiver
      PROVE  Fifo!Next
  <2>1. rx' # "open" /\ queue' \in {queue, <<>>} /\ UNCHANGED delivered
    BY <1>4 DEF Panic, Close, DropReceiver
  <2>2. Messages(<<>>) = <<>>
    BY DEF Messages
  <2>3. Messages(queue') \in {Messages(queue), <<>>} /\ UNCHANGED Messages(delivered)
    BY <2>1, <2>2
  <2>4. (rx' = "open") = FALSE
    BY <2>1
  <2>. QED BY <2>3, <2>4 DEF Fifo!Next, Fifo!Shut
<1>5. ASSUME NEW s \in Senders, SenderStep(s)
      PROVE  Push(s) \/ TryPush(s) \/ UNCHANGED <<queue, delivered, rx>>
  BY <1>5 DEF SenderStep, Reject, Call, WaitStep, Granted, WaitTimeout, AssignSequence,
     PushClosed, PushTimeout, OnMessageSent, DropSend, DropSender, chVars
<1>6. ASSUME OnMessageReceived \/ NotifySender \/ ReceiveEnd \/ UNCHANGED vars
      PROVE  UNCHANGED <<queue, delivered, rx>>
  BY <1>6 DEF OnMessageReceived, NotifySender, ReceiveEnd, vars, chVars
<1>. QED BY <1>1, <1>2, <1>3, <1>4, <1>5, <1>6 DEF Next, ReceiverStep

\* The channel implements the abstract FIFO channel: what its clones and its
\* receiver do is a bounded queue that loses, repeats and reorders nothing.
THEOREM Refinement == Spec => ImplementsFifo
<1>1. Init => Fifo!Init
  <2>1. Messages(<<>>) = <<>>
    BY DEF Messages
  <2>2. ASSUME Init PROVE queue = <<>> /\ delivered = <<>> /\ (rx = "open") = TRUE
    BY <2>2 DEF Init
  <2>. QED BY <2>1, <2>2 DEF Fifo!Init
<1>. QED
  BY <1>1, StepRefines, StartedAlways, Inductive, PTL
  DEF Spec, ImplementsFifo, Fifo!Spec, Fifo!fifoVars
=============================================================================
