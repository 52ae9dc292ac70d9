------------------------------ MODULE RpcProofs ------------------------------
(***************************************************************************)
(* Proofs about module Rpc, for any set of callers of either kind, any     *)
(* capacity of the channels and any number of calls.                       *)
(***************************************************************************)
EXTENDS RpcProperties, TLAPS

LEMMA InitInv == Init => IndInv
<1>. SUFFICES ASSUME Init PROVE IndInv
  OBVIOUS
<1>1. TypeOK
  BY CapacityAssumption DEF Init, TypeOK
<1>2. IdsInv /\ MessagesInv /\ PendingInv /\ AnswerInv /\ PendingOwned
  BY DEF Init, IdsInv, MessagesInv, PendingInv, AnswerInv, PendingOwned
<1>. QED BY <1>1, <1>2 DEF IndInv

-----------------------------------------------------------------------------
(***************************************************************************)
(* Sequences                                                               *)
(***************************************************************************)
LEMMA AppendMessage ==
    ASSUME NEW S, NEW q \in Seq(S), NEW e \in S
    PROVE  /\ Append(q, e) \in Seq(S)
           /\ Len(Append(q, e)) = Len(q) + 1
           /\ Len(q) \in Nat
           /\ \A k \in DOMAIN Append(q, e) :
                 (k \in DOMAIN q /\ Append(q, e)[k] = q[k]) \/ Append(q, e)[k] = e
OBVIOUS

LEMMA TakeHead ==
    ASSUME NEW S, NEW q \in Seq(S), q # <<>>
    PROVE  /\ Head(q) \in S /\ Head(q) = q[1] /\ 1 \in DOMAIN q
           /\ Tail(q) \in Seq(S)
           /\ Len(Tail(q)) <= Len(q)
           /\ \A k \in DOMAIN Tail(q) : k + 1 \in DOMAIN q /\ Tail(q)[k] = q[k + 1]
OBVIOUS

LEMMA EmptyOrSame ==
    ASSUME NEW S, NEW q \in Seq(S), NEW r, r = <<>> \/ r = q
    PROVE  r \in Seq(S) /\ Len(r) <= Len(q)
<1>1. CASE r = <<>>
  BY <1>1
<1>2. CASE r = q
  BY <1>2
<1>. QED BY <1>1, <1>2

LEMMA Singleton ==
    ASSUME NEW S, NEW e \in S
    PROVE  /\ <<e>> \in Seq(S) /\ Len(<<e>>) = 1
           /\ \A k \in DOMAIN <<e>> : <<e>>[k] = e
OBVIOUS

-----------------------------------------------------------------------------
(***************************************************************************)
(* Type correctness                                                        *)
(***************************************************************************)
LEMMA NextType == TypeOK /\ IdsInv /\ [Next]_vars => TypeOK'
<1>. SUFFICES ASSUME TypeOK, IdsInv, [Next]_vars PROVE TypeOK'
  OBVIOUS
<1>. USE CapacityAssumption DEF endVars, routerVars, callVars
<1>1. ASSUME NEW c \in Callers, Start(c) \/ Room(c) PROVE TypeOK'
  <2>0. NextId(c) \/ UNCHANGED <<nextId, id>>
    BY <1>1 DEF Start, Room
  <2>1. nextId' \in Nat \ {0} /\ id' \in [Callers -> Nat]
    BY <2>0 DEF TypeOK, NextId
  <2>3. pc' \in [Callers -> {"idle", "full", "send", "register", "wait", "cancel"}]
    BY <1>1 DEF TypeOK, Start, Room
  <2>2. UNCHANGED <<answer, pending, cancels, requests, responses, calls, orphans,
                    endVars, routerVars>>
    BY <1>1 DEF Start, Room
  <2>. QED BY <2>1, <2>2, <2>3 DEF TypeOK
<1>2. ASSUME NEW c \in Callers, Send(c) PROVE TypeOK'
  <2>1. Request(c) \in Message
    BY <1>2 DEF Send, Request, Payload, TypeOK, IdsInv, Message
  <2>2. /\ requests' = Append(requests, Request(c))
        /\ requests \in Seq(Message) /\ Len(requests) < Capacity
    BY <1>2 DEF Send, TypeOK
  <2>3. requests' \in Seq(Message) /\ Len(requests') <= Capacity
    BY <2>1, <2>2, AppendMessage
  <2>. QED BY <1>2, <2>3 DEF Send, TypeOK
<1>3. ASSUME NEW c \in Callers, Return(c) PROVE
        /\ pc' \in [Callers -> {"idle", "full", "send", "register", "wait", "cancel"}]
        /\ id' \in [Callers -> Nat]
        /\ answer' \in [Callers -> Seq(Callers \X (Nat \ {0}))]
        /\ calls' \in [Callers -> Nat]
  BY <1>3 DEF Return, TypeOK
<1>4. ASSUME NEW c \in Callers, SendClosed(c) \/ Answered(c) PROVE TypeOK'
  <2>. Return(c)
    BY <1>4 DEF SendClosed, Answered
  <2>. QED BY <1>3, <1>4 DEF SendClosed, Answered, TypeOK
<1>5. ASSUME NEW c \in Callers, RegisterCall(c) PROVE TypeOK'
  BY <1>5 DEF RegisterCall, Register, Without, TypeOK
<1>6. ASSUME NEW c \in Callers, Timeout(c) PROVE TypeOK'
  <2>1. CASE Return(c) /\ cancels' = cancels \cup {id[c]}
    BY <1>3, <1>6, <2>1 DEF Timeout, TypeOK
  <2>2. CASE c \notin Generated
    BY <1>6, <2>2 DEF Timeout, TypeOK
  <2>. QED BY <1>6, <2>1, <2>2 DEF Timeout
<1>7. ASSUME NEW c \in Callers, CancelCall(c) \/ DropCall(c) PROVE TypeOK'
  <2>. Return(c)
    BY <1>7 DEF CancelCall, DropCall
  <2>. QED BY <1>3, <1>7 DEF CancelCall, DropCall, Without, PendingIds, TypeOK
<1>8. ASSUME NEW i \in cancels, RunCancel(i) PROVE TypeOK'
  BY <1>8 DEF RunCancel, Without, TypeOK
<1>9. CASE ReceiveRequest
  <2>1. /\ Head(requests) \in Message /\ Tail(requests) \in Seq(Message)
        /\ Len(Tail(requests)) <= Capacity
    BY <1>9, TakeHead DEF ReceiveRequest, TypeOK
  <2>. QED BY <1>9, <2>1 DEF ReceiveRequest, TypeOK
<1>10. ASSUME NEW m \in handling, SendResponse(m) PROVE TypeOK'
  <2>1. /\ responses' = Append(responses, m) /\ m \in Message
        /\ responses \in Seq(Message) /\ Len(responses) < Capacity
    BY <1>10 DEF SendResponse, TypeOK
  <2>2. responses' \in Seq(Message) /\ Len(responses') <= Capacity
    BY <2>1, AppendMessage
  <2>. QED BY <1>10, <2>2 DEF SendResponse, TypeOK
<1>11. CASE ServerDown \/ ServerEnd \/ DropClient
  <2>0. requests' = <<>> \/ requests' = requests
    BY <1>11 DEF ServerDown, ServerEnd, DropClient
  <2>1. requests' \in Seq(Message) /\ Len(requests') <= Capacity
    <3>1. requests \in Seq(Message) /\ Len(requests) <= Capacity
      BY DEF TypeOK
    <3>2. requests' \in Seq(Message) /\ Len(requests') <= Len(requests)
      BY <2>0, <3>1, EmptyOrSame
    <3>3. Len(requests) \in Nat /\ Len(requests') \in Nat
      BY <3>1, <3>2
    <3>. QED BY <3>1, <3>2, <3>3
  <2>2. /\ client' \in {"up", "gone"} /\ server' \in {"up", "down"}
        /\ handling' \subseteq Message
    BY <1>11 DEF ServerDown, ServerEnd, DropClient, TypeOK
  <2>. QED BY <1>11, <2>1, <2>2 DEF ServerDown, ServerEnd, DropClient, TypeOK
<1>12. CASE RouterReceive
  <2>1. /\ Head(responses) \in Message /\ Tail(responses) \in Seq(Message)
        /\ Len(Tail(responses)) <= Capacity
    BY <1>12, TakeHead DEF RouterReceive, TypeOK
  <2>2. inHand' \in Seq(Message) /\ Len(inHand') <= 1
    BY <1>12, <2>1, Singleton DEF RouterReceive
  <2>. QED BY <1>12, <2>1, <2>2 DEF RouterReceive, TypeOK
<1>13. CASE Complete
  <2>1. inHand[1] \in Message
    BY <1>13, TakeHead DEF Complete, TypeOK
  <2>2. answer' \in [Callers -> Seq(Callers \X (Nat \ {0}))]
    <3>1. CASE answer' = answer
      BY <3>1 DEF TypeOK
    <3>2. ASSUME NEW p \in pending,
                 answer' = [answer EXCEPT ![p[2]] = Append(@, inHand[1].payload)]
          PROVE  answer' \in [Callers -> Seq(Callers \X (Nat \ {0}))]
      <4>1. p[2] \in Callers /\ answer[p[2]] \in Seq(Callers \X (Nat \ {0}))
        BY DEF TypeOK
      <4>2. Append(answer[p[2]], inHand[1].payload) \in Seq(Callers \X (Nat \ {0}))
        BY <2>1, <4>1, AppendMessage DEF Message
      <4>. QED BY <3>2, <4>1, <4>2 DEF TypeOK
    <3>. QED BY <1>13, <3>1, <3>2 DEF Complete
  <2>. QED BY <1>13, <2>2 DEF Complete, Without, TypeOK
<1>14. CASE RouterStop
  BY <1>14 DEF RouterStop, TypeOK
<1>15. CASE UNCHANGED vars
  BY <1>15 DEF vars, TypeOK
<1>. QED
  BY <1>1, <1>2, <1>4, <1>5, <1>6, <1>7, <1>8, <1>9, <1>10, <1>11, <1>12, <1>13, <1>14,
     <1>15 DEF Next, CallerStep, ServerStep, RouterStep

-----------------------------------------------------------------------------
(***************************************************************************)
(* What each action does to the caller's variables, in one of four ways:   *)
(* it takes the next id, it returns, it moves on, or it does nothing.      *)
(***************************************************************************)
TakesId(c) ==
    /\ pc[c] \in {"idle", "full"} /\ NextId(c)
    /\ pc' = [pc EXCEPT ![c] = "send"]
    /\ UNCHANGED <<answer, calls, pending>>

Returns(c) == pc[c] # "idle" /\ Return(c) /\ UNCHANGED nextId

Moves(c) ==
    /\ \/ pc[c] = "idle" /\ pc' = [pc EXCEPT ![c] = "full"]
       \/ pc[c] = "send" /\ pc' = [pc EXCEPT ![c] = "register"]
       \/ pc[c] = "register" /\ pc' = [pc EXCEPT ![c] = "wait"]
       \/ pc[c] = "wait" /\ answer[c] = <<>> /\ pc' = [pc EXCEPT ![c] = "cancel"]
    /\ UNCHANGED <<nextId, id, answer, calls>>

Stays == UNCHANGED <<nextId, pc, id, calls>>

LEMMA CallerChange ==
    ASSUME [Next]_vars
    PROVE  (\E c \in Callers : TakesId(c) \/ Returns(c) \/ Moves(c)) \/ Stays
<1>1. ASSUME NEW c \in Callers, CallerStep(c)
      PROVE  TakesId(c) \/ Returns(c) \/ Moves(c)
  <2>1. ASSUME Start(c) \/ Room(c) PROVE TakesId(c) \/ Moves(c)
    BY <2>1 DEF Start, Room, TakesId, Moves
  <2>2. ASSUME Send(c) \/ RegisterCall(c) PROVE Moves(c)
    BY <2>2 DEF Send, RegisterCall, Moves
  <2>3. ASSUME SendClosed(c) \/ Answered(c) \/ CancelCall(c) \/ DropCall(c)
        PROVE  Returns(c)
    BY <2>3 DEF SendClosed, Answered, CancelCall, DropCall, Returns
  <2>4. ASSUME Timeout(c) PROVE Returns(c) \/ Moves(c)
    BY <2>4 DEF Timeout, Returns, Moves
  <2>. QED BY <1>1, <2>1, <2>2, <2>3, <2>4 DEF CallerStep
<1>2. ASSUME \/ \E i \in cancels : RunCancel(i)
             \/ ServerStep \/ ServerDown \/ DropClient \/ RouterStep \/ UNCHANGED vars
      PROVE  Stays
  BY <1>2 DEF RunCancel, ServerStep, ServerDown, ServerEnd, DropClient, RouterStep,
     ReceiveRequest, SendResponse, RouterReceive, Complete, RouterStop, vars, callVars, Stays
<1>. QED BY <1>1, <1>2 DEF Next

LEMMA NextIds == TypeOK /\ IdsInv /\ [Next]_vars => IdsInv'
<1>. SUFFICES ASSUME TypeOK, IdsInv, [Next]_vars PROVE IdsInv'
  OBVIOUS
<1>0. /\ nextId \in Nat \ {0} /\ id \in [Callers -> Nat]
      /\ pc \in [Callers -> {"idle", "full", "send", "register", "wait", "cancel"}]
  BY DEF TypeOK
<1>1. ASSUME NEW c \in Callers, TakesId(c) PROVE IdsInv'
  BY <1>0, <1>1 DEF TakesId, NextId, IdsInv
<1>2. ASSUME NEW c \in Callers, Returns(c) PROVE IdsInv'
  BY <1>0, <1>2 DEF Returns, Return, IdsInv
<1>3. ASSUME NEW c \in Callers, Moves(c) PROVE IdsInv'
  BY <1>0, <1>3 DEF Moves, IdsInv
<1>4. CASE Stays
  BY <1>4 DEF Stays, IdsInv
<1>. QED BY <1>1, <1>2, <1>3, <1>4, CallerChange

-----------------------------------------------------------------------------
(***************************************************************************)
(* Messages                                                                *)
(***************************************************************************)

\* No step takes a message from the call whose id it carries.
LEMMA OwnedKept ==
    ASSUME TypeOK, IdsInv, [Next]_vars, NEW m \in Message, Owned(m)
    PROVE  Owned(m)'
<1>0. /\ nextId \in Nat \ {0} /\ id \in [Callers -> Nat] /\ calls \in [Callers -> Nat]
      /\ m.corr \in Nat \ {0}
  BY DEF TypeOK, Message
<1>1. ASSUME NEW c \in Callers, TakesId(c) PROVE Owned(m)'
  BY <1>0, <1>1 DEF TakesId, NextId, Owned, Payload
<1>2. ASSUME NEW c \in Callers, Returns(c) PROVE Owned(m)'
  BY <1>0, <1>2 DEF Returns, Return, Owned, Payload
<1>3. CASE Stays \/ \E c \in Callers : Moves(c)
  BY <1>3 DEF Stays, Moves, Owned, Payload
<1>. QED BY <1>1, <1>2, <1>3, CallerChange

LEMMA NextMessages == TypeOK /\ IdsInv /\ MessagesInv /\ [Next]_vars => MessagesInv'
<1>. SUFFICES ASSUME TypeOK, IdsInv, MessagesInv, [Next]_vars PROVE MessagesInv'
  OBVIOUS
<1>. USE DEF endVars, routerVars
<1>0. /\ requests \in Seq(Message) /\ responses \in Seq(Message) /\ inHand \in Seq(Message)
      /\ handling \subseteq Message
  BY DEF TypeOK
<1>. DEFINE Kept(m) == m \in Message /\ Owned(m)
            All(q) == \A k \in DOMAIN q : Kept(q[k])
<1>1. All(requests) /\ All(responses) /\ All(inHand) /\ \A m \in handling : Kept(m)
  BY <1>0 DEF MessagesInv
<1>2. ASSUME NEW m, Kept(m) PROVE Owned(m)'
  BY <1>2, OwnedKept
<1>. DEFINE Goal == /\ All(requests') /\ All(responses') /\ All(inHand')
                    /\ \A m \in handling' : Kept(m)
<1>3. SUFFICES Goal
  BY <1>2 DEF MessagesInv
<1>. HIDE DEF Kept
<1>4. CASE UNCHANGED <<requests, responses, handling, inHand>>
  BY <1>1, <1>4
<1>5. ASSUME NEW c \in Callers, Send(c) PROVE Goal
  <2>1. Kept(Request(c))
    <3>1. /\ id[c] \in Nat \ {0} /\ id[c] < nextId
          /\ \A d \in Callers : id[d] = id[c] => d = c
      BY <1>5 DEF Send, TypeOK, IdsInv
    <3>2. Request(c) \in Message
      <4>1. calls[c] \in Nat
        BY DEF TypeOK
      <4>. QED BY <3>1, <4>1 DEF Request, Payload, Message
    <3>3. Owned(Request(c))
      BY <3>1 DEF Request, Owned
    <3>. QED BY <3>2, <3>3 DEF Kept
  <2>2. All(requests')
    <3>1. requests' = Append(requests, Request(c)) /\ Request(c) \in Message
      BY <1>5, <2>1 DEF Send, Kept
    <3>. QED BY <1>0, <1>1, <2>1, <3>1, AppendMessage
  <2>. QED BY <1>1, <1>5, <2>2 DEF Send
<1>6. CASE ReceiveRequest
  <2>1. All(requests') /\ Kept(Head(requests))
    BY <1>0, <1>1, <1>6, TakeHead DEF ReceiveRequest
  <2>. QED BY <1>1, <1>6, <2>1 DEF ReceiveRequest
<1>7. ASSUME NEW m \in handling, SendResponse(m) PROVE Goal
  <2>1. All(responses')
    <3>1. responses' = Append(responses, m) /\ m \in Message /\ Kept(m)
      BY <1>0, <1>1, <1>7 DEF SendResponse
    <3>. QED BY <1>0, <1>1, <3>1, AppendMessage
  <2>. QED BY <1>1, <1>7, <2>1 DEF SendResponse
<1>8. CASE ServerDown \/ ServerEnd \/ DropClient
  BY <1>1, <1>8 DEF ServerDown, ServerEnd, DropClient
<1>9. CASE RouterReceive
  <2>1. All(responses') /\ Kept(Head(responses)) /\ Head(responses) \in Message
    BY <1>0, <1>1, <1>9, TakeHead DEF RouterReceive
  <2>2. All(inHand')
    BY <1>9, <2>1, Singleton DEF RouterReceive
  <2>. QED BY <1>1, <1>9, <2>1, <2>2 DEF RouterReceive
<1>10. CASE Complete
  BY <1>1, <1>10 DEF Complete
<1>11. CASE /\ \/ \E c \in Callers : CallerStep(c) /\ ~Send(c)
               \/ \E i \in cancels : RunCancel(i)
               \/ RouterStop \/ UNCHANGED vars
  BY <1>4, <1>11 DEF CallerStep, Start, Room, SendClosed, RegisterCall, Answered, Timeout,
     CancelCall, DropCall, RunCancel, RouterStop, vars
<1>. QED
  BY <1>5, <1>6, <1>7, <1>8, <1>9, <1>10, <1>11 DEF Next, CallerStep, ServerStep, RouterStep

-----------------------------------------------------------------------------
(***************************************************************************)
(* The table of pending requests                                           *)
(***************************************************************************)

\* Only RegisterCall adds to the table.
LEMMA PendingChange ==
    ASSUME [Next]_vars
    PROVE  pending' \subseteq pending \/ \E c \in Callers : RegisterCall(c)
<1>1. ASSUME NEW c \in Callers, CallerStep(c) PROVE pending' \subseteq pending \/ RegisterCall(c)
  BY <1>1 DEF CallerStep, Start, Room, Send, SendClosed, Answered, Timeout, CancelCall,
     DropCall, Without
<1>2. ASSUME \/ \E i \in cancels : RunCancel(i)
             \/ ServerStep \/ ServerDown \/ DropClient \/ RouterStep \/ UNCHANGED vars
      PROVE  pending' \subseteq pending
  BY <1>2 DEF RunCancel, ServerStep, ServerDown, ServerEnd, DropClient, RouterStep,
     ReceiveRequest, SendResponse, RouterReceive, Complete, RouterStop, vars, Without
<1>. QED BY <1>1, <1>2 DEF Next

LEMMA NextPending == TypeOK /\ IdsInv /\ PendingInv /\ [Next]_vars => PendingInv'
<1>. SUFFICES ASSUME TypeOK, IdsInv, PendingInv, [Next]_vars,
                     NEW p \in pending'
              PROVE  /\ p[1] # 0 /\ p[1] < nextId'
                     /\ \A c \in Callers : id'[c] = p[1] =>
                            c = p[2] /\ pc'[c] \in {"wait", "cancel"}
  BY DEF PendingInv
<1>0. /\ nextId \in Nat \ {0} /\ id \in [Callers -> Nat] /\ pending \subseteq Nat \X Callers
      /\ pc \in [Callers -> {"idle", "full", "send", "register", "wait", "cancel"}]
  BY DEF TypeOK
<1>1. CASE p \in pending
  <2>0. /\ p[1] \in Nat \ {0} /\ p[1] < nextId
        /\ \A c \in Callers : id[c] = p[1] => c = p[2] /\ pc[c] \in {"wait", "cancel"}
    BY <1>0, <1>1 DEF PendingInv
  <2>1. ASSUME NEW c \in Callers, TakesId(c)
        PROVE  /\ p[1] < nextId'
               /\ \A d \in Callers : id'[d] = p[1] =>
                      d = p[2] /\ pc'[d] \in {"wait", "cancel"}
    BY <1>0, <2>0, <2>1 DEF TakesId, NextId
  <2>2. ASSUME NEW c \in Callers, Returns(c)
        PROVE  /\ p[1] < nextId'
               /\ \A d \in Callers : id'[d] = p[1] =>
                      d = p[2] /\ pc'[d] \in {"wait", "cancel"}
    BY <1>0, <2>0, <2>2 DEF Returns, Return
  <2>3. ASSUME NEW c \in Callers, Moves(c)
        PROVE  /\ p[1] < nextId'
               /\ \A d \in Callers : id'[d] = p[1] =>
                      d = p[2] /\ pc'[d] \in {"wait", "cancel"}
    BY <1>0, <2>0, <2>3 DEF Moves
  <2>4. CASE Stays
    BY <2>0, <2>4 DEF Stays
  <2>. QED BY <2>0, <2>1, <2>2, <2>3, <2>4, CallerChange
<1>2. ASSUME NEW c \in Callers, RegisterCall(c), p \notin pending
      PROVE  /\ p[1] # 0 /\ p[1] < nextId'
             /\ \A d \in Callers : id'[d] = p[1] =>
                    d = p[2] /\ pc'[d] \in {"wait", "cancel"}
  <2>1. p = <<id[c], c>> /\ pc[c] = "register"
    BY <1>2 DEF RegisterCall, Register, Without
  <2>2. id[c] # 0 /\ id[c] < nextId /\ \A d \in Callers : id[d] = id[c] => d = c
    BY <2>1 DEF IdsInv
  <2>. QED BY <1>0, <1>2, <2>1, <2>2 DEF RegisterCall
<1>. QED BY <1>1, <1>2, PendingChange

LEMMA NextOwned ==
    TypeOK /\ IdsInv /\ PendingInv /\ AnswerInv /\ PendingOwned /\ [Next]_vars => PendingOwned'
<1>. SUFFICES ASSUME TypeOK, IdsInv, PendingInv, AnswerInv, PendingOwned, [Next]_vars
              PROVE  PendingOwned'
  OBVIOUS
<1>0. /\ id \in [Callers -> Nat] /\ pending \subseteq Nat \X Callers
      /\ pc \in [Callers -> {"idle", "full", "send", "register", "wait", "cancel"}]
  BY DEF TypeOK
<1>1. \A p, q \in pending' : p[1] = q[1] => p = q
  <2>1. CASE pending' \subseteq pending
    BY <2>1 DEF PendingOwned
  <2>2. ASSUME NEW c \in Callers, RegisterCall(c) PROVE \A p, q \in pending' : p[1] = q[1] => p = q
    BY <2>2 DEF RegisterCall, Register, Without, PendingOwned
  <2>. QED BY <2>1, <2>2, PendingChange
<1>2. ASSUME NEW p \in pending'
      PROVE  \/ pc'[p[2]] \in {"wait", "cancel"} /\ id'[p[2]] = p[1]
             \/ p[1] \in cancels'
             \/ p[1] \in orphans'
  <2>. DEFINE Has(d) == pc[d] \in {"wait", "cancel"} /\ id[d] = p[1]
              HasNext(d) == pc'[d] \in {"wait", "cancel"} /\ id'[d] = p[1]
  <2>1. CASE \E c \in Callers : RegisterCall(c) /\ p \notin pending
    <3>1. PICK c \in Callers : RegisterCall(c) /\ p \notin pending
      BY <2>1
    <3>2. p = <<id[c], c>>
      BY <3>1 DEF RegisterCall, Register, Without
    <3>. QED BY <1>0, <3>1, <3>2 DEF RegisterCall
  <2>2. CASE p \in pending
    <3>0. /\ p[1] \in Nat /\ p[2] \in Callers
          /\ Has(p[2]) \/ p[1] \in cancels \/ p[1] \in orphans
      BY <1>0, <2>2 DEF PendingOwned
    <3>1. ASSUME NEW c \in Callers, \/ Start(c) \/ Room(c) \/ Send(c) \/ SendClosed(c)
                                    \/ RegisterCall(c)
          PROVE  HasNext(p[2]) \/ p[1] \in cancels' \/ p[1] \in orphans'
      BY <1>0, <3>0, <3>1 DEF Start, Room, NextId, Send, SendClosed, RegisterCall, Return
    <3>2. ASSUME NEW c \in Callers, Answered(c)
          PROVE  HasNext(p[2]) \/ p[1] \in cancels' \/ p[1] \in orphans'
      <4>1. p[1] # id[c]
        BY <2>2, <3>2 DEF Answered, AnswerInv
      <4>. QED BY <1>0, <3>0, <3>2, <4>1 DEF Answered, Return
    <3>3. ASSUME NEW c \in Callers, Timeout(c)
          PROVE  HasNext(p[2]) \/ p[1] \in cancels' \/ p[1] \in orphans'
      BY <1>0, <3>0, <3>3 DEF Timeout, Return
    <3>4. ASSUME NEW c \in Callers, CancelCall(c)
          PROVE  HasNext(p[2]) \/ p[1] \in cancels' \/ p[1] \in orphans'
      <4>1. p[1] # id[c]
        BY <3>4 DEF CancelCall, Without
      <4>. QED BY <1>0, <3>0, <3>4, <4>1 DEF CancelCall, Return
    <3>5. ASSUME NEW c \in Callers, DropCall(c)
          PROVE  HasNext(p[2]) \/ p[1] \in cancels' \/ p[1] \in orphans'
      <4>1. p[1] \in PendingIds
        BY <2>2 DEF PendingIds
      <4>. QED BY <1>0, <3>0, <3>5, <4>1 DEF DropCall, Return
    <3>6. ASSUME NEW i \in cancels, RunCancel(i)
          PROVE  HasNext(p[2]) \/ p[1] \in cancels' \/ p[1] \in orphans'
      <4>1. p[1] # i
        BY <3>6 DEF RunCancel, Without
      <4>. QED BY <3>0, <3>6, <4>1 DEF RunCancel, callVars
    <3>7. ASSUME ServerStep \/ ServerDown \/ DropClient \/ RouterStep \/ UNCHANGED vars
          PROVE  HasNext(p[2]) \/ p[1] \in cancels' \/ p[1] \in orphans'
      BY <3>0, <3>7 DEF ServerStep, ServerDown, ServerEnd, DropClient, RouterStep,
         ReceiveRequest, SendResponse, RouterReceive, Complete, RouterStop, vars, callVars
    <3>. QED
      BY <3>1, <3>2, <3>3, <3>4, <3>5, <3>6, <3>7 DEF Next, CallerStep
  <2>. QED BY <2>1, <2>2, PendingChange
<1>. QED BY <1>1, <1>2 DEF PendingOwned

-----------------------------------------------------------------------------
(***************************************************************************)
(* Answers                                                                 *)
(***************************************************************************)
LEMMA NextAnswer ==
    TypeOK /\ IdsInv /\ MessagesInv /\ PendingInv /\ AnswerInv /\ [Next]_vars => AnswerInv'
<1>. SUFFICES ASSUME TypeOK, IdsInv, MessagesInv, PendingInv, AnswerInv, [Next]_vars,
                     NEW d \in Callers, answer'[d] # <<>>
              PROVE  /\ pc'[d] = "wait" /\ answer'[d] = <<Payload(d)>>'
                     /\ \A p \in pending' : p[1] # id'[d]
  BY DEF AnswerInv
<1>0. /\ id \in [Callers -> Nat] /\ pending \subseteq Nat \X Callers
      /\ pc \in [Callers -> {"idle", "full", "send", "register", "wait", "cancel"}]
      /\ answer \in [Callers -> Seq(Callers \X (Nat \ {0}))]
      /\ calls \in [Callers -> Nat]
  BY DEF TypeOK
<1>1. CASE Complete
  <2>. DEFINE m == inHand[1]
  <2>1. m \in Message /\ 1 \in DOMAIN inHand
    BY <1>1, TakeHead DEF Complete, TypeOK
  <2>2. Owned(m)
    BY <2>1 DEF MessagesInv
  <2>3. UNCHANGED <<pc, id, calls>> /\ pending' = Without(m.corr)
    BY <1>1 DEF Complete
  <2>4. CASE answer' = answer
    BY <2>3, <2>4 DEF AnswerInv, Payload, Without
  <2>5. ASSUME NEW p \in pending, p[1] = m.corr, pc[p[2]] = "wait", id[p[2]] = m.corr,
               answer' = [answer EXCEPT ![p[2]] = Append(@, m.payload)]
        PROVE  /\ pc'[d] = "wait" /\ answer'[d] = <<Payload(d)>>'
               /\ \A q \in pending' : q[1] # id'[d]
    <3>1. p[2] \in Callers
      BY <1>0
    <3>2. CASE d # p[2]
      BY <1>0, <2>3, <2>5, <3>1, <3>2 DEF AnswerInv, Payload, Without
    <3>3. CASE d = p[2]
      <4>1. answer[d] = <<>>
        BY <2>5, <3>3 DEF AnswerInv
      <4>2. m.payload = Payload(d)
        BY <2>2, <2>5, <3>3 DEF Owned
      <4>3. answer'[d] = <<Payload(d)>>
        BY <1>0, <2>5, <3>3, <4>1, <4>2
      <4>. QED BY <2>3, <2>5, <3>3, <4>3 DEF Payload, Without
    <3>. QED BY <3>2, <3>3
  <2>. QED BY <1>1, <2>4, <2>5 DEF Complete
<1>2. CASE UNCHANGED <<pc, id, answer, calls>> /\ pending' \subseteq pending
  BY <1>2 DEF AnswerInv, Payload
<1>3. ASSUME NEW c \in Callers, TakesId(c)
      PROVE  /\ pc'[d] = "wait" /\ answer'[d] = <<Payload(d)>>'
             /\ \A p \in pending' : p[1] # id'[d]
  BY <1>0, <1>3 DEF TakesId, NextId, AnswerInv, Payload
<1>4. ASSUME NEW c \in Callers, Returns(c), pending' \subseteq pending
      PROVE  /\ pc'[d] = "wait" /\ answer'[d] = <<Payload(d)>>'
             /\ \A p \in pending' : p[1] # id'[d]
  BY <1>0, <1>4 DEF Returns, Return, AnswerInv, Payload
<1>5. ASSUME NEW c \in Callers, Moves(c), pending' \subseteq pending
      PROVE  /\ pc'[d] = "wait" /\ answer'[d] = <<Payload(d)>>'
             /\ \A p \in pending' : p[1] # id'[d]
  BY <1>0, <1>5 DEF Moves, AnswerInv, Payload
<1>6. ASSUME NEW c \in Callers, RegisterCall(c)
      PROVE  /\ pc'[d] = "wait" /\ answer'[d] = <<Payload(d)>>'
             /\ \A p \in pending' : p[1] # id'[d]
  <2>1. d # c /\ pc[c] = "register" /\ answer[d] # <<>>
    BY <1>6 DEF RegisterCall, AnswerInv
  <2>2. id[c] # id[d]
    BY <2>1 DEF IdsInv
  <2>. QED BY <1>0, <1>6, <2>1, <2>2 DEF RegisterCall, Register, Without, AnswerInv, Payload
<1>7. ASSUME NEW c \in Callers, CallerStep(c)
      PROVE  \/ RegisterCall(c)
             \/ (TakesId(c) \/ Returns(c) \/ Moves(c)) /\ pending' \subseteq pending
  <2>1. ASSUME Start(c) \/ Room(c) PROVE (TakesId(c) \/ Moves(c)) /\ pending' \subseteq pending
    BY <2>1 DEF Start, Room, TakesId, Moves
  <2>2. ASSUME Send(c) PROVE Moves(c) /\ pending' \subseteq pending
    BY <2>2 DEF Send, Moves
  <2>3. ASSUME SendClosed(c) \/ Answered(c) \/ CancelCall(c) \/ DropCall(c)
        PROVE  Returns(c) /\ pending' \subseteq pending
    BY <2>3 DEF SendClosed, Answered, CancelCall, DropCall, Returns, Without
  <2>4. ASSUME Timeout(c) PROVE (Returns(c) \/ Moves(c)) /\ pending' \subseteq pending
    BY <2>4 DEF Timeout, Returns, Moves
  <2>. QED BY <1>7, <2>1, <2>2, <2>3, <2>4 DEF CallerStep
<1>8. ASSUME \/ \E i \in cancels : RunCancel(i)
             \/ ServerStep \/ ServerDown \/ DropClient
             \/ RouterReceive \/ RouterStop \/ UNCHANGED vars
      PROVE  UNCHANGED <<pc, id, answer, calls>> /\ pending' \subseteq pending
  BY <1>8 DEF RunCancel, ServerStep, ServerDown, ServerEnd, DropClient, ReceiveRequest,
     SendResponse, RouterReceive, RouterStop, vars, callVars, Without
<1>. QED
  BY <1>1, <1>2, <1>3, <1>4, <1>5, <1>6, <1>7, <1>8 DEF Next, RouterStep

-----------------------------------------------------------------------------
\* The inductive invariant holds in every reachable state.
THEOREM Inductive == Spec => []IndInv
<1>1. Init => IndInv
  BY InitInv
<1>2. IndInv /\ [Next]_vars => IndInv'
  BY NextType, NextIds, NextMessages, NextPending, NextOwned, NextAnswer DEF IndInv
<1>. QED BY <1>1, <1>2, PTL DEF Spec

\* The variables of a pair of channels and its callers keep their types, and
\* both queues their bounds.
THEOREM TypeCorrect == Spec => []TypeOK
<1>1. IndInv => TypeOK
  BY DEF IndInv
<1>. QED BY <1>1, Inductive, PTL

\* A call gets the response to its own request: correlation ids keep apart any
\* number of calls in flight, late responses and abandoned calls included.
THEOREM AnswersMatch == Spec => []RightAnswer
<1>1. IndInv => RightAnswer
  BY DEF IndInv, AnswerInv, RightAnswer
<1>. QED BY <1>1, Inductive, PTL

\* Only a call whose future was dropped can leave an entry of the pending table
\* behind.
THEOREM NoStrayEntries == Spec => []PendingOwned
<1>1. IndInv => PendingOwned
  BY DEF IndInv
<1>. QED BY <1>1, Inductive, PTL
=============================================================================
