---------------------------- MODULE RequestProofs ----------------------------
(***************************************************************************)
(* Proofs about the requests for channels of module Endpoint, for any      *)
(* number of requests and any bound of the system channel.                 *)
(***************************************************************************)
EXTENDS EndpointProofs

-----------------------------------------------------------------------------
(***************************************************************************)
(* Parts of a step                                                         *)
(***************************************************************************)
LEMMA AppendMessage ==
    ASSUME NEW S, NEW s \in Seq(S), NEW e \in S
    PROVE  /\ Append(s, e) \in Seq(S) /\ Len(Append(s, e)) = Len(s) + 1 /\ Len(s) \in Nat
           /\ \A j \in DOMAIN Append(s, e) :
                 (j \in DOMAIN s /\ Append(s, e)[j] = s[j]) \/ Append(s, e)[j] = e
OBVIOUS

LEMMA TakeHead ==
    ASSUME NEW S, NEW s \in Seq(S), s # <<>>
    PROVE  /\ Head(s) \in S /\ 1 \in DOMAIN s /\ Head(s) = s[1]
           /\ Tail(s) \in Seq(S) /\ Len(Tail(s)) <= Len(s)
           /\ \A j \in DOMAIN Tail(s) : j + 1 \in DOMAIN s /\ Tail(s)[j] = s[j + 1]
OBVIOUS

LEMMA IdleProgress == Idle \in Progress
BY DEF Idle, Progress, Nobody

\* A request that is under way has been counted.
LEMMA ActiveMade ==
    ASSUME RequestsType, NEW r \in Requests, req[r].at # "idle"
    PROVE  r \in 1..made
<1>1. made \in Nat /\ r \in Nat /\ r > 0
  BY RequestsAssumption DEF RequestsType, Requests
<1>2. ~(r > made)
  BY DEF RequestsType, Idle
<1>. QED BY <1>1, <1>2

\* What giving a request its answer changes.
LEMMA GivenOnly ==
    ASSUME RequestsType, NEW r \in 0..made, NEW answer \in {"ok", "no", "closed"},
           NEW by \in Requests \cup {Nobody}
    PROVE  /\ Given(r, answer, by) \in [Requests -> Progress]
           /\ \A q \in Requests :
                 /\ Given(r, answer, by)[q].at = req[q].at
                 /\ Given(r, answer, by)[q].id = req[q].id
                 /\ Given(r, answer, by)[q].local = req[q].local
                 /\ \/ Given(r, answer, by)[q] = req[q]
                    \/ /\ q = r /\ req[q].at # "idle"
                       /\ Given(r, answer, by)[q].answer = answer
                       /\ Given(r, answer, by)[q].by = by
<1>1. req \in [Requests -> Progress]
  BY DEF RequestsType
<1>2. CASE r # Nobody /\ req[r].at \notin Gone /\ req[r].answer = "none"
  <2>1. Given(r, answer, by) = [req EXCEPT ![r].answer = answer, ![r].by = by]
    BY <1>2 DEF Given
  <2>2. r \in Requests
    BY <1>2, RequestsAssumption DEF Requests, Nobody, RequestsType
  <2>. DEFINE g == Given(r, answer, by)
  <2>3. g \in [Requests -> Progress]
    <3>. DEFINE x == [req[r] EXCEPT !.answer = answer, !.by = by]
    <3>1. x \in Progress
      BY <1>1, <2>2 DEF Progress
    <3>2. g = [req EXCEPT ![r] = x]
      BY <1>1, <2>1, <2>2 DEF Progress
    <3>. HIDE DEF x, g
    <3>. QED BY <1>1, <2>2, <3>1, <3>2
  <2>4. \A q \in Requests : g[q].at = req[q].at /\ g[q].id = req[q].id /\ g[q].local = req[q].local
    BY <1>1, <2>1, <2>2 DEF Progress
  <2>5. g[r].answer = answer /\ g[r].by = by /\ \A q \in Requests \ {r} : g[q] = req[q]
    BY <1>1, <2>1, <2>2 DEF Progress
  <2>6. req[r].at # "idle"
    BY <1>2 DEF Gone
  <2>. QED BY <2>3, <2>4, <2>5, <2>6
<1>3. CASE ~(r # Nobody /\ req[r].at \notin Gone /\ req[r].answer = "none")
  <2>1. Given(r, answer, by) = req
    BY <1>3 DEF Given
  <2>. QED BY <1>1, <2>1
<1>. QED BY <1>2, <1>3

\* No step adds a request to those that an id has had, but the one that begins.
LEMMA UserFrame ==
    ASSUME UserInv, times' = times,
           \A i \in Ids : \A r \in Requests : User(i, r)' => User(i, r)
    PROVE  UserInv'
BY DEF UserInv

-----------------------------------------------------------------------------
(***************************************************************************)
(* A request begins                                                        *)
(***************************************************************************)
LEMMA BeginKeeps ==
    ASSUME RequestsInv, NEW r \in Requests, NEW i \in Ids, NEW local \in BOOLEAN,
           Begin(r, i, local)
    PROVE  /\ req' \in [Requests -> Progress] /\ made' = made + 1 /\ made' \in 0..MaxRequests
           /\ times' \in [Ids -> 0..made'] /\ pending \in [Ids -> 0..made']
           /\ \A q \in Requests : q > made' => req'[q] = Idle
           /\ \A q \in Requests : req'[q].at # "idle" => req'[q].id \in Ids
           /\ req[r] = Idle
           /\ req'[r].id = i /\ req'[r].local = local
           /\ \A q \in Requests \ {r} : req'[q] = req[q]
           /\ PendingInv' /\ UserInv' /\ AnswerInv' /\ PendingOwned'
<1>. USE DEF RequestsInv
<1>0. /\ made \in Nat /\ made <= MaxRequests /\ MaxRequests \in Nat
      /\ req \in [Requests -> Progress]
  BY RequestsAssumption DEF RequestsType
<1>1. r = made + 1 /\ made' = made + 1 /\ made + 1 <= MaxRequests
  BY <1>0 DEF Begin, Requests
<1>2. req[r] = Idle
  BY <1>0, <1>1 DEF RequestsType
<1>. DEFINE new == [Idle EXCEPT !.at = "insert", !.id = i, !.local = local]
<1>3. req' = [req EXCEPT ![r] = new]
  BY DEF Begin
<1>4. /\ new \in Progress /\ new.at = "insert" /\ new.id = i /\ new.local = local
      /\ new.answer = "none" /\ new.by = Nobody
  BY DEF Idle, Progress, Nobody
<1>. HIDE DEF new
<1>5. /\ req' \in [Requests -> Progress] /\ req'[r] = new
      /\ \A q \in Requests \ {r} : req'[q] = req[q]
  BY <1>0, <1>3, <1>4
<1>6. /\ times \in [Ids -> 0..made] /\ times' = [times EXCEPT ![i] = @ + 1]
      /\ pending \in [Ids -> 0..made]
      /\ UNCHANGED <<pending, queue, handler, stranded, opened>>
  BY DEF Begin, RequestsType
<1>7. times' \in [Ids -> 0..made'] /\ pending \in [Ids -> 0..made']
  BY <1>0, <1>1, <1>6
<1>8. \A q \in Requests : q > made' => req'[q] = Idle
  BY <1>0, <1>1, <1>5 DEF RequestsType, Requests
<1>9. \A j \in Ids : pending[j] # r /\ (pending[j] # Nobody => pending[j] \in Requests \ {r})
  BY <1>0, <1>1, <1>6 DEF Requests, Nobody
<1>14. \A q \in Requests : req'[q].at # "idle" => req'[q].id \in Ids
  BY <1>4, <1>5 DEF RequestsType
<1>10. PendingInv'
  BY <1>5, <1>6, <1>9 DEF PendingInv
<1>11. PendingOwned'
  BY <1>5, <1>6, <1>9 DEF PendingOwned
<1>12. AnswerInv'
  BY <1>4, <1>5 DEF AnswerInv
<1>13. UserInv'
  <2>1. ASSUME NEW j \in Ids, NEW q \in Requests, User(j, q)', ~(j = i /\ q = r)
        PROVE  User(j, q)
    <3>1. CASE req'[q].id = j
      BY <1>4, <1>5, <2>1, <3>1 DEF User
    <3>2. CASE pending'[j] = q \/ Sent(handler, j, q)' \/ \E n \in DOMAIN queue' : Sent(queue'[n], j, q)
      BY <1>6, <3>2 DEF User, Sent
    <3>3. ASSUME NEW p \in Requests, req'[p].id = j, req'[p].by = q PROVE User(j, q)
      <4>1. p # r
        BY <1>4, <1>5, <3>3 DEF Nobody, Requests
      <4>. QED BY <1>5, <3>3, <4>1 DEF User
    <3>. QED BY <2>1, <3>1, <3>2, <3>3 DEF User, Sent
  <2>2. ASSUME NEW j \in Ids, j # i
        PROVE  /\ times'[j] = 0 => \A q \in Requests : ~User(j, q)'
               /\ times'[j] = 1 => \A p, q \in Requests : User(j, p)' /\ User(j, q)' => p = q
    <3>1. times'[j] = times[j]
      BY <1>6, <2>2
    <3>2. \A q \in Requests : User(j, q)' => User(j, q)
      BY <2>1, <2>2
    <3>. QED BY <3>1, <3>2 DEF UserInv
  <2>3. /\ times'[i] # 0
        /\ times'[i] = 1 => \A p, q \in Requests : User(i, p)' /\ User(i, q)' => p = q
    <3>1. times'[i] = times[i] + 1 /\ times[i] \in Nat
      BY <1>0, <1>6
    <3>2. times[i] = 0 => \A q \in Requests : User(i, q)' => q = r
      BY <2>1 DEF UserInv
    <3>. QED BY <3>1, <3>2
  <2>. QED BY <2>2, <2>3 DEF UserInv
<1>. QED
  BY <1>0, <1>1, <1>2, <1>4, <1>5, <1>7, <1>8, <1>10, <1>11, <1>12, <1>13,
     <1>14

LEMMA GetChannelsKeeps ==
    ASSUME RequestsInv, NEW r \in Requests, NEW k, NEW p, GetChannels(r, k, p)
    PROVE  RequestsInv'
<1>. USE DEF RequestsInv
<1>. DEFINE i == lastId + 1
<1>1. /\ lastId \in Nat /\ i \in Ids /\ i <= MaxRequests /\ MaxRequests \in Nat
      /\ channels \subseteq 1..lastId /\ opened \subseteq channels
  BY RequestsAssumption DEF GetChannels, RequestsType, Ids, ChannelsAccounted
<1>2. /\ Begin(r, i, TRUE) /\ lastId' = lastId + 1 /\ channels' = channels \cup {i}
      /\ UNCHANGED <<queue, handler, stranded, opened, pending>>
  BY DEF GetChannels, Begin
<1>3. /\ req' \in [Requests -> Progress] /\ made' \in 0..MaxRequests
      /\ times' \in [Ids -> 0..made'] /\ pending \in [Ids -> 0..made']
      /\ \A q \in Requests : q > made' => req'[q] = Idle
      /\ \A q \in Requests : req'[q].at # "idle" => req'[q].id \in Ids
      /\ req[r] = Idle /\ req'[r].id = i /\ req'[r].local
      /\ \A q \in Requests \ {r} : req'[q] = req[q]
      /\ PendingInv' /\ UserInv' /\ AnswerInv' /\ PendingOwned'
  BY <1>1, <1>2, BeginKeeps
<1>4. RequestsType'
  <2>1. lastId' \in 0..MaxRequests /\ channels' \subseteq 1..lastId'
    BY <1>1, <1>2
  <2>. QED BY <1>2, <1>3, <2>1 DEF RequestsType, SystemMessages
<1>5. LocalInv'
  <2>1. \A q \in Requests \ {r} : req[q].local => req[q].id \in channels \ opened
    BY DEF LocalInv
  <2>2. i \notin opened /\ i \notin channels /\ i \in channels'
    BY <1>1, <1>2
  <2>3. ASSUME NEW q \in Requests, req'[q].local PROVE req'[q].id \in channels' \ opened'
    BY <1>2, <1>3, <2>1, <2>2, <2>3
  <2>4. ASSUME NEW q \in Requests, NEW n \in Requests, req'[q].local, req'[n].local,
               req'[n].id = req'[q].id
        PROVE  n = q
    <3>1. CASE q = r \/ n = r
      BY <1>3, <2>1, <2>2, <2>4, <3>1
    <3>2. CASE q # r /\ n # r
      BY <1>3, <2>4, <3>2 DEF LocalInv
    <3>. QED BY <3>1, <3>2
  <2>. QED BY <2>3, <2>4 DEF LocalInv
<1>6. ChannelsAccounted'
  <2>1. ASSUME NEW n \in channels' \ opened' PROVE \E q \in Requests : req'[q].local /\ req'[q].id = n
    <3>1. CASE n = i
      BY <1>3, <3>1
    <3>2. CASE n # i
      <4>1. PICK q \in Requests : req[q].local /\ req[q].id = n
        BY <1>2, <2>1, <3>2 DEF ChannelsAccounted
      <4>2. q # r
        BY <1>3, <4>1 DEF Idle
      <4>. QED BY <1>3, <4>1, <4>2
    <3>. QED BY <3>1, <3>2
  <2>2. opened' \subseteq channels'
    BY <1>1, <1>2
  <2>. QED BY <2>1, <2>2 DEF ChannelsAccounted
<1>. QED BY <1>3, <1>4, <1>5, <1>6

LEMMA RequestChannelKeeps ==
    ASSUME RequestsInv, NEW r \in Requests, NEW i \in Ids, RequestChannel(r, i)
    PROVE  RequestsInv'
<1>. USE DEF RequestsInv
<1>1. Begin(r, i, FALSE) /\ UNCHANGED <<lastId, channels, queue, handler, stranded, opened, pending>>
  BY DEF RequestChannel, Begin
<1>2. /\ req' \in [Requests -> Progress] /\ made' \in 0..MaxRequests
      /\ times' \in [Ids -> 0..made'] /\ pending \in [Ids -> 0..made']
      /\ \A q \in Requests : q > made' => req'[q] = Idle
      /\ \A q \in Requests : req'[q].at # "idle" => req'[q].id \in Ids
      /\ req[r] = Idle /\ ~req'[r].local
      /\ \A q \in Requests \ {r} : req'[q] = req[q]
      /\ PendingInv' /\ UserInv' /\ AnswerInv' /\ PendingOwned'
  BY <1>1, BeginKeeps
<1>3. RequestsType'
  BY <1>1, <1>2 DEF RequestsType, SystemMessages
<1>4. \A q \in Requests : req'[q].local => req'[q] = req[q]
  BY <1>2
<1>5. LocalInv'
  BY <1>1, <1>4 DEF LocalInv
<1>6. ChannelsAccounted'
  <2>1. ASSUME NEW n \in channels \ opened PROVE \E q \in Requests : req'[q].local /\ req'[q].id = n
    <3>1. PICK q \in Requests : req[q].local /\ req[q].id = n
      BY DEF ChannelsAccounted
    <3>2. q # r
      BY <1>2, <3>1 DEF Idle
    <3>. QED BY <1>2, <3>1, <3>2
  <2>. QED BY <1>1, <2>1 DEF ChannelsAccounted
<1>. QED BY <1>2, <1>3, <1>5, <1>6

-----------------------------------------------------------------------------
(***************************************************************************)
(* Steps that keep who has which channel: what the others have to show     *)
(***************************************************************************)
LEMMA SameChannels ==
    ASSUME RequestsInv, UNCHANGED <<lastId, channels, opened>>,
           \A q \in Requests : req'[q].id = req[q].id /\ req'[q].local = req[q].local
    PROVE  LocalInv' /\ ChannelsAccounted'
<1>1. LocalInv'
  BY DEF RequestsInv, LocalInv
<1>2. ChannelsAccounted'
  BY DEF RequestsInv, ChannelsAccounted
<1>. QED BY <1>1, <1>2

\* A request moves on to a stage, and its answer changes to none that was given.
Moved(r, stage) ==
    /\ req' \in [Requests -> Progress]
    /\ req'[r].at = stage
    /\ req'[r].answer \in {"none", "timeout", "refused", "no_system", req[r].answer}
    /\ \A q \in Requests :
          /\ req'[q].id = req[q].id /\ req'[q].local = req[q].local
          /\ req'[q].by = req[q].by \/ (req'[q].by = Nobody /\ req'[q].answer = "none")
          /\ q # r => req'[q] = req[q]

\* The system channel keeps its messages, and may get the request's own.
Queued(r) ==
    /\ queue' \in Seq(SystemMessages) /\ Len(queue') <= SystemBuffer
    /\ \A n \in DOMAIN queue' :
          (n \in DOMAIN queue /\ queue'[n] = queue[n]) \/ Sent(queue'[n], req[r].id, r)

\* The table may get an entry for the request, and it has to own those it has.
Entered(r, stage) ==
    /\ stranded \subseteq stranded'
    /\ pending' = pending \/ pending' = [pending EXCEPT ![req[r].id] = r]
    /\ \A i \in Ids : pending'[i] = r =>
          r \in stranded' \/ (req[r].id = i /\ stage \in {"send", "wait", "remove", "dropped"})

LEMMA MovesOn ==
    ASSUME req \in [Requests -> Progress], NEW r \in Requests,
           NEW stage \in {"insert", "send", "wait", "remove", "finish", "dropped"},
           NEW answer \in {"none", "timeout", "refused", "no_system"},
           req' = [req EXCEPT ![r].at = stage, ![r].answer = answer]
    PROVE  Moved(r, stage)
<1>1. req' \in [Requests -> Progress]
  <2>1. answer \in {"none", "ok", "no", "closed", "timeout", "refused", "no_system"}
    OBVIOUS
  <2>. DEFINE x == [req[r] EXCEPT !.at = stage, !.answer = answer]
  <2>2. x \in Progress
    BY <2>1 DEF Progress
  <2>3. req' = [req EXCEPT ![r] = x]
    BY DEF Progress
  <2>. HIDE DEF x
  <2>. QED BY <2>2, <2>3
<1>2. /\ req'[r].at = stage /\ req'[r].answer = answer
      /\ \A q \in Requests \ {r} : req'[q] = req[q]
  BY DEF Progress
<1>3. req'[r].id = req[r].id /\ req'[r].local = req[r].local /\ req'[r].by = req[r].by
  BY DEF Progress
<1>. QED BY <1>1, <1>2, <1>3 DEF Moved

LEMMA GoesOn ==
    ASSUME req \in [Requests -> Progress], NEW r \in Requests,
           NEW stage \in {"insert", "send", "wait", "remove", "finish", "dropped"},
           req' = [req EXCEPT ![r].at = stage]
    PROVE  Moved(r, stage)
<1>1. req' \in [Requests -> Progress]
  BY DEF Progress
<1>2. /\ req'[r].at = stage /\ req'[r].answer = req[r].answer
      /\ \A q \in Requests \ {r} : req'[q] = req[q]
  BY DEF Progress
<1>3. req'[r].id = req[r].id /\ req'[r].local = req[r].local /\ req'[r].by = req[r].by
  BY DEF Progress
<1>. QED BY <1>1, <1>2, <1>3 DEF Moved

LEMMA SameQueue ==
    ASSUME RequestsType, NEW r, queue' = queue
    PROVE  Queued(r)
BY DEF RequestsType, Queued

LEMMA MoveKeeps ==
    ASSUME RequestsInv, NEW r \in Requests, req[r].at # "idle",
           NEW stage \in {"insert", "send", "wait", "remove", "finish", "dropped"},
           Moved(r, stage), Queued(r), Entered(r, stage),
           UNCHANGED <<made, lastId, channels, times, opened, handler>>
    PROVE  RequestsInv'
<1>. USE DEF RequestsInv
<1>1. /\ req \in [Requests -> Progress] /\ r \in 1..made /\ made \in 0..MaxRequests /\ made \in Nat
      /\ pending \in [Ids -> 0..made]
  BY ActiveMade, RequestsAssumption DEF RequestsType
<1>2. /\ req' \in [Requests -> Progress]
      /\ req'[r].at = stage
      /\ req'[r].answer \in {"none", "timeout", "refused", "no_system", req[r].answer}
      /\ \A q \in Requests :
            /\ req'[q].id = req[q].id /\ req'[q].local = req[q].local
            /\ req'[q].by = req[q].by \/ (req'[q].by = Nobody /\ req'[q].answer = "none")
            /\ q # r => req'[q] = req[q]
  BY DEF Moved
<1>3. /\ pending' \in [Ids -> 0..made]
      /\ \A i \in Ids : pending'[i] = pending[i] \/ (pending'[i] = r /\ req[r].id = i)
  BY <1>1 DEF Entered
<1>4. RequestsType'
  <2>1. \A q \in Requests : q > made => req'[q] = Idle
    BY <1>1, <1>2 DEF RequestsType, Requests
  <2>2. \A q \in Requests : req'[q].at # "idle" => req'[q].id \in Ids
    BY <1>2 DEF RequestsType
  <2>. QED BY <1>1, <1>2, <1>3, <2>1, <2>2 DEF RequestsType, SystemMessages, Queued
<1>5. LocalInv' /\ ChannelsAccounted'
  BY <1>2, SameChannels
<1>6. PendingInv'
  <2>1. ASSUME NEW i \in Ids, pending'[i] # Nobody, req'[pending'[i]].at # "idle"
        PROVE  req'[pending'[i]].id = i
    <3>1. pending'[i] \in Requests
      BY <1>1, <1>3, <2>1, RequestsAssumption DEF Requests, Nobody
    <3>2. CASE pending'[i] = r /\ req[r].id = i
      BY <1>2, <3>2
    <3>3. CASE pending'[i] = pending[i] /\ pending[i] = r
      BY <1>2, <2>1, <3>3 DEF PendingInv
    <3>4. CASE pending'[i] = pending[i] /\ pending[i] # r
      BY <1>2, <2>1, <3>1, <3>4 DEF PendingInv
    <3>. QED BY <1>3, <3>2, <3>3, <3>4
  <2>. QED BY <2>1 DEF PendingInv
<1>7. UserInv'
  <2>1. ASSUME NEW i \in Ids, NEW q \in Requests, User(i, q)' PROVE User(i, q)
    <3>1. req[r].id = i => User(i, r)
      BY DEF User
    <3>2. CASE req'[q].id = i
      BY <1>2, <3>2 DEF User
    <3>3. CASE pending'[i] = q
      BY <1>3, <3>1, <3>3 DEF User
    <3>4. CASE Sent(handler, i, q)'
      BY <3>4 DEF User, Sent
    <3>5. ASSUME NEW n \in DOMAIN queue', Sent(queue'[n], i, q) PROVE User(i, q)
      BY <3>1, <3>5 DEF User, Sent, Queued
    <3>6. ASSUME NEW p \in Requests, req'[p].id = i, req'[p].by = q PROVE User(i, q)
      <4>1. q # Nobody
        BY DEF Nobody, Requests
      <4>. QED BY <1>2, <3>6, <4>1 DEF User
    <3>. QED BY <2>1, <3>2, <3>3, <3>4, <3>5, <3>6 DEF User, Sent
  <2>. QED BY <2>1, UserFrame
<1>8. AnswerInv'
  BY <1>2 DEF AnswerInv
<1>9. PendingOwned'
  <2>1. ASSUME NEW i \in Ids, pending'[i] # Nobody
        PROVE  \/ pending'[i] \in stranded'
               \/ /\ req'[pending'[i]].id = i
                  /\ req'[pending'[i]].at \in {"send", "wait", "remove", "dropped"}
    <3>1. CASE pending'[i] = r
      BY <1>2, <3>1 DEF Entered
    <3>2. CASE pending'[i] # r
      <4>1. pending'[i] = pending[i] /\ pending[i] \in Requests
        BY <1>1, <1>3, <2>1, <3>2, RequestsAssumption DEF Requests, Nobody
      <4>. QED BY <1>2, <2>1, <3>2, <4>1 DEF PendingOwned, Entered
    <3>. QED BY <3>1, <3>2
  <2>. QED BY <2>1 DEF PendingOwned
<1>. QED BY <1>4, <1>5, <1>6, <1>7, <1>8, <1>9

-----------------------------------------------------------------------------
(***************************************************************************)
(* The steps of a request                                                  *)
(***************************************************************************)
LEMMA InsertPendingKeeps ==
    ASSUME RequestsInv, NEW r \in Requests, InsertPending(r)
    PROVE  RequestsInv'
<1>1. /\ req[r].at = "insert" /\ stranded' = stranded /\ queue' = queue
      /\ UNCHANGED <<made, lastId, channels, times, opened, handler>>
  BY DEF InsertPending, historyVars
<1>2. /\ req \in [Requests -> Progress] /\ pending \in [Ids -> 0..made] /\ r # Nobody
      /\ Queued(r)
  BY <1>1, SameQueue DEF RequestsInv, RequestsType, Nobody, Requests
<1>3. \A i \in Ids : pending[i] = r => r \in stranded
  BY <1>1, <1>2 DEF RequestsInv, PendingOwned
<1>4. CASE /\ req' = [req EXCEPT ![r].at = "finish", ![r].answer = "refused"]
           /\ pending' = pending
  <2>1. Moved(r, "finish")
    BY <1>2, <1>4, MovesOn
  <2>2. Entered(r, "finish")
    BY <1>1, <1>3, <1>4 DEF Entered
  <2>. QED BY <1>1, <1>2, <2>1, <2>2, MoveKeeps
<1>5. CASE /\ req' = [req EXCEPT ![r].at = "send"]
           /\ pending' = [pending EXCEPT ![req[r].id] = r]
  <2>1. Moved(r, "send")
    BY <1>2, <1>5, GoesOn
  <2>2. Entered(r, "send")
    BY <1>1, <1>2, <1>3, <1>5 DEF Entered
  <2>. QED BY <1>1, <1>2, <2>1, <2>2, MoveKeeps
<1>. QED BY <1>1, <1>4, <1>5 DEF InsertPending, Go

LEMMA FindNoSystemKeeps ==
    ASSUME RequestsInv, NEW r \in Requests, FindNoSystem(r)
    PROVE  RequestsInv'
<1>1. /\ req[r].at = "send" /\ stranded' = stranded \cup {r}
      /\ req' = [req EXCEPT ![r].at = "finish", ![r].answer = "no_system"]
      /\ queue' = queue /\ pending' = pending
      /\ UNCHANGED <<made, lastId, channels, times, opened, handler>>
  BY DEF FindNoSystem
<1>2. Moved(r, "finish") /\ Queued(r)
  BY <1>1, MovesOn, SameQueue DEF RequestsInv, RequestsType
<1>3. Entered(r, "finish")
  BY <1>1 DEF Entered
<1>. QED BY <1>1, <1>2, <1>3, MoveKeeps

\* A request that has its entry keeps it as it moves on.
LEMMA OwnerEntered ==
    ASSUME RequestsInv, NEW r \in Requests, NEW stage \in {"wait", "remove", "dropped"},
           pending' = pending, stranded' = stranded, req[r].at \in {"send", "wait"}
    PROVE  Entered(r, stage)
<1>1. \A i \in Ids : pending[i] = r => r \in stranded \/ req[r].id = i
  BY DEF RequestsInv, PendingOwned, Nobody, Requests
<1>. QED BY <1>1 DEF Entered

LEMMA SendRequestKeeps ==
    ASSUME RequestsInv, NEW r \in Requests, SendRequest(r)
    PROVE  RequestsInv'
<1>. DEFINE m == [kind |-> "request", id |-> req[r].id, no |-> r, ok |-> FALSE]
<1>1. /\ req[r].at = "send" /\ req' = [req EXCEPT ![r].at = "wait"]
      /\ Len(queue) < SystemBuffer /\ queue' = Append(queue, m)
      /\ pending' = pending /\ stranded' = stranded
      /\ UNCHANGED <<made, lastId, channels, times, opened, handler>>
  BY DEF SendRequest, Go, historyVars
<1>2. queue \in Seq(SystemMessages) /\ SystemBuffer \in Nat /\ req \in [Requests -> Progress]
  BY RequestsAssumption DEF RequestsInv, RequestsType
<1>3. m \in SystemMessages /\ Sent(m, req[r].id, r)
  BY <1>1, <1>2 DEF SystemMessages, Sent, RequestsInv, RequestsType
<1>. HIDE DEF m
<1>4. Queued(r)
  BY <1>1, <1>2, <1>3, AppendMessage DEF Queued
<1>5. Moved(r, "wait") /\ Entered(r, "wait")
  BY <1>1, <1>2, GoesOn, OwnerEntered
<1>. QED BY <1>1, <1>4, <1>5, MoveKeeps

LEMMA SeeAnswerKeeps ==
    ASSUME RequestsInv, NEW r \in Requests, SeeAnswer(r) \/ TimeOut(r)
    PROVE  RequestsInv'
<1>1. /\ req[r].at = "wait" /\ queue' = queue /\ pending' = pending /\ stranded' = stranded
      /\ UNCHANGED <<made, lastId, channels, times, opened, handler>>
  BY DEF SeeAnswer, TimeOut, historyVars
<1>2. /\ Queued(r) /\ Entered(r, "remove") /\ req \in [Requests -> Progress]
  BY <1>1, SameQueue, OwnerEntered DEF RequestsInv, RequestsType
<1>3. Moved(r, "remove")
  BY <1>2, GoesOn, MovesOn DEF SeeAnswer, TimeOut, Go
<1>. QED BY <1>1, <1>2, <1>3, MoveKeeps

\* A dropped future leaves what it has made: the entry, the channel and the message.
LEMMA DropRequestKeeps ==
    ASSUME RequestsInv, NEW r \in Requests, DropRequest(r)
    PROVE  RequestsInv'
<1>. DEFINE x == [req[r] EXCEPT !.at = "dropped", !.answer = "none", !.by = Nobody]
<1>1. /\ req[r].at # "idle" /\ req' = [req EXCEPT ![r] = x]
      /\ queue' = queue /\ pending' = pending /\ stranded' = stranded
      /\ UNCHANGED <<made, lastId, channels, times, opened, handler>>
  BY DEF DropRequest, Gone, historyVars
<1>2. req \in [Requests -> Progress] /\ Queued(r)
  BY <1>1, SameQueue DEF RequestsInv, RequestsType
<1>3. /\ x \in Progress /\ x.at = "dropped" /\ x.answer = "none" /\ x.by = Nobody
      /\ x.id = req[r].id /\ x.local = req[r].local
  BY <1>2 DEF Progress
<1>. HIDE DEF x
<1>4. req' \in [Requests -> Progress] /\ req'[r] = x /\ \A q \in Requests \ {r} : req'[q] = req[q]
  BY <1>1, <1>2, <1>3
<1>5. Moved(r, "dropped")
  BY <1>3, <1>4 DEF Moved
<1>6. \A i \in Ids : pending[i] = r => r \in stranded \/ req[r].id = i
  BY DEF RequestsInv, PendingOwned, Nobody, Requests
<1>7. Entered(r, "dropped")
  BY <1>1, <1>6 DEF Entered
<1>. QED BY <1>1, <1>2, <1>5, <1>7, MoveKeeps

\* A request's channel is settled: it stays if the request was granted, or goes.
LEMMA FinishKeeps ==
    ASSUME RequestsInv, NEW r \in Requests, Finish(r)
    PROVE  RequestsInv'
<1>. USE DEF RequestsInv
<1>. DEFINE mine == {i \in {req[r].id} : req[r].local}
<1>1. /\ req[r].at = "finish" /\ req' = [req EXCEPT ![r] = Idle]
      /\ \/ channels' = channels /\ opened' = opened \cup mine
         \/ channels' = channels \ mine /\ opened' = opened
      /\ UNCHANGED <<made, lastId, pending, queue, handler, times, stranded>>
  BY DEF Finish
<1>2. /\ req \in [Requests -> Progress] /\ req' \in [Requests -> Progress] /\ req'[r] = Idle
      /\ \A q \in Requests \ {r} : req'[q] = req[q]
  BY <1>1, IdleProgress DEF RequestsType
<1>3. /\ mine \subseteq channels \ opened /\ opened \subseteq channels
      /\ \A i \in mine, q \in Requests : req[q].local /\ req[q].id = i => q = r
      /\ req[r].local => req[r].id \in mine
  BY DEF LocalInv, ChannelsAccounted
<1>4. ~Idle.local /\ Idle.at = "idle" /\ Idle.id \notin Ids /\ Idle.answer = "none"
  BY DEF Idle, Ids
<1>. HIDE DEF mine
<1>5. RequestsType'
  <2>1. \A q \in Requests : /\ q > made => req'[q] = Idle
                            /\ req'[q].at # "idle" => req'[q].id \in Ids
    BY <1>2, <1>4 DEF RequestsType
  <2>2. channels' \subseteq 1..lastId'
    BY <1>1 DEF RequestsType
  <2>. QED BY <1>1, <1>2, <2>1, <2>2 DEF RequestsType, SystemMessages
<1>6. LocalInv'
  BY <1>1, <1>2, <1>3, <1>4 DEF LocalInv
<1>7. ChannelsAccounted'
  <2>1. opened' \subseteq channels'
    BY <1>1, <1>3
  <2>2. ASSUME NEW i \in channels' \ opened'
        PROVE  \E q \in Requests : req'[q].local /\ req'[q].id = i
    <3>1. i \in channels \ opened /\ i \notin mine
      BY <1>1, <1>3, <2>2
    <3>2. PICK q \in Requests : req[q].local /\ req[q].id = i
      BY <3>1 DEF ChannelsAccounted
    <3>3. q # r
      BY <1>3, <3>1, <3>2
    <3>. QED BY <1>2, <3>2, <3>3
  <2>. QED BY <2>1, <2>2 DEF ChannelsAccounted
<1>8. PendingInv' /\ PendingOwned'
  <2>1. ASSUME NEW i \in Ids, pending'[i] # Nobody, pending'[i] # r
        PROVE  req'[pending'[i]] = req[pending'[i]]
    BY <1>1, <1>2, <2>1, RequestsAssumption DEF RequestsType, Requests, Nobody
  <2>2. PendingInv'
    BY <1>1, <1>2, <1>4, <2>1 DEF PendingInv
  <2>3. PendingOwned'
    BY <1>1, <2>1 DEF PendingOwned
  <2>. QED BY <2>2, <2>3
<1>9. UserInv'
  <2>1. ASSUME NEW i \in Ids, NEW q \in Requests, User(i, q)' PROVE User(i, q)
    <3>1. \A n \in Requests : req'[n].id = i => req'[n] = req[n]
      BY <1>2, <1>4
    <3>. QED BY <1>1, <2>1, <3>1 DEF User, Sent
  <2>. QED BY <1>1, <2>1, UserFrame
<1>10. AnswerInv'
  BY <1>2, <1>4 DEF AnswerInv
<1>. QED BY <1>5, <1>6, <1>7, <1>8, <1>9, <1>10

-----------------------------------------------------------------------------
(***************************************************************************)
(* Steps that give an answer                                               *)
(***************************************************************************)
\* The entry of i goes.  Its request may get the answer to b, or find the channel of
\* its answer closed, and a request for i may move on to its end.
Answered(i, b) ==
    /\ pending' = [pending EXCEPT ![i] = Nobody]
    /\ req' \in [Requests -> Progress]
    /\ \A q \in Requests :
          /\ req'[q].id = req[q].id /\ req'[q].local = req[q].local
          /\ req[q].at = "idle" => req'[q] = req[q]
          /\ req'[q].at = req[q].at \/ req[q].id = i
          /\ \/ req'[q].by = req[q].by /\ req'[q].answer = req[q].answer
             \/ req'[q].answer = "closed" /\ req'[q].by = Nobody
             \/ q = pending[i] /\ req[q].at # "idle" /\ req'[q].by = b /\ b \in Requests

\* All messages that there are have been there.
NoneSent ==
    /\ queue' \in Seq(SystemMessages) /\ Len(queue') <= SystemBuffer
    /\ handler' \in SystemMessages \cup {NoMessage}
    /\ \A i \in Ids : \A r \in Requests :
          Sent(handler', i, r) \/ (\E n \in DOMAIN queue' : Sent(queue'[n], i, r))
             => User(i, r)

LEMMA AnsweredKeeps ==
    ASSUME RequestsInv, NEW i \in Ids, NEW b, Answered(i, b), NoneSent,
           b \in Requests => User(i, b),
           UNCHANGED <<made, lastId, channels, times, stranded, opened>>
    PROVE  RequestsInv'
<1>. USE DEF RequestsInv
<1>1. /\ req \in [Requests -> Progress] /\ made \in 0..MaxRequests /\ made \in Nat
      /\ pending \in [Ids -> 0..made]
  BY RequestsAssumption DEF RequestsType
<1>2. /\ pending' \in [Ids -> 0..made] /\ pending'[i] = Nobody
      /\ \A j \in Ids : j # i => pending'[j] = pending[j]
  BY <1>1 DEF Answered, Nobody
<1>3. /\ req' \in [Requests -> Progress]
      /\ \A q \in Requests :
          /\ req'[q].id = req[q].id /\ req'[q].local = req[q].local
          /\ req[q].at = "idle" => req'[q] = req[q]
          /\ req'[q].at = req[q].at \/ req[q].id = i
  BY DEF Answered
<1>4. \A q \in Requests :
          \/ req'[q].by = req[q].by /\ req'[q].answer = req[q].answer
          \/ req'[q].answer = "closed" /\ req'[q].by = Nobody
          \/ req[q].id = i /\ req'[q].by = b /\ b \in Requests
  <2>1. \A q \in Requests : q # Nobody
    BY DEF Requests, Nobody
  <2>. QED BY <2>1 DEF Answered, PendingInv
<1>5. RequestsType'
  <2>1. \A q \in Requests : /\ q > made => req'[q] = Idle
                            /\ req'[q].at # "idle" => req'[q].id \in Ids
    <3>1. Idle.at = "idle"
      BY DEF Idle
    <3>2. \A q \in Requests : /\ q > made => req[q] = Idle
                              /\ req[q].at # "idle" => req[q].id \in Ids
      BY DEF RequestsType
    <3>. QED BY <1>3, <3>1, <3>2
  <2>. QED BY <1>1, <1>2, <1>3, <2>1 DEF RequestsType, SystemMessages, NoneSent
<1>6. LocalInv' /\ ChannelsAccounted'
  BY <1>3, SameChannels
<1>7. PendingInv' /\ PendingOwned'
  <2>1. ASSUME NEW j \in Ids, pending'[j] # Nobody
        PROVE  j # i /\ pending'[j] = pending[j] /\ pending[j] \in Requests
    BY <1>1, <1>2, <2>1, RequestsAssumption DEF Requests, Nobody
  <2>2. PendingInv'
    BY <1>3, <2>1 DEF PendingInv
  <2>3. PendingOwned'
    BY <1>3, <2>1 DEF PendingOwned
  <2>. QED BY <2>2, <2>3
<1>8. UserInv'
  <2>1. ASSUME NEW j \in Ids, NEW q \in Requests, User(j, q)' PROVE User(j, q)
    <3>1. CASE req'[q].id = j
      BY <1>3, <3>1 DEF User
    <3>2. CASE pending'[j] = q
      BY <1>2, <3>2 DEF User, Nobody, Requests
    <3>3. CASE Sent(handler, j, q)' \/ \E n \in DOMAIN queue' : Sent(queue'[n], j, q)
      BY <3>3 DEF NoneSent, Sent
    <3>4. ASSUME NEW p \in Requests, req'[p].id = j, req'[p].by = q PROVE User(j, q)
      <4>1. req[p].id = j /\ q # Nobody
        BY <1>3, <3>4 DEF Nobody, Requests
      <4>2. CASE req[p].by = q
        BY <4>1, <4>2 DEF User
      <4>3. CASE req[p].id = i /\ req'[p].by = b /\ b \in Requests
        BY <3>4, <4>1, <4>3
      <4>. QED BY <1>4, <3>4, <4>1, <4>2, <4>3
    <3>. QED BY <2>1, <3>1, <3>2, <3>3, <3>4 DEF User, Sent
  <2>. QED BY <2>1, UserFrame
<1>9. AnswerInv'
  BY <1>3, <1>4 DEF AnswerInv, Nobody, Requests
<1>. QED BY <1>5, <1>6, <1>7, <1>8, <1>9

\* A change of stage, whatever else has changed.
LEMMA Staged ==
    ASSUME NEW f \in [Requests -> Progress], NEW r \in Requests
    PROVE  LET g == [f EXCEPT ![r].at = "finish"]
           IN  /\ g \in [Requests -> Progress]
               /\ \A q \in Requests : /\ g[q].id = f[q].id /\ g[q].local = f[q].local
                                      /\ g[q].by = f[q].by /\ g[q].answer = f[q].answer
                                      /\ q # r => g[q] = f[q]
<1>. DEFINE g == [f EXCEPT ![r].at = "finish"]
<1>1. g \in [Requests -> Progress]
  BY DEF Progress
<1>2. \A q \in Requests \ {r} : g[q] = f[q]
  OBVIOUS
<1>3. /\ g[r].id = f[r].id /\ g[r].local = f[r].local
      /\ g[r].by = f[r].by /\ g[r].answer = f[r].answer
  BY DEF Progress
<1>. QED BY <1>1, <1>2, <1>3

LEMMA RemovePendingKeeps ==
    ASSUME RequestsInv, NEW r \in Requests, RemovePending(r)
    PROVE  RequestsInv'
<1>. DEFINE i == req[r].id
            f == Given(pending[i], "closed", 0)
<1>1. /\ req[r].at = "remove" /\ req' = [f EXCEPT ![r].at = "finish"]
      /\ pending' = [pending EXCEPT ![i] = Nobody]
      /\ UNCHANGED <<made, lastId, channels, queue, handler, times, stranded, opened>>
  BY DEF RemovePending, historyVars
<1>2. i \in Ids /\ pending[i] \in 0..made /\ RequestsType
  BY <1>1 DEF RequestsInv, RequestsType
<1>3. /\ f \in [Requests -> Progress]
      /\ \A q \in Requests :
            /\ f[q].at = req[q].at /\ f[q].id = req[q].id /\ f[q].local = req[q].local
            /\ \/ f[q] = req[q]
               \/ req[q].at # "idle" /\ f[q].answer = "closed" /\ f[q].by = Nobody
  BY <1>2, GivenOnly DEF Nobody
<1>. HIDE DEF f
<1>4. /\ req' \in [Requests -> Progress]
      /\ \A q \in Requests : /\ req'[q].id = f[q].id /\ req'[q].local = f[q].local
                             /\ req'[q].by = f[q].by /\ req'[q].answer = f[q].answer
                             /\ q # r => req'[q] = f[q]
  BY <1>1, <1>3, Staged
<1>5. Answered(i, Nobody)
  BY <1>1, <1>3, <1>4 DEF Answered
<1>6. NoneSent
  BY <1>1, <1>2 DEF NoneSent, RequestsType, SystemMessages, User, Sent
<1>. QED BY <1>1, <1>2, <1>5, <1>6, AnsweredKeeps DEF Nobody, Requests

LEMMA HandleResponseKeeps ==
    ASSUME RequestsInv, HandleResponse
    PROVE  RequestsInv'
<1>. DEFINE m == Head(queue)
<1>1. /\ queue # <<>> /\ queue' = Tail(queue)
      /\ req' = Given(pending[m.id], Answer(m), m.no)
      /\ pending' = [pending EXCEPT ![m.id] = Nobody]
      /\ UNCHANGED <<made, lastId, channels, handler, times, stranded, opened>>
  BY DEF HandleResponse, Receives, historyVars
<1>2. /\ queue \in Seq(SystemMessages) /\ Len(queue) <= SystemBuffer /\ SystemBuffer \in Nat
      /\ pending \in [Ids -> 0..made] /\ RequestsType
  BY RequestsAssumption DEF RequestsInv, RequestsType
<1>3. /\ m \in SystemMessages /\ 1 \in DOMAIN queue /\ m = queue[1]
      /\ queue' \in Seq(SystemMessages) /\ Len(queue') <= Len(queue)
      /\ \A j \in DOMAIN queue' : j + 1 \in DOMAIN queue /\ queue'[j] = queue[j + 1]
  BY <1>1, <1>2, TakeHead
<1>. HIDE DEF m
<1>4. m.id \in Ids /\ m.no \in Requests /\ Answer(m) \in {"ok", "no", "closed"}
  BY <1>3 DEF SystemMessages, Answer
<1>5. User(m.id, m.no)
  BY <1>3 DEF User, Sent
<1>6. /\ req' \in [Requests -> Progress]
      /\ \A q \in Requests :
            /\ req'[q].at = req[q].at /\ req'[q].id = req[q].id /\ req'[q].local = req[q].local
            /\ \/ req'[q] = req[q]
               \/ q = pending[m.id] /\ req[q].at # "idle" /\ req'[q].by = m.no
  BY <1>1, <1>2, <1>4, GivenOnly
<1>7. Answered(m.id, m.no)
  <2>1. \A q \in Requests : req[q].at = "idle" => req'[q] = req[q]
    BY <1>6
  <2>. QED BY <1>1, <1>4, <1>6, <2>1 DEF Answered
<1>8. NoneSent
  <2>1. queue' \in Seq(SystemMessages) /\ Len(queue') <= SystemBuffer
        /\ handler' \in SystemMessages \cup {NoMessage}
    BY <1>1, <1>2, <1>3 DEF RequestsType
  <2>. QED BY <1>1, <1>3, <2>1 DEF NoneSent, User, Sent
<1>. QED BY <1>1, <1>4, <1>5, <1>7, <1>8, AnsweredKeeps

-----------------------------------------------------------------------------
(***************************************************************************)
(* The handler's other steps, and the theorems                             *)
(***************************************************************************)
\* Messages move, and nobody else does.
LEMMA MessagesMove ==
    ASSUME RequestsInv, NoneSent,
           UNCHANGED <<made, lastId, channels, pending, req, times, stranded, opened>>
    PROVE  RequestsInv'
<1>. USE DEF RequestsInv
<1>1. RequestsType'
  BY DEF RequestsType, NoneSent, SystemMessages
<1>2. LocalInv' /\ ChannelsAccounted' /\ PendingInv' /\ AnswerInv' /\ PendingOwned'
  BY DEF LocalInv, ChannelsAccounted, PendingInv, AnswerInv, PendingOwned
<1>3. \A i \in Ids : \A r \in Requests : User(i, r)' => User(i, r)
  BY DEF User, Sent, NoneSent
<1>. QED BY <1>1, <1>2, <1>3, UserFrame

LEMMA HandleRequestKeeps ==
    ASSUME RequestsInv, HandleRequest
    PROVE  RequestsInv'
<1>. DEFINE m == Head(queue)
<1>1. PICK accepts \in BOOLEAN :
         /\ queue # <<>> /\ queue' = Tail(queue)
         /\ handler' = [m EXCEPT !.kind = "response", !.ok = accepts]
  BY DEF HandleRequest, Receives
<1>2. queue \in Seq(SystemMessages) /\ Len(queue) <= SystemBuffer /\ SystemBuffer \in Nat
  BY RequestsAssumption DEF RequestsInv, RequestsType
<1>3. /\ m \in SystemMessages /\ 1 \in DOMAIN queue /\ m = queue[1]
      /\ queue' \in Seq(SystemMessages) /\ Len(queue') <= Len(queue)
      /\ \A j \in DOMAIN queue' : j + 1 \in DOMAIN queue /\ queue'[j] = queue[j + 1]
  BY <1>1, <1>2, TakeHead
<1>. HIDE DEF m
<1>4. handler' \in SystemMessages /\ handler'.id = m.id /\ handler'.no = m.no
  BY <1>1, <1>3 DEF SystemMessages
<1>5. Len(queue') <= SystemBuffer
  BY <1>2, <1>3
<1>6. NoneSent
  BY <1>3, <1>4, <1>5 DEF NoneSent, User, Sent
<1>7. UNCHANGED <<made, lastId, channels, pending, req, times, stranded, opened>>
  BY DEF HandleRequest, historyVars
<1>. QED BY <1>6, <1>7, MessagesMove

LEMMA SendResponseKeeps ==
    ASSUME RequestsInv, SendResponse
    PROVE  RequestsInv'
<1>1. /\ Len(queue) < SystemBuffer /\ queue' = Append(queue, handler)
      /\ handler \in SystemMessages /\ handler' = NoMessage
      /\ UNCHANGED <<made, lastId, channels, pending, req, times, stranded, opened>>
  BY DEF SendResponse, historyVars, RequestsInv, RequestsType
<1>2. queue \in Seq(SystemMessages) /\ SystemBuffer \in Nat
  BY RequestsAssumption DEF RequestsInv, RequestsType
<1>3. /\ queue' \in Seq(SystemMessages) /\ Len(queue') <= SystemBuffer
      /\ \A j \in DOMAIN queue' : (j \in DOMAIN queue /\ queue'[j] = queue[j]) \/ queue'[j] = handler
  BY <1>1, <1>2, AppendMessage
<1>4. \A i \in Ids : \A r \in Requests : ~Sent(NoMessage, i, r)
  BY DEF Sent, NoMessage, Ids, Requests
<1>5. NoneSent
  BY <1>1, <1>3, <1>4 DEF NoneSent, User, Sent
<1>. QED BY <1>1, <1>5, MessagesMove

LEMMA RequestsUnchanged ==
    ASSUME RequestsInv, UNCHANGED requestVars
    PROVE  RequestsInv'
<1>1. /\ UNCHANGED <<made, lastId, channels, pending, req, times, stranded, opened>>
      /\ queue' = queue /\ handler' = handler
  BY DEF requestVars, historyVars
<1>2. NoneSent
  BY <1>1 DEF NoneSent, User, Sent, RequestsInv, RequestsType
<1>. QED BY <1>1, <1>2, MessagesMove

LEMMA RequestsStart == RequestsInit => RequestsInv
<1>. SUFFICES ASSUME RequestsInit PROVE RequestsInv
  OBVIOUS
<1>1. <<>> \in Seq(SystemMessages) /\ Len(<<>>) = 0
  OBVIOUS
<1>2. /\ Idle \in Progress /\ Idle.at = "idle" /\ ~Idle.local /\ Idle.answer = "none"
      /\ Idle.id = 0 /\ Idle.by = 0
  BY IdleProgress DEF Idle
<1>3. RequestsType
  BY <1>1, <1>2, RequestsAssumption DEF RequestsInit, RequestsType, Nobody
<1>4. LocalInv /\ PendingInv /\ AnswerInv /\ PendingOwned /\ ChannelsAccounted
  BY <1>2 DEF RequestsInit, LocalInv, PendingInv, AnswerInv, PendingOwned, ChannelsAccounted
<1>5. UserInv
  BY <1>2 DEF RequestsInit, UserInv, User, Sent, NoMessage, Ids, Requests, Nobody
<1>. QED BY <1>3, <1>4, <1>5 DEF RequestsInv

LEMMA RequestsStep == RequestsInv /\ [Next]_vars => RequestsInv'
<1>. SUFFICES ASSUME RequestsInv, [Next]_vars PROVE RequestsInv'
  OBVIOUS
<1>1. ASSUME NEW r \in Requests, Request(r) PROVE RequestsInv'
  BY <1>1, GetChannelsKeeps, RequestChannelKeeps DEF Request
<1>2. ASSUME NEW r \in Requests, RequestStep(r) PROVE RequestsInv'
  BY <1>2, InsertPendingKeeps, FindNoSystemKeeps, SendRequestKeeps, SeeAnswerKeeps,
     RemovePendingKeeps, FinishKeeps, DropRequestKeeps DEF RequestStep, RequestGoesOn
<1>3. CASE HandlerStep
  BY <1>3, HandleRequestKeeps, SendResponseKeeps, HandleResponseKeeps DEF HandlerStep
<1>4. CASE UNCHANGED requestVars
  BY <1>4, RequestsUnchanged
<1>5. CASE UNCHANGED vars
  BY <1>4, <1>5 DEF vars
<1>. QED BY <1>1, <1>2, <1>3, <1>4, <1>5 DEF Next

\* The inductive invariant of channel requests: every answer, entry and channel leads
\* back to the request that it is there for.
THEOREM RequestsInvariant == Spec => []RequestsInv
<1>1. Init => RequestsInv
  BY RequestsStart DEF Init
<1>. QED BY <1>1, RequestsStep, PTL DEF Spec

\* Every variable of the endpoint has the values the code can give it, however many
\* connections and requests there are.
THEOREM EndpointTypes == Spec => []TypeOK
<1>1. HandshakeInv /\ RequestsInv => TypeOK
  BY DEF HandshakeInv, RequestsInv, TypeOK
<1>. QED BY <1>1, HandshakeInvariant, RequestsInvariant, PTL

\* A late answer finds nobody, or its own request: when one request alone has used an
\* id, the answer it holds was given to it.
THEOREM AnswersAreOwn == Spec => []AnswerIsOwn
<1>1. RequestsInv => AnswerIsOwn
  <2>. SUFFICES ASSUME RequestsInv, NEW r \in Requests, req[r].answer \in {"ok", "no"},
                       times[req[r].id] = 1
                PROVE  req[r].by = r
    BY DEF AnswerIsOwn
  <2>1. req[r].id \in Ids /\ req[r].by \in Requests
    BY DEF RequestsInv, RequestsType, AnswerInv, Progress
  <2>2. User(req[r].id, r) /\ User(req[r].id, req[r].by)
    BY DEF User
  <2>. QED BY <2>1, <2>2 DEF RequestsInv, UserInv
<1>. QED BY <1>1, RequestsInvariant, PTL

\* The table of pending requests leaks through two paths only, a request without a
\* system channel and a future that is dropped: every other entry has a request that is
\* going to remove it.
THEOREM PendingHasOwner == Spec => []PendingOwned
<1>1. RequestsInv => PendingOwned
  BY DEF RequestsInv
<1>. QED BY <1>1, RequestsInvariant, PTL

\* However requests fail, time out or overlap, the manager keeps the channels that
\* get_channels returned and loses those of the requests that returned an error; only a
\* future that is dropped leaves one behind.
THEOREM ChannelsAreAccounted == Spec => []ChannelsAccounted
<1>1. RequestsInv => ChannelsAccounted
  BY DEF RequestsInv
<1>. QED BY <1>1, RequestsInvariant, PTL
=============================================================================
