--------------------------- MODULE ChannelRequests ---------------------------
(***************************************************************************)
(* Requests for channels on an endpoint (endpoint/endpoint.rs): calls of   *)
(* get_channels and request_channel, by any number of tasks and numbered   *)
(* in their order, the table of pending requests,                          *)
(* the channel manager (channel/manager.rs), and the handler of system     *)
(* messages.  The handler reads the system channel that requests are sent  *)
(* to, and answers through it as well: the channel is a loop inside the    *)
(* endpoint.  It is taken as a bounded, ordered channel, whose senders are *)
(* clones: their wait for room may never end, see Channel.tla.             *)
(***************************************************************************)
EXTENDS Handshake

CONSTANTS
    MaxRequests,    \* how many requests are made
    SystemBuffer    \* the bound of the system channel

ASSUME RequestsAssumption == MaxRequests \in Nat /\ SystemBuffer \in Nat \ {0}

VARIABLES
    made,       \* history: the number of requests so far
    lastId,     \* the counter of ChannelId::new
    channels,   \* the ids of the channels in the manager, without the system channel
    pending,    \* pending_requests: the number of the request that waits for an id
    queue,      \* the messages in the system channel
    handler,    \* the response in the handler's hand, or NoMessage
    req,        \* where each request is
    times,      \* history: how many requests there were for each id
    stranded,   \* history: requests that returned without a system channel
    opened      \* history: the ids of the channels that get_channels returned

historyVars == <<times, stranded, opened>>
requestVars == <<made, lastId, channels, pending, queue, handler, req, historyVars>>

Requests == 1..MaxRequests
Ids == 1..MaxRequests
Nobody == 0
NoMessage == [kind |-> "none", id |-> 0, no |-> 0, ok |-> FALSE]

\* id: of the channel; local: get_channels made a channel for it; answer: what its
\* oneshot channel holds; by: the request that this was the answer to.
Idle == [at |-> "idle", id |-> 0, local |-> FALSE, answer |-> "none", by |-> 0]

RequestsInit ==
    /\ made = 0 /\ lastId = 0
    /\ channels = {}
    /\ pending = [i \in Ids |-> Nobody]
    /\ queue = <<>>
    /\ handler = NoMessage
    /\ req = [r \in Requests |-> Idle]
    /\ times = [i \in Ids |-> 0]
    /\ stranded = {} /\ opened = {}

-----------------------------------------------------------------------------
(***************************************************************************)
(* A request                                                               *)
(***************************************************************************)
Begin(r, i, local) ==
    /\ r = made + 1
    /\ made' = r
    /\ req' = [req EXCEPT ![r] = [Idle EXCEPT !.at = "insert", !.id = i, !.local = local]]
    /\ times' = [times EXCEPT ![i] = @ + 1]
    /\ UNCHANGED <<pending, queue, handler, stranded, opened>>

\* get_channels: a protocol of the connection, a fresh id, and a channel here first.
GetChannels(r, k, p) ==
    /\ \E n \in negotiated["client"][k] : n.name = p /\ (n.weCall \/ n.weRespond)
    /\ lastId < MaxRequests
    /\ Begin(r, lastId + 1, TRUE)
    /\ lastId' = lastId + 1
    /\ channels' = channels \cup {lastId + 1}

\* request_channel, with an id of the user's choice.
RequestChannel(r, i) ==
    /\ Begin(r, i, FALSE)
    /\ UNCHANGED <<lastId, channels>>

Go(r, where) == req' = [req EXCEPT ![r].at = where]

\* An id that is pending is refused.
InsertPending(r) ==
    /\ req[r].at = "insert"
    /\ IF pending[req[r].id] # Nobody
       THEN /\ req' = [req EXCEPT ![r].at = "finish", ![r].answer = "refused"]
            /\ UNCHANGED pending
       ELSE /\ pending' = [pending EXCEPT ![req[r].id] = r]
            /\ Go(r, "send")
    /\ UNCHANGED <<made, lastId, channels, queue, handler, historyVars>>

\* Without a system channel the request returns, and leaves its entry.
FindNoSystem(r) ==
    /\ req[r].at = "send" /\ ~system["client"]
    /\ req' = [req EXCEPT ![r].at = "finish", ![r].answer = "no_system"]
    /\ stranded' = stranded \cup {r}
    /\ UNCHANGED <<made, lastId, channels, pending, queue, handler, times, opened>>

\* The send waits for room, without a timeout, and may wait for ever.
SendRequest(r) ==
    /\ req[r].at = "send" /\ system["client"]
    /\ Len(queue) < SystemBuffer
    /\ queue' = Append(queue, [kind |-> "request", id |-> req[r].id, no |-> r, ok |-> FALSE])
    /\ Go(r, "wait")
    /\ UNCHANGED <<made, lastId, channels, pending, handler, historyVars>>

SeeAnswer(r) ==
    /\ req[r].at = "wait" /\ req[r].answer # "none"
    /\ Go(r, "remove")
    /\ UNCHANGED <<made, lastId, channels, pending, queue, handler, historyVars>>

\* Mutant: nothing limits the wait.
TimeOutNever(r) == FALSE /\ req[r].at = "wait" /\ UNCHANGED requestVars

TimeOut(r) ==
    /\ req[r].at = "wait" /\ req[r].answer = "none"
    /\ req' = [req EXCEPT ![r].at = "remove", ![r].answer = "timeout"]
    /\ UNCHANGED <<made, lastId, channels, pending, queue, handler, historyVars>>

\* A request that has returned, or whose future was dropped.
Gone == {"idle", "dropped"}

\* The requests when r, if it is one that still waits, is given this answer.
Given(r, answer, by) ==
    IF r # Nobody /\ req[r].at \notin Gone /\ req[r].answer = "none"
    THEN [req EXCEPT ![r].answer = answer, ![r].by = by]
    ELSE req

\* Mutant: the entry is left if the request has timed out.
RemovePendingAnswered(r) ==
    /\ req[r].at = "remove"
    /\ pending' = [pending EXCEPT ![req[r].id] = IF req[r].answer = "timeout" THEN @ ELSE Nobody]
    /\ Go(r, "finish")
    /\ UNCHANGED <<made, lastId, channels, queue, handler, historyVars>>

\* The entry goes, whosever it is by now: its owner finds its channel closed.
RemovePending(r) ==
    /\ req[r].at = "remove"
    /\ pending' = [pending EXCEPT ![req[r].id] = Nobody]
    /\ req' = [Given(pending[req[r].id], "closed", 0) EXCEPT ![r].at = "finish"]
    /\ UNCHANGED <<made, lastId, channels, queue, handler, historyVars>>

\* Mutant: only a channel that was refused is removed.
FinishRejected(r) ==
    /\ req[r].at = "finish"
    /\ channels' = channels \ {i \in {req[r].id} : req[r].local /\ req[r].answer = "no"}
    /\ opened' = opened \cup {i \in {req[r].id} : req[r].local /\ req[r].answer = "ok"}
    /\ req' = [req EXCEPT ![r] = Idle]
    /\ UNCHANGED <<made, lastId, pending, queue, handler, times, stranded>>

\* get_channels removes its channel unless the answer was Ok.
Finish(r) ==
    /\ req[r].at = "finish"
    /\ channels' = channels \ {i \in {req[r].id} : req[r].local /\ req[r].answer # "ok"}
    /\ opened' = opened \cup {i \in {req[r].id} : req[r].local /\ req[r].answer = "ok"}
    /\ req' = [req EXCEPT ![r] = Idle]
    /\ UNCHANGED <<made, lastId, pending, queue, handler, times, stranded>>

\* The future may be dropped wherever it waits; what it has made, an entry or a
\* channel, stays.  Without its entry, a request_channel has made nothing.
DropRequest(r) ==
    /\ req[r].at \notin Gone
    /\ req[r].at \in {"insert", "finish"} => req[r].local
    /\ req' = [req EXCEPT ![r] = [@ EXCEPT !.at = "dropped", !.answer = "none", !.by = Nobody]]
    /\ UNCHANGED <<made, lastId, channels, pending, queue, handler, historyVars>>

-----------------------------------------------------------------------------
(***************************************************************************)
(* The handler of system messages; it asks a negotiator, which users give   *)
(* and change, and which may refuse.                                       *)
(***************************************************************************)
Receives(kind) ==
    /\ system["client"] /\ handler = NoMessage
    /\ queue # <<>> /\ Head(queue).kind = kind
    /\ queue' = Tail(queue)

HandleRequest ==
    /\ Receives("request")
    /\ \E accepts \in BOOLEAN :
          handler' = [Head(queue) EXCEPT !.kind = "response", !.ok = accepts]
    /\ UNCHANGED <<made, lastId, channels, pending, req, historyVars>>

\* It waits for room in the channel that only it reads.
SendResponse ==
    /\ handler # NoMessage /\ Len(queue) < SystemBuffer
    /\ queue' = Append(queue, handler)
    /\ handler' = NoMessage
    /\ UNCHANGED <<made, lastId, channels, pending, req, historyVars>>

Answer(m) == IF m.ok THEN "ok" ELSE "no"

\* Mutant: the answer is given to the request that was made last.
HandleResponseToLast ==
    /\ Receives("response")
    /\ LET m == Head(queue)
       IN  /\ req' = Given(made, Answer(m), m.no)
           /\ pending' = [pending EXCEPT ![m.id] = Nobody]
    /\ UNCHANGED <<made, lastId, channels, handler, historyVars>>

\* A response goes to the request that is pending for its id, if one is.
HandleResponse ==
    /\ Receives("response")
    /\ LET m == Head(queue)
       IN  /\ req' = Given(pending[m.id], Answer(m), m.no)
           /\ pending' = [pending EXCEPT ![m.id] = Nobody]
    /\ UNCHANGED <<made, lastId, channels, handler, historyVars>>

\* What a request does without waiting for room in the system channel.
RequestGoesOn(r) ==
    \/ InsertPending(r) \/ FindNoSystem(r) \/ SeeAnswer(r) \/ TimeOut(r)
    \/ RemovePending(r) \/ Finish(r)

RequestStep(r) == RequestGoesOn(r) \/ SendRequest(r) \/ DropRequest(r)

HandlerStep == HandleRequest \/ SendResponse \/ HandleResponse
=============================================================================
