-------------------------------- MODULE Rpc --------------------------------
(***************************************************************************)
(* Calls over a pair of channels (channel/rpc.rs, channel/pending.rs,      *)
(* channel/correlation.rs and the clients of bdrpc-macros): callers that   *)
(* share one sender and one table of pending requests, the response router *)
(* task, and a server that answers requests in any order.                  *)
(*                                                                         *)
(* The two channels are bounded FIFO queues, which is what module          *)
(* FifoChannel says of them.  A request's payload is its caller and the    *)
(* number of the call; a response carries the payload of its request.      *)
(***************************************************************************)
EXTENDS Integers, Sequences

CONSTANTS
    Callers,    \* the tasks that make calls, one at a time each
    Generated,  \* those that use a generated client; the others an RpcChannel
    Capacity,   \* of each of the two channels
    MaxCalls    \* how many calls each of them makes

ASSUME GeneratedAssumption == Generated \subseteq Callers
ASSUME CapacityAssumption == Capacity \in Nat \ {0}
ASSUME MaxCallsAssumption == MaxCalls \in [Callers -> Nat]

VARIABLES
    nextId,     \* CorrelationIdGenerator.next_id
    pc,         \* where each caller is in its call
    id,         \* the correlation id of its call
    answer,     \* its oneshot channel: the responses sent into it
    pending,    \* PendingRequests: from correlation ids to whose oneshot it is
    cancels,    \* ids that spawned tasks of generated clients are to cancel
    requests,   \* the queue of the request channel
    responses,  \* the queue of the response channel
    client,     \* "up", or "gone" when its channel object was dropped, and its sender
    server,     \* "up", or "down" when it dropped its ends of the channels
    handling,   \* the requests it has received and not answered
    router,     \* the response router: "running" or "stopped"
    inHand,     \* the response that the router has received and not routed
    calls,      \* how many calls of each caller have returned
    orphans     \* history: the pending ids of calls whose future was dropped

vars == <<nextId, pc, id, answer, pending, cancels, requests, responses, client, server,
          handling, router, inHand, calls, orphans>>

callVars == <<pc, id, answer, calls>>
endVars == <<client, server, handling>>
routerVars == <<router, inHand>>

Message == [corr : Nat \ {0}, payload : Callers \X (Nat \ {0})]

Payload(c) == <<c, calls[c] + 1>>
Request(c) == [corr |-> id[c], payload |-> Payload(c)]

Init ==
    /\ nextId = 1
    /\ pc = [c \in Callers |-> "idle"]
    /\ id = [c \in Callers |-> 0]
    /\ answer = [c \in Callers |-> <<>>]
    /\ pending = {}
    /\ cancels = {}
    /\ requests = <<>>
    /\ responses = <<>>
    /\ client = "up" /\ server = "up"
    /\ handling = {}
    /\ router = "running"
    /\ inHand = <<>>
    /\ calls = [c \in Callers |-> 0]
    /\ orphans = {}

-----------------------------------------------------------------------------
(***************************************************************************)
(* The table of pending requests: a set of pairs of an id and its caller.  *)
(***************************************************************************)
PendingIds == {p[1] : p \in pending}
Without(i) == {p \in pending : p[1] # i}

\* register replaces what the table held for the id.
Register(c) == pending' = Without(id[c]) \cup {<<id[c], c>>}

-----------------------------------------------------------------------------
(***************************************************************************)
(* The callers                                                             *)
(***************************************************************************)

\* The call returns; its oneshot receiver is gone.
Return(c) ==
    /\ pc' = [pc EXCEPT ![c] = "idle"]
    /\ id' = [id EXCEPT ![c] = 0]
    /\ answer' = [answer EXCEPT ![c] = <<>>]
    /\ calls' = [calls EXCEPT ![c] = @ + 1]

\* Mutant: a generator that reads its counter and does not move it on.
NextIdReusing(c) ==
    /\ id' = [id EXCEPT ![c] = nextId]
    /\ UNCHANGED nextId

NextId(c) ==
    /\ id' = [id EXCEPT ![c] = nextId]
    /\ nextId' = nextId + 1

\* send_request, up to the correlation id: it comes after the wait for capacity.
Start(c) ==
    /\ pc[c] = "idle" /\ client = "up" /\ calls[c] < MaxCalls[c]
    /\ \/ /\ Len(requests) < Capacity
          /\ pc' = [pc EXCEPT ![c] = "send"]
          /\ NextId(c)
       \/ /\ Len(requests) >= Capacity
          /\ pc' = [pc EXCEPT ![c] = "full"]
          /\ UNCHANGED <<nextId, id>>
    /\ UNCHANGED <<answer, pending, cancels, requests, responses, calls, orphans>>
    /\ UNCHANGED <<endVars, routerVars>>

\* wait_for_capacity returns: only the receipt of a request ends the wait, the
\* end of the server does not.
Room(c) ==
    /\ pc[c] = "full" /\ server = "up" /\ Len(requests) < Capacity
    /\ pc' = [pc EXCEPT ![c] = "send"]
    /\ NextId(c)
    /\ UNCHANGED <<answer, pending, cancels, requests, responses, calls, orphans>>
    /\ UNCHANGED <<endVars, routerVars>>

\* The rest of send_request: the channel takes the request when it has room.
Send(c) ==
    /\ pc[c] = "send" /\ server = "up" /\ Len(requests) < Capacity
    /\ requests' = Append(requests, Request(c))
    /\ pc' = [pc EXCEPT ![c] = "register"]
    /\ UNCHANGED <<nextId, id, answer, pending, cancels, responses, calls, orphans>>
    /\ UNCHANGED <<endVars, routerVars>>

SendClosed(c) ==
    /\ pc[c] = "send" /\ server = "down"
    /\ Return(c)
    /\ UNCHANGED <<nextId, pending, cancels, requests, responses, orphans>>
    /\ UNCHANGED <<endVars, routerVars>>

\* Only now, with the request on its way, does the call register for the answer.
RegisterCall(c) ==
    /\ pc[c] = "register"
    /\ Register(c)
    /\ pc' = [pc EXCEPT ![c] = "wait"]
    /\ UNCHANGED <<nextId, id, answer, cancels, requests, responses, calls, orphans>>
    /\ UNCHANGED <<endVars, routerVars>>

Answered(c) ==
    /\ pc[c] = "wait" /\ answer[c] # <<>>
    /\ Return(c)
    /\ UNCHANGED <<nextId, pending, cancels, requests, responses, orphans>>
    /\ UNCHANGED <<endVars, routerVars>>

\* Mutant: the entry of a call that timed out is left in the table.
TimeoutForgetful(c) ==
    /\ pc[c] = "wait" /\ answer[c] = <<>>
    /\ Return(c)
    /\ UNCHANGED <<nextId, pending, cancels, requests, responses, orphans>>
    /\ UNCHANGED <<endVars, routerVars>>

\* Mutant: generated clients await the response without a timer.
TimeoutUnarmed(c) ==
    /\ pc[c] = "wait" /\ answer[c] = <<>>
    /\ c \notin Generated
    /\ pc' = [pc EXCEPT ![c] = "cancel"]
    /\ UNCHANGED <<cancels, id, answer, calls>>
    /\ UNCHANGED <<nextId, pending, requests, responses, orphans>>
    /\ UNCHANGED <<endVars, routerVars>>

\* The timeout of the call, which looks at the oneshot first.  It drops the
\* receiver; the entry is cancelled by the call itself, or by a spawned task.
Timeout(c) ==
    /\ pc[c] = "wait" /\ answer[c] = <<>>
    /\ \/ /\ c \notin Generated
          /\ pc' = [pc EXCEPT ![c] = "cancel"]
          /\ UNCHANGED <<cancels, id, answer, calls>>
       \/ /\ c \in Generated
          /\ cancels' = cancels \cup {id[c]}
          /\ Return(c)
    /\ UNCHANGED <<nextId, pending, requests, responses, orphans>>
    /\ UNCHANGED <<endVars, routerVars>>

CancelCall(c) ==
    /\ pc[c] = "cancel"
    /\ pending' = Without(id[c])
    /\ Return(c)
    /\ UNCHANGED <<nextId, cancels, requests, responses, orphans>>
    /\ UNCHANGED <<endVars, routerVars>>

RunCancel(i) ==
    /\ i \in cancels
    /\ cancels' = cancels \ {i}
    /\ pending' = Without(i)
    /\ UNCHANGED <<nextId, callVars, requests, responses, orphans>>
    /\ UNCHANGED <<endVars, routerVars>>

\* The caller's future is dropped at an await (a select or a task abort).
DropCall(c) ==
    /\ pc[c] # "idle"
    /\ orphans' = orphans \cup (PendingIds \cap {id[c]})
    /\ Return(c)
    /\ UNCHANGED <<nextId, pending, cancels, requests, responses>>
    /\ UNCHANGED <<endVars, routerVars>>

-----------------------------------------------------------------------------
(***************************************************************************)
(* The server: a loop over recv_envelope, dispatch_envelope (which keeps   *)
(* the correlation id) and send_response; handlers may run concurrently.   *)
(***************************************************************************)
ReceiveRequest ==
    /\ server = "up" /\ requests # <<>>
    /\ handling' = handling \cup {Head(requests)}
    /\ requests' = Tail(requests)
    /\ UNCHANGED <<nextId, callVars, pending, cancels, responses, client, server, orphans>>
    /\ UNCHANGED routerVars

SendResponse(m) ==
    /\ server = "up" /\ m \in handling
    /\ Len(responses) < Capacity
    /\ responses' = Append(responses, m)
    /\ handling' = handling \ {m}
    /\ UNCHANGED <<nextId, callVars, pending, cancels, requests, client, server, orphans>>
    /\ UNCHANGED routerVars

\* The server's task ends: what it had received or not yet received is lost.
ServerDown ==
    /\ server = "up"
    /\ server' = "down"
    /\ handling' = {}
    /\ requests' = <<>>
    /\ UNCHANGED <<nextId, callVars, pending, cancels, responses, client, orphans>>
    /\ UNCHANGED routerVars

\* The client and its clones are dropped, which no call in progress lets happen.  The
\* router's task is only detached.
DropClient ==
    /\ client = "up" /\ \A c \in Callers : pc[c] = "idle"
    /\ client' = "gone"
    /\ UNCHANGED <<nextId, callVars, pending, cancels, requests, responses, server, handling,
                   orphans>>
    /\ UNCHANGED routerVars

\* The server's recv_envelope returns None; its task ends with its last answer.
ServerEnd ==
    /\ server = "up" /\ client = "gone" /\ requests = <<>> /\ handling = {}
    /\ server' = "down"
    /\ UNCHANGED <<nextId, callVars, pending, cancels, requests, responses, client, handling,
                   orphans>>
    /\ UNCHANGED routerVars

-----------------------------------------------------------------------------
(***************************************************************************)
(* The response router task                                                *)
(***************************************************************************)
RouterReceive ==
    /\ router = "running" /\ inHand = <<>> /\ responses # <<>>
    /\ inHand' = <<Head(responses)>>
    /\ responses' = Tail(responses)
    /\ UNCHANGED <<nextId, callVars, pending, cancels, requests, endVars, orphans,
                   router>>

\* complete: the response goes to the oneshot registered for its id, if there is
\* one and its receiver still waits, and else it is dropped.
Complete ==
    /\ inHand # <<>>
    /\ LET i == inHand[1].corr
           receivers == {p \in pending : p[1] = i /\ pc[p[2]] = "wait" /\ id[p[2]] = i}
       IN  \/ \E p \in receivers :
                 answer' = [answer EXCEPT ![p[2]] = Append(@, inHand[1].payload)]
           \/ /\ receivers = {}
              /\ UNCHANGED answer
    /\ pending' = Without(inHand[1].corr)
    /\ inHand' = <<>>
    /\ UNCHANGED <<nextId, pc, id, cancels, requests, responses, endVars, calls,
                   orphans, router>>

\* Mutant: the task waits for the calls that are pending.
RouterStopPending ==
    /\ router = "running" /\ inHand = <<>> /\ pending = {}
    /\ server = "down" /\ responses = <<>>
    /\ router' = "stopped"
    /\ UNCHANGED <<nextId, callVars, pending, cancels, requests, responses, endVars,
                   orphans, inHand>>

\* recv_envelope returns None.  Calls that are pending stay so.
RouterStop ==
    /\ router = "running" /\ inHand = <<>>
    /\ server = "down" /\ responses = <<>>
    /\ router' = "stopped"
    /\ UNCHANGED <<nextId, callVars, pending, cancels, requests, responses, endVars,
                   orphans, inHand>>

-----------------------------------------------------------------------------
CallerStep(c) ==
    \/ Start(c) \/ Room(c) \/ Send(c) \/ SendClosed(c) \/ RegisterCall(c)
    \/ Answered(c) \/ Timeout(c) \/ CancelCall(c) \/ DropCall(c)

ServerStep ==
    \/ ReceiveRequest
    \/ \E m \in handling : SendResponse(m)
    \/ ServerEnd

RouterStep == RouterReceive \/ Complete \/ RouterStop

Next ==
    \/ \E c \in Callers : CallerStep(c)
    \/ \E i \in cancels : RunCancel(i)
    \/ ServerStep \/ ServerDown \/ DropClient
    \/ RouterStep

Spec == Init /\ [][Next]_vars

\* Tasks run when they can, the channel serves its waiting senders in turn
\* (strong fairness of Send), the server answers what it has received, and
\* timers fire.  Nobody has to start a call, drop one or the client, or take the server
\* down, and no wait for capacity has to end (run channel_lost_wakeup shows why).
Fairness ==
    /\ \A c \in Callers :
          /\ SF_vars(Send(c)) /\ WF_vars(SendClosed(c)) /\ WF_vars(RegisterCall(c))
          /\ WF_vars(Answered(c)) /\ WF_vars(Timeout(c)) /\ WF_vars(CancelCall(c))
    /\ WF_vars(\E i \in cancels : RunCancel(i))
    /\ WF_vars(ServerStep)
    /\ WF_vars(RouterStep)

FairSpec == Spec /\ Fairness
=============================================================================
