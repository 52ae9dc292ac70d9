--------------------------- MODULE RpcProperties ---------------------------
(***************************************************************************)
(* What calls over a channel have to guarantee, stated over module Rpc.    *)
(***************************************************************************)
EXTENDS Rpc

TypeOK ==
    /\ nextId \in Nat \ {0}
    /\ pc \in [Callers -> {"idle", "full", "send", "register", "wait", "cancel"}]
    /\ id \in [Callers -> Nat]
    /\ answer \in [Callers -> Seq(Callers \X (Nat \ {0}))]
    /\ pending \subseteq (Nat \X Callers)
    /\ cancels \subseteq Nat
    /\ requests \in Seq(Message) /\ Len(requests) <= Capacity
    /\ responses \in Seq(Message) /\ Len(responses) <= Capacity
    /\ client \in {"up", "gone"} /\ server \in {"up", "down"}
    /\ handling \subseteq Message
    /\ router \in {"running", "stopped"}
    /\ inHand \in Seq(Message) /\ Len(inHand) <= 1
    /\ calls \in [Callers -> Nat]
    /\ orphans \subseteq Nat

\* The response that a call will return is the one response to its own request:
\* not that of another caller, nor a late one to an earlier call that timed
\* out or was dropped (pending.rs:27).
RightAnswer ==
    \A c \in Callers : answer[c] # <<>> => answer[c] = <<Payload(c)>>

\* An entry of the pending table belongs to a call that still waits or is
\* cancelling, to a cancellation that is still to run, or to a call whose
\* future was dropped; and no id has two entries.  So calls that return by
\* themselves leave nothing behind.
PendingOwned ==
    /\ \A p \in pending :
          \/ pc[p[2]] \in {"wait", "cancel"} /\ id[p[2]] = p[1]
          \/ p[1] \in cancels
          \/ p[1] \in orphans
    /\ \A p, q \in pending : p[1] = q[1] => p = q

\* The call that waits, or is about to wait, for the response i.
Expects(c, i) == pc[c] \in {"send", "register", "wait"} /\ id[c] = i

\* A response that the router drops is one that no call waits for any more:
\* a call waits for the response with its id (rpc.rs:131), and gets it.
NoAnswerLost ==
    [][inHand # <<>> /\ inHand' = <<>> /\ answer' = answer
          => ~\E c \in Callers : Expects(c, inHand[1].corr)]_vars

\* Every call that got past its wait for capacity returns, with the response or
\* without: also when the request channel has filled up meanwhile, the response
\* was dropped, or the server went down.
CallReturns == \A c \in Callers : pc[c] \notin {"idle", "full"} ~> pc[c] = "idle"

\* The response router, a task that nobody joins or aborts, ends after the client has
\* gone ("will run until the receiver is dropped", rpc.rs:89), whatever its calls left.
RouterEnds == client = "gone" ~> router = "stopped"

-----------------------------------------------------------------------------
(***************************************************************************)
(* The inductive invariant behind RightAnswer and PendingOwned.            *)
(***************************************************************************)

\* A caller has an id while its request may be out, and never another's.
IdsInv ==
    /\ \A c \in Callers : id[c] = 0 <=> pc[c] \in {"idle", "full"}
    /\ \A c \in Callers : id[c] < nextId
    /\ \A c, d \in Callers : id[c] = id[d] /\ id[c] # 0 => c = d

\* A message that carries the id of a call in progress carries its payload.
Owned(m) ==
    /\ m.corr < nextId
    /\ \A c \in Callers : id[c] = m.corr => m.payload = Payload(c)

MessagesInv ==
    /\ \A k \in DOMAIN requests : Owned(requests[k])
    /\ \A k \in DOMAIN responses : Owned(responses[k])
    /\ \A k \in DOMAIN inHand : Owned(inHand[k])
    /\ \A m \in handling : Owned(m)

\* An entry whose id is in use is its user's, who has registered.
PendingInv ==
    \A p \in pending :
        /\ p[1] # 0 /\ p[1] < nextId
        /\ \A c \in Callers : id[c] = p[1] => c = p[2] /\ pc[c] \in {"wait", "cancel"}

\* A call that has its response waits to take it, and has no entry any more.
AnswerInv ==
    \A c \in Callers : answer[c] # <<>> =>
        /\ pc[c] = "wait" /\ answer[c] = <<Payload(c)>>
        /\ \A p \in pending : p[1] # id[c]

IndInv ==
    TypeOK /\ IdsInv /\ MessagesInv /\ PendingInv /\ AnswerInv /\ PendingOwned
=============================================================================
