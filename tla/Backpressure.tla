---------------------------- MODULE Backpressure ----------------------------
(***************************************************************************)
(* The backpressure strategies (backpressure/): BoundedQueue, an atomic    *)
(* message count and a tokio Notify on which senders that find the count   *)
(* at capacity wait, and Unlimited, which counts and lets everyone send.   *)
(* The module gives one action per step of wait_for_capacity that another  *)
(* thread can interleave with, and the two callbacks; module Channel says  *)
(* when a channel takes them.                                              *)
(***************************************************************************)
EXTENDS Integers, Sequences, SequencesExt

CONSTANTS
    Senders,    \* the tasks that may wait: one clone of the sender each
    Strategy,   \* "bounded" or "unlimited"
    Capacity,   \* the capacity given to BoundedQueue::new
    Word        \* the modulus of the AtomicUsize: 2^64 in the code

ASSUME StrategyAssumption == Strategy \in {"bounded", "unlimited"}

\* BoundedQueue::new asserts the first; the second holds of any real usize.
ASSUME CapacityAssumption == Capacity \in Nat \ {0}
ASSUME WordAssumption == Word \in Nat /\ Capacity < Word

VARIABLES
    depth,              \* current_depth of a BoundedQueue
    messagesSent,       \* messages_sent, a 64-bit counter that is never near its end
    messagesReceived,   \* messages_received, likewise
    permit,             \* Notify: the one stored permit
    waiters,            \* Notify: the registered futures, oldest first
    wait                \* where each sender's wait_for_capacity future stands

bqVars == <<depth, messagesSent, messagesReceived, permit, waiters, wait>>

\* "check" is before the load of current_depth, "poll" after a load that saw no
\* room, "parked" is registered with Notify, "woken" is notified and not yet
\* polled again, "granted" has returned.
WaitStates == {"none", "check", "poll", "parked", "woken", "granted"}

BQTypeOK ==
    /\ depth \in 0..(Word - 1)
    /\ messagesSent \in Nat
    /\ messagesReceived \in Nat
    /\ permit \in BOOLEAN
    /\ waiters \in Seq(Senders)
    /\ wait \in [Senders -> WaitStates]

BQInit ==
    /\ depth = 0
    /\ messagesSent = 0
    /\ messagesReceived = 0
    /\ permit = FALSE
    /\ waiters = <<>>
    /\ wait = [s \in Senders |-> "none"]

Bounded == Strategy = "bounded"

ShouldSend(queueDepth) == Bounded => queueDepth < Capacity

(***************************************************************************)
(* wait_for_capacity                                                       *)
(***************************************************************************)
CheckCapacity(s) ==
    /\ wait[s] = "check"
    /\ wait' = [wait EXCEPT ![s] = IF depth < Capacity THEN "granted" ELSE "poll"]
    /\ UNCHANGED <<depth, messagesSent, messagesReceived, permit, waiters>>

\* The first poll of notified(): it takes the stored permit, or registers.
PollNotified(s) ==
    /\ wait[s] = "poll"
    /\ \/ /\ permit
          /\ permit' = FALSE
          /\ wait' = [wait EXCEPT ![s] = "check"]
          /\ UNCHANGED waiters
       \/ /\ ~permit
          /\ waiters' = Append(waiters, s)
          /\ wait' = [wait EXCEPT ![s] = "parked"]
          /\ UNCHANGED permit
    /\ UNCHANGED <<depth, messagesSent, messagesReceived>>

Wake(s) ==
    /\ wait[s] = "woken"
    /\ wait' = [wait EXCEPT ![s] = "check"]
    /\ UNCHANGED <<depth, messagesSent, messagesReceived, permit, waiters>>

\* Notify::notify_one, with w the states of the waits it starts from.
NotifyOne(w) ==
    \/ /\ waiters = <<>>
       /\ permit' = TRUE
       /\ wait' = w
       /\ UNCHANGED waiters
    \/ /\ waiters # <<>>
       /\ waiters' = Tail(waiters)
       /\ wait' = [w EXCEPT ![Head(waiters)] = "woken"]
       /\ UNCHANGED permit

\* The future is dropped at its await.  Dropping a registered Notified removes
\* it; dropping one that was notified hands the notification on.
CancelWait(s) ==
    /\ \/ /\ wait[s] = "parked"
          /\ \E k \in DOMAIN waiters :
                /\ waiters[k] = s
                /\ waiters' = RemoveAt(waiters, k)
          /\ wait' = [wait EXCEPT ![s] = "none"]
          /\ UNCHANGED permit
       \/ /\ wait[s] = "woken"
          /\ NotifyOne([wait EXCEPT ![s] = "none"])
    /\ UNCHANGED <<depth, messagesSent, messagesReceived>>

(***************************************************************************)
(* The callbacks of a channel.  on_message_received is two steps: the      *)
(* decrement, and after one that saw the count at capacity, notify_one.    *)
(***************************************************************************)
CountSent ==
    /\ depth' = IF Bounded THEN (depth + 1) % Word ELSE depth
    /\ messagesSent' = messagesSent + 1
    /\ UNCHANGED <<messagesReceived, permit, waiters, wait>>

CountReceived ==
    /\ depth' = IF Bounded THEN (depth - 1) % Word ELSE depth
    /\ messagesReceived' = messagesReceived + 1
    /\ UNCHANGED <<messagesSent, permit, waiters, wait>>

\* Mutant: an off-by-one in the comparison with the capacity.
MustNotifyAbove == Bounded /\ depth > Capacity

MustNotify == Bounded /\ depth >= Capacity
=============================================================================
