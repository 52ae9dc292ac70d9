----------------------------- MODULE LossyStream -----------------------------
(***************************************************************************)
(* What a multiplexed connection promises each of its channels, without    *)
(* frames, tasks or registrations: a stream that hands out what it has     *)
(* taken in order and each once.  It misses messages while nobody listens, *)
(* and may lose what is under way when it ends, but nothing in between.    *)
(*                                                                         *)
(* The messages of a channel are numbered in the order it takes them, so   *)
(* the set of the numbers under way says in which order they come out.     *)
(***************************************************************************)
EXTENDS Integers, Sequences

CONSTANTS Channels, MaxNumber

VARIABLES
    transit,    \* what each channel has taken and not handed out
    received,   \* what it has handed out, in order
    listening,  \* the channels whose other end has begun to listen
    open        \* the channels that still take messages

streamVars == <<transit, received, listening, open>>

Init ==
    /\ transit = [c \in Channels |-> {}]
    /\ received = [c \in Channels |-> <<>>]
    /\ listening = {}
    /\ open = Channels

IsNext(c, n) ==
    /\ \A k \in transit[c] : k < n
    /\ \A i \in DOMAIN received[c] : received[c][i] < n

Take(c, n) ==
    /\ c \in open /\ IsNext(c, n)
    /\ transit' = [transit EXCEPT ![c] = @ \cup {n}]
    /\ UNCHANGED <<received, listening, open>>

IsFirst(c, n) == n \in transit[c] /\ \A k \in transit[c] : n <= k

Deliver(c, n) ==
    /\ IsFirst(c, n)
    /\ received' = [received EXCEPT ![c] = Append(@, n)]
    /\ transit' = [transit EXCEPT ![c] = @ \ {n}]
    /\ UNCHANGED <<listening, open>>

Listen(c) ==
    /\ listening' = listening \cup {c}
    /\ UNCHANGED <<transit, received, open>>

Miss(c, n) ==
    /\ IsFirst(c, n) /\ c \notin listening
    /\ transit' = [transit EXCEPT ![c] = @ \ {n}]
    /\ UNCHANGED <<received, listening, open>>

\* Some channels end, each with the last of what it had under way.
Cut ==
    /\ open' \subseteq open
    /\ DOMAIN transit' = Channels
    /\ \A c \in open' : transit'[c] = transit[c]
    /\ \A c \in Channels :
          /\ transit'[c] \subseteq transit[c]
          /\ \A k \in transit'[c], n \in transit[c] \ transit'[c] : k < n
    /\ UNCHANGED <<received, listening>>

Next ==
    \/ \E c \in Channels :
          \/ \E n \in 1..MaxNumber[c] : Take(c, n) \/ Deliver(c, n) \/ Miss(c, n)
          \/ Listen(c)
    \/ Cut

Spec == Init /\ [][Next]_streamVars
=============================================================================
