---------------------------- MODULE FifoChannel ----------------------------
(***************************************************************************)
(* What a channel promises its users, without clones, counters, envelopes  *)
(* or wakeups: a bounded queue that accepts the messages of each writer in *)
(* increasing order, hands them out in the order in which it accepted      *)
(* them, each once, and accepts none any more once it is shut.  A message  *)
(* is a writer and the number of its call.                                 *)
(***************************************************************************)
EXTENDS Integers, Sequences

CONSTANTS Writers, Bound, MaxNumber

VARIABLES buffer, received, open

fifoVars == <<buffer, received, open>>

Init ==
    /\ buffer = <<>>
    /\ received = <<>>
    /\ open = TRUE

\* Number n of writer w comes after everything the channel has had from w.
IsNext(w, n) ==
    \A log \in {buffer, received} : \A i \in DOMAIN log :
        log[i][1] = w => log[i][2] < n

Accept(w, n) ==
    /\ open /\ Len(buffer) < Bound
    /\ IsNext(w, n)
    /\ buffer' = Append(buffer, <<w, n>>)
    /\ UNCHANGED <<received, open>>

Deliver ==
    /\ buffer # <<>>
    /\ received' = Append(received, Head(buffer))
    /\ buffer' = Tail(buffer)
    /\ UNCHANGED open

\* Shut, and either keep what is queued for the reader or lose it.
Shut ==
    /\ open' = FALSE
    /\ buffer' \in {buffer, <<>>}
    /\ UNCHANGED received

Next ==
    \/ \E w \in Writers, n \in 1..MaxNumber : Accept(w, n)
    \/ Deliver
    \/ Shut

Spec == Init /\ [][Next]_fifoVars
=============================================================================
