----------------------------- MODULE BufferPool -----------------------------
(***************************************************************************)
(* The global pool of buffers (serialization/buffer_pool.rs), used by      *)
(* tasks that read frames (read_frame, Frame::read_from) and by any other  *)
(* user of BufferPool::get.  A buffer is its capacity; nobody sees the     *)
(* contents that one had before.                                           *)
(***************************************************************************)
EXTENDS Integers, Sequences

CONSTANTS
    Tasks,
    ClassSize,      \* SIZE_CLASSES
    MaxPooled,      \* MAX_POOLED_SIZE
    MaxBuffers,     \* MAX_BUFFERS_PER_CLASS
    MaxFrame,       \* MAX_FRAME_SIZE
    Sizes           \* the lengths that are asked for

Classes == DOMAIN ClassSize

ASSUME ClassAssumption ==
    /\ ClassSize \in Seq(Nat \ {0})
    /\ \A i, j \in Classes : i < j => ClassSize[i] < ClassSize[j]
ASSUME LimitAssumption == MaxPooled \in Nat /\ MaxBuffers \in Nat /\ MaxFrame \in Nat
ASSUME SizesAssumption == Sizes \subseteq Nat

VARIABLES
    pools,      \* the capacities in the pool of each class, oldest first
    at,         \* what each task does with its buffer: "idle" has none
    asked,      \* the length it has asked for
    granted,    \* the capacity of the buffer it was given
    capacity,   \* the capacity it has now
    reshaped    \* history: a user has given a buffer a capacity that no class has

vars == <<pools, at, asked, granted, capacity, reshaped>>

Init ==
    /\ pools = [i \in Classes |-> <<>>]
    /\ at = [t \in Tasks |-> "idle"]
    /\ asked = [t \in Tasks |-> 0]
    /\ granted = [t \in Tasks |-> 0]
    /\ capacity = [t \in Tasks |-> 0]
    /\ reshaped = FALSE

Larger(a, b) == IF a > b THEN a ELSE b

\* The first class that is not smaller than n, if there is one.
Fits(n) == {i \in Classes : ClassSize[i] >= n}
IsClassOf(i, n) == i \in Fits(n) /\ \A j \in Fits(n) : i <= j

\* External: how a Vec<u8> of capacity k grows to hold n bytes.
Grow(k, n) == IF n <= k THEN k ELSE Larger(2 * k, n)

\* What drop gives back to a class of another size.
Misfit(k) ==
    /\ k > 0 /\ k <= MaxPooled
    /\ Fits(k) # {} /\ \A i \in Classes : ClassSize[i] # k

\* Mutant: any buffer will do.
GetBufferAny(n, k) ==
    \/ \E i \in Classes :
          /\ pools[i] # <<>>
          /\ k = pools[i][Len(pools[i])]
          /\ pools' = [pools EXCEPT ![i] = SubSeq(@, 1, Len(@) - 1)]
    \/ /\ \A i \in Classes : pools[i] = <<>>
       /\ k = n
       /\ UNCHANGED pools

\* get_buffer: the newest of the class, or a new one of its size.
GetBuffer(n, k) ==
    \/ \E i \in Classes :
          /\ IsClassOf(i, n)
          /\ pools[i] # <<>>
          /\ k = pools[i][Len(pools[i])]
          /\ pools' = [pools EXCEPT ![i] = SubSeq(@, 1, Len(@) - 1)]
    \/ \E i \in Classes :
          /\ IsClassOf(i, n)
          /\ pools[i] = <<>>
          /\ k = ClassSize[i]
          /\ UNCHANGED pools
    \/ /\ Fits(n) = {}
       /\ k = n
       /\ UNCHANGED pools

Capacities == Sizes \cup {ClassSize[i] : i \in Classes}
                    \cup UNION {{pools[i][j] : j \in DOMAIN pools[i]} : i \in Classes}

Hold(t, how, n, k, now) ==
    /\ at' = [at EXCEPT ![t] = how]
    /\ asked' = [asked EXCEPT ![t] = n]
    /\ granted' = [granted EXCEPT ![t] = k]
    /\ capacity' = [capacity EXCEPT ![t] = now]

\* BufferPool::get.
Get(t, n) ==
    /\ at[t] = "idle"
    /\ \E k \in Capacities : GetBuffer(n, k) /\ Hold(t, "using", n, k, k)
    /\ UNCHANGED reshaped

\* read_frame and Frame::read_from, once they have a valid length: the buffer is
\* resized before the payload is awaited.
StartFrame(t, n) ==
    /\ at[t] = "idle" /\ n <= MaxFrame
    /\ \E k \in Capacities : GetBuffer(n, k) /\ Hold(t, "reading", n, k, Grow(k, n))
    /\ UNCHANGED reshaped

\* The Vec is the user's: extended past its capacity, shrunk, or put in another's place.
Reshape(t, k) ==
    /\ at[t] = "using" /\ k # capacity[t]
    /\ Hold(t, "using", asked[t], granted[t], k)
    /\ reshaped' = (reshaped \/ Misfit(k))
    /\ UNCHANGED pools

Release(t) ==
    /\ at' = [at EXCEPT ![t] = "idle"]
    /\ asked' = [asked EXCEPT ![t] = 0]
    /\ granted' = [granted EXCEPT ![t] = 0]
    /\ capacity' = [capacity EXCEPT ![t] = 0]
    /\ UNCHANGED reshaped

\* From<PooledBuffer> for Vec<u8>: a frame that was read keeps its buffer, and so
\* may any user.  What is left in the PooledBuffer has no capacity.
IntoVec(t) ==
    /\ at[t] # "idle"
    /\ Release(t)
    /\ UNCHANGED pools

\* drop and return_buffer: of a user's buffer, or that of a frame whose read failed
\* or was given up.
Return(t) ==
    /\ at[t] # "idle"
    /\ LET k == capacity[t]
       IN  \/ \E i \in Classes :
                 /\ k > 0 /\ k <= MaxPooled
                 /\ IsClassOf(i, k) /\ Len(pools[i]) < MaxBuffers
                 /\ pools' = [pools EXCEPT ![i] = Append(@, k)]
           \/ /\ \/ k = 0 \/ k > MaxPooled \/ Fits(k) = {}
                 \/ \E i \in Classes : IsClassOf(i, k) /\ Len(pools[i]) >= MaxBuffers
              /\ UNCHANGED pools
    /\ Release(t)

TaskStep(t) ==
    \/ \E n \in Sizes : Get(t, n) \/ StartFrame(t, n) \/ Reshape(t, n)
    \/ IntoVec(t) \/ Return(t)

Next == \E t \in Tasks : TaskStep(t)

Spec == Init /\ [][Next]_vars

-----------------------------------------------------------------------------
TypeOK ==
    /\ pools \in [Classes -> Seq(Nat)] /\ \A i \in Classes : Len(pools[i]) <= MaxBuffers
    /\ at \in [Tasks -> {"idle", "using", "reading"}]
    /\ asked \in [Tasks -> Nat] /\ granted \in [Tasks -> Nat] /\ capacity \in [Tasks -> Nat]
    /\ reshaped \in BOOLEAN

\* Who asks for a buffer gets one of that capacity, "at least", as long as no user has
\* given back a buffer, be it the one of another task, with a capacity between those of
\* the classes: it is filed under the first class it does not exceed, and given to the
\* next that asks for that class.
FitsUnlessReshaped ==
    \A t \in Tasks : at[t] # "idle" /\ granted[t] < asked[t] => reshaped

-----------------------------------------------------------------------------
(***************************************************************************)
(* The inductive invariant                                                 *)
(***************************************************************************)
PoolsInv == ~reshaped => \A i \in Classes : \A j \in DOMAIN pools[i] : pools[i][j] = ClassSize[i]

HeldInv == \A t \in Tasks : at[t] # "idle" => (~reshaped => ~Misfit(capacity[t]))

PoolInv == TypeOK /\ FitsUnlessReshaped /\ PoolsInv /\ HeldInv
=============================================================================
