-------------------------- MODULE BufferPoolProofs --------------------------
(***************************************************************************)
(* Proofs about module BufferPool, for any size classes, limits, tasks and *)
(* lengths.                                                                *)
(***************************************************************************)
EXTENDS BufferPool, TLAPS

LEMMA ClassFacts ==
    /\ \A i \in Classes : ClassSize[i] \in Nat
    /\ \A i, j \in Classes : i <= j => ClassSize[i] <= ClassSize[j]
<1>1. \A i \in Classes : i \in Nat /\ ClassSize[i] \in Nat
  BY ClassAssumption DEF Classes
<1>2. ASSUME NEW i \in Classes, NEW j \in Classes, i <= j PROVE ClassSize[i] <= ClassSize[j]
  <2>1. CASE i = j
    BY <1>1, <2>1
  <2>2. CASE i < j
    BY <1>1, <2>2, ClassAssumption
  <2>. QED BY <1>1, <1>2, <2>1, <2>2
<1>. QED BY <1>1, <1>2

LEMMA LastTaken ==
    ASSUME NEW S, NEW s \in Seq(S), s # <<>>
    PROVE  /\ Len(s) \in DOMAIN s /\ s[Len(s)] \in S
           /\ SubSeq(s, 1, Len(s) - 1) \in Seq(S)
           /\ Len(SubSeq(s, 1, Len(s) - 1)) <= Len(s)
           /\ \A j \in DOMAIN SubSeq(s, 1, Len(s) - 1) :
                 j \in DOMAIN s /\ SubSeq(s, 1, Len(s) - 1)[j] = s[j]
OBVIOUS

LEMMA Appended ==
    ASSUME NEW S, NEW s \in Seq(S), NEW e \in S
    PROVE  /\ Append(s, e) \in Seq(S) /\ Len(Append(s, e)) = Len(s) + 1
           /\ \A j \in DOMAIN Append(s, e) :
                 (j \in DOMAIN s /\ Append(s, e)[j] = s[j]) \/ Append(s, e)[j] = e
OBVIOUS

\* What holds of the pools alone.
InPools == PoolsInv /\ pools \in [Classes -> Seq(Nat)]
              /\ \A i \in Classes : Len(pools[i]) <= MaxBuffers

\* get_buffer keeps the pools in order, and gives a buffer that is large enough
\* when no buffer has been reshaped.
LEMMA GetBufferGives ==
    ASSUME InPools, NEW n \in Nat, NEW k, GetBuffer(n, k)
    PROVE  /\ k \in Nat
           /\ pools' \in [Classes -> Seq(Nat)]
           /\ \A i \in Classes :
                 /\ Len(pools'[i]) <= MaxBuffers
                 /\ \A j \in DOMAIN pools'[i] : \E l \in DOMAIN pools[i] : pools'[i][j] = pools[i][l]
           /\ ~reshaped => k >= n /\ ~Misfit(k)
<1>1. /\ pools \in [Classes -> Seq(Nat)] /\ \A i \in Classes : pools[i] \in Seq(Nat)
      /\ \A i \in Classes : Len(pools[i]) <= MaxBuffers /\ Len(pools[i]) \in Nat
  BY DEF InPools
<1>2. ASSUME NEW i \in Classes, IsClassOf(i, n), pools[i] # <<>>, k = pools[i][Len(pools[i])],
             pools' = [pools EXCEPT ![i] = SubSeq(@, 1, Len(@) - 1)]
      PROVE  /\ k \in Nat
             /\ pools' \in [Classes -> Seq(Nat)]
             /\ \A d \in Classes :
                   /\ Len(pools'[d]) <= MaxBuffers
                   /\ \A j \in DOMAIN pools'[d] : \E l \in DOMAIN pools[d] : pools'[d][j] = pools[d][l]
             /\ ~reshaped => k >= n /\ ~Misfit(k)
  <2>. DEFINE s == pools[i]
              r == SubSeq(s, 1, Len(s) - 1)
  <2>1. /\ k \in Nat /\ Len(s) \in DOMAIN s /\ r \in Seq(Nat) /\ Len(r) <= Len(s)
        /\ \A j \in DOMAIN r : j \in DOMAIN s /\ r[j] = s[j]
    <3>1. s \in Seq(Nat) /\ s # <<>> /\ k = s[Len(s)]
      BY <1>1, <1>2
    <3>. HIDE DEF s
    <3>. QED BY <3>1, LastTaken
  <2>2. pools' = [pools EXCEPT ![i] = r]
    BY <1>2
  <2>3. Len(r) \in Nat
    BY <2>1
  <2>4. ~reshaped => k = ClassSize[i]
    BY <1>2, <2>1 DEF InPools, PoolsInv
  <2>5. ~reshaped => k >= n /\ ~Misfit(k)
    BY <1>2, <2>4 DEF IsClassOf, Fits, Misfit
  <2>. HIDE DEF r
  <2>6. pools' \in [Classes -> Seq(Nat)]
    BY <1>1, <2>1, <2>2
  <2>7. ASSUME NEW d \in Classes
        PROVE  /\ Len(pools'[d]) <= MaxBuffers
               /\ \A j \in DOMAIN pools'[d] : \E l \in DOMAIN pools[d] : pools'[d][j] = pools[d][l]
    <3>1. CASE d = i
      <4>1. pools'[d] = r
        BY <1>1, <2>2, <3>1
      <4>2. Len(r) <= MaxBuffers
        BY <1>1, <2>1, <2>3, LimitAssumption
      <4>. QED BY <2>1, <3>1, <4>1, <4>2
    <3>2. CASE d # i
      <4>1. pools'[d] = pools[d]
        BY <1>1, <2>2, <3>2
      <4>. QED BY <1>1, <4>1
    <3>. QED BY <3>1, <3>2
  <2>. QED BY <2>1, <2>5, <2>6, <2>7
<1>3. ASSUME UNCHANGED pools, \/ \E i \in Classes : IsClassOf(i, n) /\ k = ClassSize[i]
                              \/ Fits(n) = {} /\ k = n
      PROVE  k \in Nat /\ k >= n /\ ~Misfit(k)
  BY <1>3, ClassFacts DEF IsClassOf, Fits, Misfit
<1>. QED BY <1>1, <1>2, <1>3 DEF GetBuffer

\* return_buffer keeps the pools in order.
LEMMA ReturnKeepsPools ==
    ASSUME InPools, NEW k \in Nat, ~reshaped => ~Misfit(k), NEW i \in Classes,
           k > 0, k <= MaxPooled, IsClassOf(i, k), Len(pools[i]) < MaxBuffers,
           pools' = [pools EXCEPT ![i] = Append(@, k)], UNCHANGED reshaped
    PROVE  InPools'
<1>1. /\ pools \in [Classes -> Seq(Nat)] /\ pools[i] \in Seq(Nat) /\ Len(pools[i]) \in Nat
      /\ \A d \in Classes : Len(pools[d]) <= MaxBuffers
  BY DEF InPools
<1>2. ~reshaped => k = ClassSize[i]
  <2>. SUFFICES ASSUME ~reshaped PROVE k = ClassSize[i]
    OBVIOUS
  <2>1. i \in Fits(k) /\ ClassSize[i] >= k
    BY DEF IsClassOf, Fits
  <2>2. PICK j \in Classes : ClassSize[j] = k
    BY <2>1 DEF Misfit
  <2>3. j \in Fits(k) /\ i <= j
    BY <2>2 DEF Fits, IsClassOf
  <2>. QED BY <2>1, <2>2, <2>3, ClassFacts
<1>. DEFINE r == Append(pools[i], k)
<1>3. /\ r \in Seq(Nat) /\ Len(r) = Len(pools[i]) + 1
      /\ \A j \in DOMAIN r : (j \in DOMAIN pools[i] /\ r[j] = pools[i][j]) \/ r[j] = k
  BY <1>1, Appended
<1>4. pools' = [pools EXCEPT ![i] = r]
  OBVIOUS
<1>5. Len(r) <= MaxBuffers
  BY <1>1, <1>3, LimitAssumption
<1>. HIDE DEF r
<1>6. pools' \in [Classes -> Seq(Nat)] /\ pools'[i] = r /\ \A d \in Classes \ {i} : pools'[d] = pools[d]
  BY <1>1, <1>3, <1>4
<1>7. \A d \in Classes : Len(pools'[d]) <= MaxBuffers
  BY <1>1, <1>5, <1>6
<1>9. PoolsInv'
  <2>1. ASSUME ~reshaped, NEW d \in Classes, NEW j \in DOMAIN pools'[d]
        PROVE  pools'[d][j] = ClassSize[d]
    <3>1. CASE d = i
      BY <1>2, <1>3, <1>6, <2>1, <3>1 DEF InPools, PoolsInv
    <3>2. CASE d # i
      BY <1>6, <2>1, <3>2 DEF InPools, PoolsInv
    <3>. QED BY <3>1, <3>2
  <2>. QED BY <2>1 DEF PoolsInv
<1>. QED BY <1>6, <1>7, <1>9 DEF InPools

-----------------------------------------------------------------------------
(***************************************************************************)
(* What a task holds                                                       *)
(***************************************************************************)
Holds ==
    /\ at \in [Tasks -> {"idle", "using", "reading"}]
    /\ asked \in [Tasks -> Nat] /\ granted \in [Tasks -> Nat] /\ capacity \in [Tasks -> Nat]
    /\ reshaped \in BOOLEAN
    /\ FitsUnlessReshaped /\ HeldInv

LEMMA InvParts == PoolInv => InPools /\ Holds
BY DEF PoolInv, TypeOK, InPools, Holds

LEMMA PartsInv == ASSUME InPools', Holds' PROVE PoolInv'
BY DEF PoolInv, TypeOK, InPools, Holds

LEMMA HoldKeeps ==
    ASSUME Holds, NEW t \in Tasks, NEW how \in {"using", "reading"}, NEW n \in Nat, NEW k \in Nat,
           NEW now \in Nat, Hold(t, how, n, k, now),
           reshaped' \in BOOLEAN, reshaped => reshaped', ~reshaped' => ~Misfit(now),
           k < n => reshaped
    PROVE  Holds'
<1>0. at \in [Tasks -> {"idle", "using", "reading"}] /\ asked \in [Tasks -> Nat]
      /\ granted \in [Tasks -> Nat] /\ capacity \in [Tasks -> Nat]
  BY DEF Holds
<1>1. /\ at' \in [Tasks -> {"idle", "using", "reading"}] /\ asked' \in [Tasks -> Nat]
      /\ granted' \in [Tasks -> Nat] /\ capacity' \in [Tasks -> Nat]
  BY <1>0 DEF Hold
<1>2. /\ at'[t] = how /\ asked'[t] = n /\ granted'[t] = k /\ capacity'[t] = now
      /\ \A u \in Tasks \ {t} : /\ at'[u] = at[u] /\ asked'[u] = asked[u]
                                /\ granted'[u] = granted[u] /\ capacity'[u] = capacity[u]
  BY <1>0 DEF Hold
<1>3. FitsUnlessReshaped'
  BY <1>2 DEF Holds, FitsUnlessReshaped
<1>4. HeldInv'
  <2>1. ASSUME NEW u \in Tasks, at'[u] # "idle", ~reshaped' PROVE ~Misfit(capacity'[u])
    <3>1. CASE u = t
      BY <1>2, <2>1, <3>1
    <3>2. CASE u # t
      BY <1>2, <2>1, <3>2 DEF Holds, HeldInv
    <3>. QED BY <3>1, <3>2
  <2>. QED BY <2>1 DEF HeldInv, Misfit, Fits
<1>. QED BY <1>1, <1>3, <1>4 DEF Holds

LEMMA ReleaseKeeps ==
    ASSUME Holds, NEW t \in Tasks, Release(t)
    PROVE  Holds'
<1>1. /\ at' \in [Tasks -> {"idle", "using", "reading"}] /\ asked' \in [Tasks -> Nat]
      /\ granted' \in [Tasks -> Nat] /\ capacity' \in [Tasks -> Nat]
  BY DEF Holds, Release
<1>2. /\ at'[t] = "idle" /\ UNCHANGED reshaped
      /\ \A u \in Tasks \ {t} : /\ at'[u] = at[u] /\ asked'[u] = asked[u]
                                /\ granted'[u] = granted[u] /\ capacity'[u] = capacity[u]
  BY DEF Holds, Release
<1>3. FitsUnlessReshaped'
  BY <1>2 DEF Holds, FitsUnlessReshaped
<1>4. HeldInv'
  BY <1>2 DEF Holds, HeldInv, Misfit, Fits
<1>. QED BY <1>1, <1>2, <1>3, <1>4 DEF Holds

-----------------------------------------------------------------------------
LEMMA GiveKeeps ==
    ASSUME PoolInv, NEW t \in Tasks, NEW n \in Sizes, Get(t, n) \/ StartFrame(t, n)
    PROVE  PoolInv'
<1>1. InPools /\ Holds /\ n \in Nat
  BY InvParts, SizesAssumption
<1>2. PICK k \in Capacities : /\ GetBuffer(n, k)
                              /\ \/ Hold(t, "using", n, k, k)
                                 \/ Hold(t, "reading", n, k, Grow(k, n))
  BY DEF Get, StartFrame
<1>3. /\ k \in Nat /\ pools' \in [Classes -> Seq(Nat)]
      /\ \A i \in Classes :
            /\ Len(pools'[i]) <= MaxBuffers
            /\ \A j \in DOMAIN pools'[i] : \E l \in DOMAIN pools[i] : pools'[i][j] = pools[i][l]
      /\ ~reshaped => k >= n /\ ~Misfit(k)
  BY <1>1, <1>2, GetBufferGives
<1>4. reshaped' = reshaped /\ reshaped \in BOOLEAN
  BY <1>1 DEF Get, StartFrame, Holds
<1>5. PoolsInv'
  BY <1>1, <1>3, <1>4 DEF InPools, PoolsInv
<1>6. InPools'
  BY <1>3, <1>5 DEF InPools
<1>7. k < n => reshaped
  BY <1>1, <1>3, <1>4
<1>8. CASE Hold(t, "using", n, k, k)
  <2>1. Holds'
    BY <1>1, <1>3, <1>4, <1>7, <1>8, HoldKeeps
  <2>. QED BY <1>6, <2>1, PartsInv
<1>9. CASE Hold(t, "reading", n, k, Grow(k, n))
  <2>1. Grow(k, n) \in Nat /\ (~reshaped => Grow(k, n) = k)
    BY <1>1, <1>3, <1>4 DEF Grow, Larger
  <2>2. ~reshaped' => ~Misfit(Grow(k, n))
    BY <1>3, <1>4, <2>1
  <2>3. Holds'
    BY <1>1, <1>3, <1>4, <1>7, <1>9, <2>1, <2>2, HoldKeeps
  <2>. QED BY <1>6, <2>3, PartsInv
<1>. QED BY <1>2, <1>8, <1>9

LEMMA ReshapeKeeps ==
    ASSUME PoolInv, NEW t \in Tasks, NEW k \in Sizes, Reshape(t, k)
    PROVE  PoolInv'
<1>1. InPools /\ Holds /\ k \in Nat /\ asked[t] \in Nat /\ granted[t] \in Nat
  BY InvParts, SizesAssumption DEF Holds
<1>2. /\ at[t] = "using" /\ UNCHANGED pools /\ reshaped' = (reshaped \/ Misfit(k))
      /\ Hold(t, "using", asked[t], granted[t], k)
  BY DEF Reshape
<1>3. reshaped' \in BOOLEAN /\ (reshaped => reshaped') /\ (~reshaped' => ~Misfit(k))
  BY <1>2
<1>4. granted[t] < asked[t] => reshaped
  BY <1>1, <1>2 DEF Holds, FitsUnlessReshaped
<1>5. Holds'
  BY <1>1, <1>2, <1>3, <1>4, HoldKeeps
<1>6. InPools'
  BY <1>1, <1>2, <1>3 DEF InPools, PoolsInv
<1>. QED BY <1>5, <1>6, PartsInv

LEMMA LeaveKeeps ==
    ASSUME PoolInv, NEW t \in Tasks, IntoVec(t) \/ Return(t)
    PROVE  PoolInv'
<1>1. InPools /\ Holds /\ Release(t) /\ at[t] # "idle" /\ capacity[t] \in Nat
  BY InvParts DEF IntoVec, Return, Holds
<1>2. Holds' /\ UNCHANGED reshaped
  BY <1>1, ReleaseKeeps DEF Release
<1>3. CASE UNCHANGED pools
  <2>1. InPools'
    BY <1>1, <1>2, <1>3 DEF InPools, PoolsInv
  <2>. QED BY <1>2, <2>1, PartsInv
<1>4. ASSUME NEW i \in Classes, capacity[t] > 0, capacity[t] <= MaxPooled,
             IsClassOf(i, capacity[t]), Len(pools[i]) < MaxBuffers,
             pools' = [pools EXCEPT ![i] = Append(@, capacity[t])]
      PROVE  PoolInv'
  <2>1. ~reshaped => ~Misfit(capacity[t])
    BY <1>1 DEF Holds, HeldInv
  <2>2. InPools'
    BY <1>1, <1>2, <1>4, <2>1, ReturnKeepsPools
  <2>. QED BY <1>2, <2>2, PartsInv
<1>. QED BY <1>3, <1>4 DEF IntoVec, Return

LEMMA PoolStep == PoolInv /\ [Next]_vars => PoolInv'
<1>. SUFFICES ASSUME PoolInv, [Next]_vars PROVE PoolInv'
  OBVIOUS
<1>1. ASSUME NEW t \in Tasks, TaskStep(t) PROVE PoolInv'
  BY <1>1, GiveKeeps, ReshapeKeeps, LeaveKeeps DEF TaskStep
<1>2. CASE UNCHANGED vars
  BY <1>2 DEF vars, PoolInv, TypeOK, FitsUnlessReshaped, PoolsInv, HeldInv, Misfit, Fits
<1>. QED BY <1>1, <1>2 DEF Next

\* The inductive invariant: what is in the pools and in hand has the size of a class,
\* until a user has left a buffer between them.
THEOREM PoolInvariant == Spec => []PoolInv
<1>1. Init => PoolInv
  <2>. SUFFICES ASSUME Init PROVE PoolInv
    OBVIOUS
  <2>1. \A i \in Classes : pools[i] = <<>> /\ Len(pools[i]) = 0 /\ DOMAIN pools[i] = {}
    BY DEF Init
  <2>2. \A t \in Tasks : at[t] = "idle"
    BY DEF Init
  <2>3. TypeOK
    <3>1. <<>> \in Seq(Nat)
      OBVIOUS
    <3>2. pools \in [Classes -> Seq(Nat)]
      BY <3>1 DEF Init
    <3>3. \A i \in Classes : Len(pools[i]) <= MaxBuffers
      BY <2>1, LimitAssumption
    <3>4. /\ at \in [Tasks -> {"idle", "using", "reading"}] /\ reshaped \in BOOLEAN
          /\ asked \in [Tasks -> Nat] /\ granted \in [Tasks -> Nat] /\ capacity \in [Tasks -> Nat]
      BY DEF Init
    <3>. QED BY <3>2, <3>3, <3>4 DEF TypeOK
  <2>. QED BY <2>1, <2>2, <2>3
           DEF PoolInv, FitsUnlessReshaped, PoolsInv, HeldInv
<1>. QED BY <1>1, PoolStep, PTL DEF Spec

\* Every variable of the pool has the values the code can give it, and no class holds
\* more buffers than the limit.
THEOREM PoolTypes == Spec => []TypeOK
<1>1. PoolInv => TypeOK
  BY DEF PoolInv
<1>. QED BY <1>1, PoolInvariant, PTL

\* get keeps its promise for any classes, as long as nobody leaves a buffer between them.
THEOREM GetGivesEnough == Spec => []FitsUnlessReshaped
<1>1. PoolInv => FitsUnlessReshaped
  BY DEF PoolInv
<1>. QED BY <1>1, PoolInvariant, PTL

=============================================================================
