--------------------------- MODULE TransportProofs ---------------------------
(***************************************************************************)
(* Proofs about callers and the transport manager, for any callers and     *)
(* strategies, any users and any number of connections.                    *)
(***************************************************************************)
EXTENDS TransportProperties, TLAPS

-----------------------------------------------------------------------------
(***************************************************************************)
(* The circuit breaker                                                     *)
(***************************************************************************)
Consistent(k) ==
    /\ k \in Circuit /\ k.failures <= Threshold
    /\ k.at = "closed" => k.failures < Threshold \/ Threshold = 0
    /\ k.at # "closed" => k.failures = Threshold
    /\ k.at = "half_open" => k.probes <= Probes

LEMMA ClosedIsConsistent == Consistent(ClosedCircuit)
BY CircuitAssumption DEF ClosedCircuit, Circuit, Consistent

\* A circuit that opens, or is half open, once its count is full.
LEMMA OpenConsistent ==
    ASSUME NEW k \in Circuit, k.failures = Threshold
    PROVE  /\ Consistent([k EXCEPT !.at = "open", !.elapsed = FALSE])
           /\ Consistent([k EXCEPT !.at = "half_open", !.probes = 0])
           /\ Consistent([k EXCEPT !.elapsed = TRUE]) \/ k.at # "open"
           /\ \A n \in 0..Probes : k.at = "half_open" => Consistent([k EXCEPT !.probes = n])
<1>1. Consistent([k EXCEPT !.at = "open", !.elapsed = FALSE])
  <2>. DEFINE j == [k EXCEPT !.at = "open", !.elapsed = FALSE]
  <2>1. j \in Circuit
    BY DEF Circuit
  <2>2. j.at = "open" /\ j.failures = k.failures
    BY DEF Circuit
  <2>. HIDE DEF j
  <2>3. Consistent(j)
    BY <2>1, <2>2, CircuitAssumption DEF Consistent
  <2>. QED BY <2>3 DEF j
<1>2. Consistent([k EXCEPT !.at = "half_open", !.probes = 0])
  <2>. DEFINE j == [k EXCEPT !.at = "half_open", !.probes = 0]
  <2>1. j \in Circuit
    BY DEF Circuit
  <2>2. j.at = "half_open" /\ j.failures = k.failures /\ j.probes = 0
    BY DEF Circuit
  <2>. HIDE DEF j
  <2>3. Consistent(j)
    BY <2>1, <2>2, CircuitAssumption DEF Consistent
  <2>. QED BY <2>3 DEF j
<1>3. k.at = "open" => Consistent([k EXCEPT !.elapsed = TRUE])
  <2>. DEFINE j == [k EXCEPT !.elapsed = TRUE]
  <2>1. j \in Circuit
    BY DEF Circuit
  <2>2. j.at = k.at /\ j.failures = k.failures
    BY DEF Circuit
  <2>. HIDE DEF j
  <2>3. k.at = "open" => Consistent(j)
    BY <2>1, <2>2, CircuitAssumption DEF Consistent
  <2>. QED BY <2>3 DEF j
<1>4. ASSUME NEW n \in 0..Probes, k.at = "half_open" PROVE Consistent([k EXCEPT !.probes = n])
  BY <1>4, CircuitAssumption DEF Circuit, Consistent
<1>. QED BY <1>1, <1>2, <1>3, <1>4

\* A count that has reached the threshold opens the circuit.
LEMMA UpdateConsistent ==
    ASSUME NEW k \in Circuit, k.failures <= Threshold,
           k.at # "closed" => k.failures = Threshold,
           k.at = "half_open" => k.probes <= Probes
    PROVE  Consistent(UpdateState(k))
<1>1. CASE k.at = "open" /\ k.elapsed
  BY <1>1, OpenConsistent DEF UpdateState
<1>2. CASE k.at = "closed" /\ k.failures >= Threshold
  <2>1. k.failures = Threshold
    BY <1>2, CircuitAssumption DEF Circuit
  <2>. QED BY <1>2, <2>1, OpenConsistent DEF UpdateState
<1>3. CASE ~(k.at = "open" /\ k.elapsed) /\ ~(k.at = "closed" /\ k.failures >= Threshold)
  <2>1. UpdateState(k) = k
    BY <1>3 DEF UpdateState
  <2>. QED BY <1>3, <2>1, CircuitAssumption DEF Circuit, Consistent
<1>. QED BY <1>1, <1>2, <1>3

LEMMA FailureConsistent ==
    ASSUME NEW k, Consistent(k)
    PROVE  Consistent(OnDisconnected(k))
<1>. DEFINE n == IF k.failures < Threshold THEN k.failures + 1 ELSE k.failures
            j == [k EXCEPT !.failures = n]
<1>1. /\ k \in Circuit /\ n \in Nat /\ n <= Threshold
      /\ k.at # "closed" => n = Threshold
  BY CircuitAssumption DEF Circuit, Consistent
<1>. HIDE DEF n
<1>2. j \in Circuit /\ j.failures = n /\ j.at = k.at /\ j.probes = k.probes
  BY <1>1 DEF Circuit
<1>3. OnDisconnected(k) = UpdateState(j)
  BY DEF OnDisconnected, n
<1>. HIDE DEF j
<1>4. k.at = "half_open" => k.probes <= Probes
  BY DEF Consistent
<1>. QED BY <1>1, <1>2, <1>3, <1>4, UpdateConsistent

LEMMA AskConsistent ==
    ASSUME NEW k, Consistent(k)
    PROVE  Consistent(AskCircuit(k).next)
<1>. DEFINE u == UpdateState(k)
<1>1. Consistent(u)
  BY UpdateConsistent DEF Consistent
<1>. HIDE DEF u
<1>2. CASE u.at \in {"closed", "open"}
  BY <1>1, <1>2 DEF AskCircuit, u
<1>3. CASE u.at = "half_open"
  <2>1. u \in Circuit /\ u.failures = Threshold /\ u.probes \in Nat
    BY <1>1, <1>3 DEF Consistent, Circuit
  <2>2. CASE u.probes < Probes
    <3>1. AskCircuit(k).next = [u EXCEPT !.probes = u.probes + 1]
      BY <1>3, <2>2 DEF AskCircuit, u
    <3>2. u.probes + 1 \in 0..Probes
      BY <2>1, <2>2, CircuitAssumption
    <3>. QED BY <1>3, <2>1, <3>1, <3>2, OpenConsistent
  <2>3. CASE ~(u.probes < Probes)
    <3>1. AskCircuit(k).next = [u EXCEPT !.at = "open", !.elapsed = FALSE]
      BY <1>3, <2>3 DEF AskCircuit, u
    <3>. QED BY <2>1, <3>1, OpenConsistent
  <2>. QED BY <2>2, <2>3
<1>. QED BY <1>1, <1>2, <1>3 DEF Consistent, Circuit

\* Whatever a strategy is, asking it leaves its circuit consistent.
LEMMA ShouldConsistent ==
    ASSUME NEW c \in Callers, NEW k, Consistent(k)
    PROVE  Consistent(ShouldReconnect(c, k).next)
BY AskConsistent DEF ShouldReconnect

-----------------------------------------------------------------------------
(***************************************************************************)
(* The steps of callers                                                    *)
(***************************************************************************)
CircuitsInv ==
    circuit \in [Strategies -> Circuit] /\ \A s \in Strategies : Consistent(circuit[s])

LEMMA CircuitsKeep ==
    ASSUME CircuitsInv,
           \/ circuit' = circuit
           \/ \E s \in Strategies, k \in Circuit :
                 Consistent(k) /\ circuit' = [circuit EXCEPT ![s] = k]
    PROVE  CircuitsInv'
<1>1. CASE circuit' = circuit
  BY <1>1 DEF CircuitsInv, Consistent
<1>2. ASSUME NEW s \in Strategies, NEW k \in Circuit, Consistent(k),
             circuit' = [circuit EXCEPT ![s] = k]
      PROVE  CircuitsInv'
  BY <1>2 DEF CircuitsInv, Consistent
<1>. QED BY <1>1, <1>2

\* A step that moves one loop: what it has to show of what that has counted.
LEMMA LoopMoves ==
    ASSUME CallerInv, NEW c \in Callers, CircuitsInv',
           NEW w \in Running \cup {"none", "ended"}, loop' = [loop EXCEPT ![c] = w],
           w \in Running => StrategyOf[c] # NoStrategy,
           state' \in [Callers -> States],
           NEW a \in Nat, attempt' = [attempt EXCEPT ![c] = a],
           NEW t \in Nat, tries' = [tries EXCEPT ![c] = t],
           HasLimit(c) => Counted(c)',
           remote' \in {"up", "down"}, commands' \in Nat
    PROVE  CallerInv'
<1>. USE DEF CallerInv
<1>1. CallerTypes'
  BY DEF CallerTypes, CircuitsInv
<1>2. /\ loop'[c] = w
      /\ \A d \in Callers \ {c} : /\ loop'[d] = loop[d] /\ attempt'[d] = attempt[d]
                                  /\ tries'[d] = tries[d]
  BY DEF CallerTypes
<1>3. LoopInv'
  BY <1>2 DEF LoopInv
<1>4. CountInv'
  <2>1. \A d \in Callers \ {c} : HasLimit(d) => Counted(d)'
    BY <1>2 DEF CountInv, Counted
  <2>. QED BY <2>1 DEF CountInv, HasLimit, Limited
<1>5. FailureInv' /\ CircuitConsistent'
  BY DEF FailureInv, CircuitConsistent, CircuitsInv, Consistent
<1>. QED BY <1>1, <1>3, <1>4, <1>5

\* A step that stays beside the loops and the circuits.
LEMMA Beside ==
    ASSUME CallerInv, UNCHANGED <<loop, attempt, tries, circuit>>,
           state' \in [Callers -> States], remote' \in {"up", "down"}, commands' \in Nat
    PROVE  CallerInv'
<1>. USE DEF CallerInv
<1>1. CallerTypes' /\ LoopInv' /\ FailureInv' /\ CircuitConsistent'
  BY DEF CallerTypes, LoopInv, FailureInv, CircuitConsistent
<1>2. CountInv'
  BY DEF CountInv, HasLimit, Limited, Counted
<1>. QED BY <1>1, <1>2

LEMMA CircuitsHold == CallerInv => CircuitsInv
BY DEF CallerInv, CallerTypes, FailureInv, CircuitConsistent, CircuitsInv, Consistent

\* Of a loop with a strategy.
LEMMA RunningLoop ==
    ASSUME CallerInv, NEW c \in Callers, loop[c] \in Running
    PROVE  /\ StrategyOf[c] # NoStrategy /\ StrategyOf[c] \in Strategies
           /\ attempt[c] \in Nat /\ tries[c] \in Nat
           /\ circuit[StrategyOf[c]] \in Circuit /\ Consistent(circuit[StrategyOf[c]])
BY StrategyAssumption, CircuitsHold DEF CallerInv, CallerTypes, LoopInv, CircuitsInv

LEMMA SameCounts ==
    ASSUME CallerInv, NEW c \in Callers, UNCHANGED <<attempt, tries>>
    PROVE  /\ attempt' = [attempt EXCEPT ![c] = attempt[c]] /\ attempt[c] \in Nat
           /\ tries' = [tries EXCEPT ![c] = tries[c]] /\ tries[c] \in Nat
BY DEF CallerInv, CallerTypes

LEMMA World ==
    CallerInv => /\ remote \in {"up", "down"} /\ commands \in Nat
                 /\ state \in [Callers -> States]
BY DEF CallerInv, CallerTypes

\* A step that moves a loop, and counts nothing.
LEMMA LoopOnly ==
    ASSUME CallerInv, NEW c \in Callers, CircuitsInv',
           NEW w \in Running \cup {"none", "ended"}, loop' = [loop EXCEPT ![c] = w],
           w \in Running => StrategyOf[c] # NoStrategy,
           state' \in [Callers -> States], UNCHANGED <<attempt, tries>>,
           HasLimit(c) => Counted(c)',
           remote' \in {"up", "down"}, commands' \in Nat
    PROVE  CallerInv'
<1>. DEFINE a == attempt[c]
            t == tries[c]
<1>1. /\ attempt' = [attempt EXCEPT ![c] = a] /\ a \in Nat
      /\ tries' = [tries EXCEPT ![c] = t] /\ t \in Nat
  BY SameCounts
<1>. HIDE DEF a, t
<1>. QED BY <1>1, LoopMoves

LEMMA LoopReads ==
    ASSUME CallerInv, NEW c \in Callers,
           Check(c) \/ BeginConnect(c) \/ ConnectSucceeds(c) \/ SeeChange(c) \/ GiveUp(c)
              \/ BackOff(c)
    PROVE  CallerInv'
<1>1. /\ loop[c] \in Running /\ UNCHANGED <<attempt, tries, circuit, remote, commands>>
      /\ state' \in [Callers -> States]
  BY DEF Check, BeginConnect, ConnectSucceeds, SeeChange, GiveUp, BackOff, Running, SetTo, States,
         CallerInv, CallerTypes
<1>2. PICK w \in Running \cup {"none", "ended"} :
         /\ loop' = [loop EXCEPT ![c] = w]
         /\ \/ w = "ended"
            \/ loop[c] = "check" /\ w = "connect"
            \/ loop[c] = "connect" /\ w = "connecting"
            \/ loop[c] = "connecting" /\ w = "announce"
            \/ loop[c] = "up" /\ w = "check"
            \/ loop[c] = "back_off" /\ w = "sleep"
  BY DEF Check, BeginConnect, ConnectSucceeds, SeeChange, GiveUp, BackOff, Running, GoTo
<1>3. HasLimit(c) => Counted(c)'
  <2>. SUFFICES ASSUME HasLimit(c) PROVE Counted(c)'
    OBVIOUS
  <2>1. Counted(c) /\ loop'[c] = w /\ Limit[StrategyOf[c]] \in Nat
    BY <1>2, StrategyAssumption DEF CallerInv, CallerTypes, CountInv, HasLimit, Limited
  <2>. QED BY <1>1, <1>2, <2>1 DEF Counted, Running
<1>4. CircuitsInv'
  BY <1>1, CircuitsHold, CircuitsKeep
<1>. QED BY <1>1, <1>2, <1>3, <1>4, RunningLoop, SameCounts, World, LoopMoves

\* What a loop leaves in the circuit of its strategy is consistent.
LEMMA TellKeeps ==
    ASSUME CallerInv, NEW c \in Callers, loop[c] \in Running, NEW k, Consistent(k), Tell(c, k)
    PROVE  CircuitsInv'
<1>. DEFINE s == StrategyOf[c]
            j == IF Policy[s] = "circuit" THEN k ELSE circuit[s]
<1>1. s \in Strategies /\ j \in Circuit /\ Consistent(j)
  BY RunningLoop DEF Consistent
<1>2. circuit' = [circuit EXCEPT ![s] = j]
  BY DEF Tell
<1>. QED BY <1>1, <1>2, CircuitsHold, CircuitsKeep

LEMMA AnnounceKeeps ==
    ASSUME CallerInv, NEW c \in Callers, Announce(c)
    PROVE  CallerInv'
<1>1. /\ loop[c] \in Running /\ loop' = [loop EXCEPT ![c] = "up"]
      /\ attempt' = [attempt EXCEPT ![c] = 0] /\ tries' = [tries EXCEPT ![c] = 0]
      /\ UNCHANGED <<remote, commands>>
      /\ Tell(c, OnConnected(circuit[StrategyOf[c]]))
  BY DEF Announce, Running, GoTo
<1>2. state' \in [Callers -> States]
  BY World DEF Announce, SetTo, States
<1>3. CircuitsInv'
  BY <1>1, ClosedIsConsistent, TellKeeps DEF OnConnected
<1>4. HasLimit(c) => Counted(c)'
  <2>1. loop'[c] = "up" /\ attempt'[c] = 0 /\ tries'[c] = 0
    BY <1>1 DEF CallerInv, CallerTypes
  <2>2. HasLimit(c) => Limit[StrategyOf[c]] \in Nat
    BY StrategyAssumption DEF HasLimit, Limited
  <2>. QED BY <2>1, <2>2 DEF Counted
<1>5. "up" \in Running
  BY DEF Running
<1>. QED BY <1>1, <1>2, <1>3, <1>4, <1>5, RunningLoop, World, LoopMoves

LEMMA ConnectFailsKeeps ==
    ASSUME CallerInv, NEW c \in Callers, ConnectFails(c)
    PROVE  CallerInv'
<1>. DEFINE t == IF Limited(c) THEN tries[c] + 1 ELSE tries[c]
<1>1. /\ loop[c] = "connecting" /\ loop[c] \in Running
      /\ loop' = [loop EXCEPT ![c] = "asking"]
      /\ tries' = [tries EXCEPT ![c] = t] /\ UNCHANGED attempt
      /\ UNCHANGED <<state, remote, commands>>
      /\ Tell(c, OnDisconnected(circuit[StrategyOf[c]]))
  BY DEF ConnectFails, Running, GoTo
<1>2. CircuitsInv'
  BY <1>1, RunningLoop, FailureConsistent, TellKeeps
<1>3. HasLimit(c) => Counted(c)'
  <2>. SUFFICES ASSUME HasLimit(c) PROVE Counted(c)'
    OBVIOUS
  <2>1. Counted(c) /\ loop'[c] = "asking" /\ attempt'[c] = attempt[c] /\ tries'[c] = tries[c] + 1
    BY <1>1 DEF CallerInv, CallerTypes, CountInv, HasLimit
  <2>2. Limit[StrategyOf[c]] \in Nat /\ attempt[c] \in Nat /\ tries[c] \in Nat
    BY <1>1, RunningLoop, StrategyAssumption DEF HasLimit, Limited
  <2>. QED BY <1>1, <2>1, <2>2 DEF Counted
<1>4. "asking" \in Running /\ t \in Nat
  BY <1>1, RunningLoop DEF Running
<1>5. attempt' = [attempt EXCEPT ![c] = attempt[c]] /\ attempt[c] \in Nat
  BY <1>1 DEF CallerInv, CallerTypes
<1>. HIDE DEF t
<1>. QED BY <1>1, <1>2, <1>3, <1>4, <1>5, RunningLoop, World, LoopMoves

LEMMA AskStrategyKeeps ==
    ASSUME CallerInv, NEW c \in Callers, AskStrategy(c)
    PROVE  CallerInv'
<1>. DEFINE s == StrategyOf[c]
            asked == ShouldReconnect(c, circuit[s])
            w == IF asked.retry THEN "back_off" ELSE "give_up"
<1>1. /\ loop[c] = "asking" /\ loop[c] \in Running
      /\ loop' = [loop EXCEPT ![c] = w]
      /\ UNCHANGED <<state, attempt, tries, remote, commands>>
  BY DEF AskStrategy, Running, GoTo
<1>2. CircuitsInv'
  <2>0. circuit' = [circuit EXCEPT ![s] = asked.next]
    BY DEF AskStrategy
  <2>1. s \in Strategies /\ Consistent(asked.next) /\ asked.next \in Circuit
    BY <1>1, RunningLoop, ShouldConsistent DEF Consistent
  <2>. HIDE DEF asked
  <2>. QED BY <2>0, <2>1, CircuitsHold, CircuitsKeep
<1>3. HasLimit(c) => Counted(c)'
  <2>. SUFFICES ASSUME HasLimit(c) PROVE Counted(c)'
    OBVIOUS
  <2>1. w = "back_off" => attempt[c] < Limit[s]
    BY DEF ShouldReconnect, HasLimit
  <2>. HIDE DEF w
  <2>2. Counted(c) /\ loop'[c] = w /\ attempt'[c] = attempt[c] /\ tries'[c] = tries[c]
    BY <1>1 DEF CallerInv, CallerTypes, CountInv, HasLimit
  <2>3. Limit[s] \in Nat /\ attempt[c] \in Nat /\ tries[c] \in Nat
    BY <1>1, RunningLoop, StrategyAssumption DEF HasLimit, Limited
  <2>4. w \in {"back_off", "give_up"}
    BY DEF w
  <2>. QED BY <1>1, <2>1, <2>2, <2>3, <2>4 DEF Counted
<1>4. w \in Running
  BY DEF Running
<1>. HIDE DEF w
<1>5. /\ UNCHANGED <<attempt, tries>>
      /\ state' \in [Callers -> States] /\ remote' \in {"up", "down"} /\ commands' \in Nat
      /\ StrategyOf[c] # NoStrategy
  BY <1>1, RunningLoop, World
<1>. QED BY <1>1, <1>2, <1>3, <1>4, <1>5, LoopOnly

LEMMA RetryKeeps ==
    ASSUME CallerInv, NEW c \in Callers, Retry(c)
    PROVE  CallerInv'
<1>. DEFINE a == IF Limited(c) THEN attempt[c] + 1 ELSE attempt[c]
<1>1. /\ loop[c] = "sleep" /\ loop[c] \in Running
      /\ loop' = [loop EXCEPT ![c] = "check"]
      /\ attempt' = [attempt EXCEPT ![c] = a] /\ UNCHANGED tries
      /\ UNCHANGED <<state, circuit, remote, commands>>
  BY DEF Retry, Running, GoTo
<1>2. CircuitsInv'
  BY <1>1, CircuitsHold, CircuitsKeep
<1>3. HasLimit(c) => Counted(c)'
  <2>. SUFFICES ASSUME HasLimit(c) PROVE Counted(c)'
    OBVIOUS
  <2>1. Counted(c) /\ loop'[c] = "check" /\ attempt'[c] = attempt[c] + 1 /\ tries'[c] = tries[c]
    BY <1>1 DEF CallerInv, CallerTypes, CountInv, HasLimit
  <2>2. Limit[StrategyOf[c]] \in Nat /\ attempt[c] \in Nat /\ tries[c] \in Nat
    BY <1>1, RunningLoop, StrategyAssumption DEF HasLimit, Limited
  <2>. QED BY <1>1, <2>1, <2>2 DEF Counted
<1>4. "check" \in Running /\ a \in Nat
  BY <1>1, RunningLoop DEF Running
<1>5. tries' = [tries EXCEPT ![c] = tries[c]] /\ tries[c] \in Nat
  BY <1>1 DEF CallerInv, CallerTypes
<1>. HIDE DEF a
<1>. QED BY <1>1, <1>2, <1>3, <1>4, <1>5, RunningLoop, World, LoopMoves

LEMMA StartLoopKeeps ==
    ASSUME CallerInv, NEW c \in Callers, StartLoop(c), circuit' = circuit,
           state' \in [Callers -> States], remote' = remote, commands' \in Nat
    PROVE  CallerInv'
<1>1. /\ StrategyOf[c] # NoStrategy /\ loop' = [loop EXCEPT ![c] = "check"]
      /\ attempt' = [attempt EXCEPT ![c] = 0] /\ tries' = [tries EXCEPT ![c] = 0]
  BY DEF StartLoop, GoTo
<1>2. CircuitsInv'
  BY CircuitsHold, CircuitsKeep
<1>3. HasLimit(c) => Counted(c)'
  <2>1. loop'[c] = "check" /\ attempt'[c] = 0 /\ tries'[c] = 0
    BY <1>1 DEF CallerInv, CallerTypes
  <2>2. HasLimit(c) => Limit[StrategyOf[c]] \in Nat
    BY StrategyAssumption DEF HasLimit, Limited
  <2>. QED BY <2>1, <2>2 DEF Counted
<1>4. "check" \in Running
  BY DEF Running
<1>. QED BY <1>1, <1>2, <1>3, <1>4, World, LoopMoves

LEMMA StopLoopKeeps ==
    ASSUME CallerInv, NEW c \in Callers, StopReconnectionLoop(c)
    PROVE  CallerInv'
<1>1. /\ loop' = [loop EXCEPT ![c] = "none"] /\ commands' = commands + 1
      /\ UNCHANGED <<state, attempt, tries, circuit, remote>>
  BY DEF StopReconnectionLoop, GoTo, Command
<1>2. CircuitsInv'
  BY <1>1, CircuitsHold, CircuitsKeep
<1>3. HasLimit(c) => Counted(c)'
  <2>1. HasLimit(c) => Counted(c) /\ loop'[c] = "none"
    BY <1>1 DEF CallerInv, CallerTypes, CountInv
  <2>. QED BY <1>1, <2>1 DEF Counted
<1>4. "none" \notin Running /\ commands' \in Nat
  BY <1>1, World DEF Running
<1>5. /\ state' \in [Callers -> States] /\ remote' \in {"up", "down"}
      /\ UNCHANGED <<attempt, tries>>
  BY <1>1, World
<1>. QED BY <1>1, <1>2, <1>3, <1>4, <1>5, LoopOnly

\* What is done to the circuit of a strategy from outside.
LEMMA CircuitKeeps ==
    ASSUME CallerInv, NEW s \in Strategies, CircuitTimeout(s) \/ CloseCircuit(s)
    PROVE  CallerInv'
<1>1. PICK k : Consistent(k) /\ circuit' = [circuit EXCEPT ![s] = k]
  <2>1. CASE CircuitTimeout(s)
    <3>1. circuit[s] \in Circuit /\ circuit[s].failures = Threshold /\ circuit[s].at = "open"
      BY <2>1, CircuitsHold DEF CircuitTimeout, CircuitsInv, Consistent
    <3>. QED BY <2>1, <3>1, OpenConsistent DEF CircuitTimeout
  <2>2. CASE CloseCircuit(s)
    BY <2>2, ClosedIsConsistent DEF CloseCircuit
  <2>. QED BY <2>1, <2>2
<1>2. CircuitsInv'
  BY <1>1, CircuitsHold, CircuitsKeep DEF Consistent
<1>3. UNCHANGED <<state, loop, attempt, tries, remote>> /\ commands' \in Nat
  BY World DEF CircuitTimeout, CloseCircuit, Command
<1>4. CallerTypes' /\ LoopInv' /\ FailureInv' /\ CircuitConsistent'
  BY <1>2, <1>3 DEF CallerInv, CallerTypes, LoopInv, FailureInv, CircuitConsistent, CircuitsInv,
     Consistent
<1>5. CountInv'
  BY <1>3 DEF CallerInv, CountInv, HasLimit, Limited, Counted
<1>. QED BY <1>4, <1>5 DEF CallerInv

LEMMA CallerNextKeeps ==
    ASSUME CallerInv, CallerNext(Callers \ Managed)
    PROVE  CallerInv'
<1>1. ASSUME NEW c \in Callers, LoopStep(c) PROVE CallerInv'
  BY <1>1, LoopReads, AnnounceKeeps, ConnectFailsKeeps, AskStrategyKeeps, RetryKeeps DEF LoopStep
<1>2. ASSUME NEW c \in Callers, UserStep(c) PROVE CallerInv'
  <2>1. ASSUME NEW s \in {"disconnected", "disabled"}, SetState(c, s) PROVE CallerInv'
    BY <2>1, World, Beside DEF SetState, SetTo, States, Command
  <2>2. CASE StartReconnectionLoop(c)
    BY <2>2, World, StartLoopKeeps DEF StartReconnectionLoop, Command
  <2>. QED BY <1>2, <2>1, <2>2, StopLoopKeeps DEF UserStep
<1>3. CASE RemoteChanges
  BY <1>3, World, Beside DEF RemoteChanges, Command
<1>. QED BY <1>1, <1>2, <1>3, CircuitKeeps DEF CallerNext

-----------------------------------------------------------------------------
(***************************************************************************)
(* The steps of the manager                                                *)
(***************************************************************************)
Tasks == {"idle", "store", "register", "connected", "start", "router", "active", "connection",
          "shutdown"}

LEMMA MoreIds ==
    ASSUME NEW S, NEW T, S \subseteq T, NEW s \in Seq(S)
    PROVE  s \in Seq(T)
OBVIOUS

\* What the next step of an operation changes.
LEMMA Proceeds ==
    ASSUME ManagerTypes, NEW u \in Users, NEW w \in Tasks, NEW i, Proceed(u, w, i)
    PROVE  /\ task' \in [Users -> Tasks] /\ task'[u] = w /\ hand'[u] = i
           /\ i \in Ids \cup {0} => hand' \in [Users -> Ids \cup {0}]
           /\ \A v \in Users \ {u} : task'[v] = task[v] /\ hand'[v] = hand[v]
BY DEF ManagerTypes, Proceed, Tasks

\* Callers, listeners and peers come and go beside the tables.
LEMMA TablesSame ==
    ASSUME ManagerInv,
           UNCHANGED <<nextId, accepted, active, connections, routers, connectedTo, task, hand,
                       target, todo, closed, overlapped, unrouted>>,
           callers' \in SUBSET Managed, handler' \in BOOLEAN,
           listener' \in {"absent", "enabled", "disabled"},
           accepting' \in BOOLEAN, lost' \subseteq Ids
    PROVE  ManagerInv'
<1>. USE DEF ManagerInv
<1>1. ManagerTypes'
  BY DEF ManagerTypes, Ids
<1>2. QueueInv' /\ EnterInv'
  BY DEF QueueInv, EnterInv, Untouched
<1>3. RouterInv' /\ LeaveInv' /\ ClosedInv' /\ EntryInv'
  BY DEF RouterInv, LeaveInv, ClosedInv, EntryInv, Busy
<1>. QED BY <1>1, <1>2, <1>3

\* A fresh id: what had ids still does, and nothing had it.
LEMMA FreshId ==
    ASSUME ManagerTypes, nextId' = nextId + 1
    PROVE  /\ Ids \subseteq Ids' /\ nextId \in Ids' /\ nextId \notin Ids /\ nextId # 0
           /\ accepted \in Seq(Ids')
           /\ active \subseteq Ids' /\ connections \subseteq Ids' /\ routers \subseteq Ids'
           /\ lost \subseteq Ids' /\ closed \subseteq Ids' /\ overlapped \subseteq Ids'
           /\ unrouted \subseteq Ids'
           /\ connectedTo \in [Callers -> Ids' \cup {0}]
           /\ hand \in [Users -> Ids' \cup {0}]
           /\ todo \in [Users -> SUBSET Ids']
           /\ nextId' \in Nat \ {0}
<1>1. nextId \in Nat \ {0}
  BY DEF ManagerTypes
<1>2. Ids \subseteq Ids' /\ nextId \in Ids' /\ nextId \notin Ids /\ nextId # 0
  BY <1>1 DEF Ids
<1>. HIDE DEF Ids
<1>3. accepted \in Seq(Ids')
  <2>1. accepted \in Seq(Ids)
    BY DEF ManagerTypes
  <2>. QED BY <1>2, <2>1, MoreIds
<1>4. connectedTo \in [Callers -> Ids' \cup {0}] /\ hand \in [Users -> Ids' \cup {0}]
  BY <1>2 DEF ManagerTypes
<1>5. todo \in [Users -> SUBSET Ids']
  BY <1>2 DEF ManagerTypes
<1>6. /\ active \subseteq Ids' /\ connections \subseteq Ids' /\ routers \subseteq Ids'
      /\ lost \subseteq Ids' /\ closed \subseteq Ids' /\ overlapped \subseteq Ids'
           /\ unrouted \subseteq Ids'
  BY <1>2 DEF ManagerTypes
<1>. QED BY <1>1, <1>2, <1>3, <1>4, <1>5, <1>6

LEMMA AcceptTaskKeeps ==
    ASSUME ManagerInv, AcceptTask
    PROVE  ManagerInv'
<1>. USE DEF ManagerInv
<1>1. /\ accepted' = Append(accepted, nextId) /\ nextId' = nextId + 1
      /\ UNCHANGED <<callers, handler, listener, accepting, active, connections, routers, connectedTo, task,
                     hand, target, todo, lost, closed, overlapped, unrouted>>
  BY DEF AcceptTask, tableVars, taskVars, historyVars
<1>2. nextId \in Nat \ {0} /\ accepted \in Seq(Ids)
  BY DEF ManagerTypes
<1>3. nextId \in Ids' /\ nextId \notin Ids /\ nextId # 0 /\ accepted \in Seq(Ids')
  BY <1>1, FreshId
<1>4. accepted' \in Seq(Ids')
  BY <1>1, <1>3
<1>5. /\ Len(accepted) \in Nat /\ \A n \in DOMAIN accepted : accepted[n] \in Ids
      /\ \A n \in DOMAIN accepted' :
            \/ n \in DOMAIN accepted /\ accepted'[n] = accepted[n]
            \/ n = Len(accepted) + 1 /\ accepted'[n] = nextId
  BY <1>1, <1>2
<1>6. ManagerTypes'
  BY <1>1, <1>4, FreshId DEF ManagerTypes
<1>7. QueueInv'
  <2>1. Untouched(nextId) /\ nextId \notin active \cup connections /\ \A u \in Users : hand[u] # nextId
    BY <1>3 DEF ManagerTypes, Untouched
  <2>2. \A n \in DOMAIN accepted : accepted[n] # nextId
    BY <1>3, <1>5
  <2>3. \A n, k \in DOMAIN accepted' : accepted'[n] = accepted'[k] => n = k
    BY <1>5, <2>2 DEF QueueInv
  <2>4. ASSUME NEW n \in DOMAIN accepted'
        PROVE  /\ Untouched(accepted'[n]) /\ accepted'[n] \notin active \cup connections
               /\ \A u \in Users : hand[u] # accepted'[n]
    BY <1>5, <2>1 DEF QueueInv
  <2>. QED BY <1>1, <2>3, <2>4 DEF QueueInv, Untouched
<1>8. EnterInv' /\ RouterInv' /\ LeaveInv' /\ ClosedInv' /\ EntryInv'
  BY <1>1 DEF EnterInv, Untouched, RouterInv, LeaveInv, ClosedInv, EntryInv, Busy
<1>. QED BY <1>6, <1>7, <1>8

LEMMA StoreTransportKeeps ==
    ASSUME ManagerInv, NEW u \in Users, StoreTransport(u)
    PROVE  ManagerInv'
<1>. USE DEF ManagerInv
<1>. DEFINE i == hand[u]
<1>1. /\ task[u] = "store" /\ active' = active \cup {i} /\ Proceed(u, "register", i)
      /\ UNCHANGED <<callers, handler, listener, accepting, accepted, nextId, connections, routers,
                     connectedTo, target, todo, lost, closed, overlapped, unrouted>>
  BY DEF StoreTransport, historyVars
<1>2. /\ task' \in [Users -> Tasks] /\ task'[u] = "register" /\ hand'[u] = i
      /\ hand' \in [Users -> Ids \cup {0}] /\ i \in Ids
      /\ \A v \in Users \ {u} : task'[v] = task[v] /\ hand'[v] = hand[v]
  <2>1. i \in Ids /\ "register" \in Tasks
    BY <1>1 DEF ManagerTypes, Tasks
  <2>. QED BY <1>1, <2>1, Proceeds
<1>3. \A v \in Users : hand'[v] = hand[v]
  BY <1>2
<1>4. /\ Untouched(i) /\ i \notin connections /\ \A v \in Users : hand[v] = i => v = u
  BY <1>1 DEF EnterInv
<1>5. ManagerTypes'
  BY <1>1, <1>2 DEF ManagerTypes, Tasks, Ids
<1>6. QueueInv'
  BY <1>1, <1>3 DEF QueueInv, Untouched
<1>7. EnterInv'
  BY <1>1, <1>2, <1>3, <1>4 DEF EnterInv, Untouched
<1>8. RouterInv'
  BY <1>1, <1>2, <1>3, <1>4 DEF RouterInv, Untouched
<1>9. LeaveInv'
  BY <1>1, <1>2, <1>3, <1>4 DEF LeaveInv
<1>10. ClosedInv'
  BY <1>1, <1>2, <1>3, <1>4 DEF ClosedInv
<1>11. EntryInv'
  BY <1>1, <1>2, <1>3, <1>4 DEF EntryInv, Busy, Untouched
<1>. QED BY <1>5, <1>6, <1>7, <1>8, <1>9, <1>10, <1>11

\* The last step of entering a connection: everything is there, and it is known.
LEMMA EntersLast ==
    ASSUME ManagerInv, NEW u \in Users, task[u] \in {"register", "connected", "start"},
           NEW w \in {"idle", "connected", "start"}, NEW i, Proceed(u, w, i),
           (w = "idle" /\ i = 0) \/ (w \in {"connected", "start"} /\ i = hand[u]),
           connections' = connections \cup {hand[u]}, connectedTo' \in [Callers -> Ids \cup {0}],
           target' \in [Users -> Managed \cup {NoCaller}],
           \A v \in Users : task'[v] \in {"connected", "start"} => target'[v] # NoCaller,
           UNCHANGED <<callers, handler, listener, accepting, accepted, nextId, active, routers,
                       todo, lost, closed, overlapped, unrouted>>
    PROVE  ManagerInv'
<1>. USE DEF ManagerInv
<1>. DEFINE j == hand[u]
<1>1. /\ task' \in [Users -> Tasks] /\ task'[u] = w /\ hand'[u] = i
      /\ hand' \in [Users -> Ids \cup {0}] /\ j \in Ids /\ j # 0
      /\ \A v \in Users \ {u} : task'[v] = task[v] /\ hand'[v] = hand[v]
  <2>1. j \in Ids /\ j # 0 /\ w \in Tasks
    BY DEF ManagerTypes, Tasks, Ids
  <2>. QED BY <2>1, Proceeds
<1>2. /\ Untouched(j) /\ \A v \in Users : hand[v] = j => v = u
  BY DEF EnterInv
<1>3. ManagerTypes'
  BY <1>1 DEF ManagerTypes, Tasks, Ids
<1>4. QueueInv'
  <2>1. \A n \in DOMAIN accepted : accepted[n] # j /\ accepted[n] # 0
    BY DEF QueueInv, ManagerTypes, Ids
  <2>. QED BY <1>1, <2>1 DEF QueueInv, Untouched
<1>5. EnterInv'
  <2>1. ASSUME NEW v \in Users, task'[v] \in {"store", "register", "connected", "start"}, v # u
        PROVE  /\ hand'[v] = hand[v] /\ task'[v] = task[v] /\ hand[v] # j /\ hand[v] # 0
               /\ \A x \in Users : hand'[x] = hand[v] => x = v
    BY <1>1, <1>2, <2>1 DEF EnterInv, ManagerTypes
  <2>2. ASSUME w # "idle" PROVE \A x \in Users : hand'[x] = j => x = u
    BY <1>1, <1>2
  <2>. QED BY <1>1, <1>2, <2>1, <2>2 DEF EnterInv, Untouched
<1>6. RouterInv'
  BY <1>1, <1>2 DEF RouterInv
<1>7. LeaveInv'
  BY <1>1 DEF LeaveInv
<1>8. ClosedInv'
  BY <1>1, <1>2 DEF ClosedInv, Untouched
<1>9. EntryInv'
  BY <1>1, <1>2 DEF EntryInv, Busy
<1>. QED BY <1>3, <1>4, <1>5, <1>6, <1>7, <1>8, <1>9

LEMMA RegisterConnectionKeeps ==
    ASSUME ManagerInv, NEW u \in Users, RegisterConnection(u)
    PROVE  ManagerInv'
<1>1. /\ task[u] = "register" /\ connections' = connections \cup {hand[u]}
      /\ UNCHANGED <<callers, handler, listener, accepting, accepted, nextId, active, routers,
                     todo, lost, closed, overlapped, unrouted>>
      /\ connectedTo' = connectedTo /\ target' = target
  BY DEF RegisterConnection, historyVars
<1>2. /\ connectedTo' \in [Callers -> Ids \cup {0}] /\ target' \in [Users -> Managed \cup {NoCaller}]
  BY <1>1 DEF ManagerInv, ManagerTypes
<1>3. PICK w \in {"idle", "connected"}, i \in {0, hand[u]} :
         /\ Proceed(u, w, i)
         /\ \/ w = "idle" /\ i = 0
            \/ w = "connected" /\ i = hand[u] /\ target[u] # NoCaller
  BY DEF RegisterConnection
<1>4. \A v \in Users : task'[v] \in {"connected", "start"} => target'[v] # NoCaller
  <2>1. w \in Tasks /\ ManagerTypes
    BY <1>3 DEF Tasks, ManagerInv
  <2>2. task'[u] = w /\ \A v \in Users \ {u} : task'[v] = task[v]
    BY <1>3, <2>1, Proceeds
  <2>3. w # "idle" => target[u] # NoCaller
    BY <1>3
  <2>4. \A v \in Users : task[v] \in {"connected", "start"} => target[v] # NoCaller
    BY <2>1 DEF ManagerTypes
  <2>5. w = "idle" \/ w = "connected"
    BY <1>3
  <2>. QED BY <1>1, <2>2, <2>3, <2>4, <2>5
<1>5. task[u] \in {"register", "connected", "start"} /\ connections' = connections \cup {hand[u]}
  BY <1>1
<1>6. UNCHANGED <<callers, handler, listener, accepting, accepted, nextId, active, routers,
                  todo, lost, closed, overlapped, unrouted>>
  BY <1>1
<1>7. w \in {"idle", "connected", "start"} /\ Proceed(u, w, i)
  BY <1>3
<1>8. (w = "idle" /\ i = 0) \/ (w \in {"connected", "start"} /\ i = hand[u])
  BY <1>3
<1>. QED BY ONLY ManagerInv, u \in Users, <1>2, <1>4, <1>5, <1>6, <1>7, <1>8, EntersLast

LEMMA SetConnectedKeeps ==
    ASSUME ManagerInv, NEW u \in Users, SetConnected(u)
    PROVE  ManagerInv'
<1>1. /\ task[u] = "connected" /\ Proceed(u, "start", hand[u])
      /\ connectedTo' = [connectedTo EXCEPT ![target[u]] = hand[u]] /\ target' = target
      /\ UNCHANGED <<callers, handler, listener, accepting, accepted, nextId, active,
                     connections, routers, todo, lost, closed, overlapped, unrouted>>
  BY DEF SetConnected, tableVars, historyVars
<1>2. hand[u] \in Ids /\ hand[u] \in connections
  BY <1>1 DEF ManagerInv, ManagerTypes, EnterInv
<1>3. connections' = connections \cup {hand[u]}
  BY <1>1, <1>2
<1>4. /\ connectedTo' \in [Callers -> Ids \cup {0}]
      /\ target' \in [Users -> Managed \cup {NoCaller}]
  BY <1>1, <1>2 DEF ManagerInv, ManagerTypes
<1>5. \A v \in Users : task'[v] \in {"connected", "start"} => target'[v] # NoCaller
  BY <1>1 DEF Proceed, ManagerInv, ManagerTypes
<1>6. "start" \in {"idle", "connected", "start"} /\ task[u] \in {"register", "connected", "start"}
  BY <1>1
<1>7. Proceed(u, "start", hand[u])
  BY <1>1
<1>8. UNCHANGED <<callers, handler, listener, accepting, accepted, nextId, active, routers,
                  todo, lost, closed, overlapped, unrouted>>
  BY <1>1
<1>. QED BY ONLY ManagerInv, u \in Users, <1>3, <1>4, <1>5, <1>6, <1>7, <1>8, EntersLast

LEMMA StartCallerKeeps ==
    ASSUME ManagerInv, NEW u \in Users, StartCaller(u)
    PROVE  ManagerInv'
<1>1. /\ task[u] = "start" /\ Proceed(u, "idle", 0)
      /\ target' = [target EXCEPT ![u] = NoCaller] /\ connectedTo' = connectedTo
      /\ UNCHANGED <<callers, handler, listener, accepting, accepted, nextId, active,
                     connections, routers, todo, lost, closed, overlapped, unrouted>>
  BY DEF StartCaller, tableVars, historyVars
<1>2. connections' = connections \cup {hand[u]}
  BY <1>1 DEF ManagerInv, EnterInv
<1>3. /\ connectedTo' \in [Callers -> Ids \cup {0}]
      /\ target' \in [Users -> Managed \cup {NoCaller}]
  BY <1>1 DEF ManagerInv, ManagerTypes
<1>4. \A v \in Users : task'[v] \in {"connected", "start"} => target'[v] # NoCaller
  BY <1>1 DEF Proceed, ManagerInv, ManagerTypes
<1>5. "idle" \in {"idle", "connected", "start"} /\ task[u] \in {"register", "connected", "start"}
  BY <1>1
<1>6. Proceed(u, "idle", 0)
  BY <1>1
<1>7. UNCHANGED <<callers, handler, listener, accepting, accepted, nextId, active, routers,
                  todo, lost, closed, overlapped, unrouted>>
  BY <1>1
<1>. QED BY ONLY ManagerInv, u \in Users, <1>2, <1>3, <1>4, <1>5, <1>6, <1>7, EntersLast

\* The first step of entering a connection, with an id that nobody knows.
LEMMA EntersFirst ==
    ASSUME ManagerInv, NEW u \in Users, task[u] = "idle", NEW i, Proceed(u, "store", i),
           ManagerTypes', i # 0, Untouched(i), i \notin active \cup connections,
           \A v \in Users : hand[v] # i,
           QueueInv',
           UNCHANGED <<active, connections, routers, todo, closed, overlapped, unrouted>>
    PROVE  ManagerInv'
<1>. USE DEF ManagerInv
<1>1. /\ task'[u] = "store" /\ hand'[u] = i /\ hand[u] = 0
      /\ \A v \in Users \ {u} : task'[v] = task[v] /\ hand'[v] = hand[v]
  <2>1. "store" \in Tasks /\ hand[u] = 0
    BY DEF ManagerTypes, Tasks
  <2>. QED BY <2>1, Proceeds
<1>2. EnterInv'
  BY <1>1 DEF EnterInv, Untouched
<1>3. RouterInv'
  BY <1>1 DEF RouterInv
<1>4. LeaveInv'
  BY <1>1 DEF LeaveInv
<1>5. ClosedInv'
  BY <1>1 DEF ClosedInv
<1>6. EntryInv'
  <2>1. \A j \in active \cup routers : j # 0
    BY DEF ManagerTypes, Ids
  <2>. QED BY <1>1, <2>1 DEF EntryInv, Busy
<1>. QED BY <1>2, <1>3, <1>4, <1>5, <1>6

LEMMA AcceptConnectionKeeps ==
    ASSUME ManagerInv, NEW u \in Users, AcceptConnection(u)
    PROVE  ManagerInv'
<1>. USE DEF ManagerInv
<1>. DEFINE i == Head(accepted)
<1>1. /\ task[u] = "idle" /\ accepted # <<>> /\ accepted' = Tail(accepted)
      /\ Proceed(u, "store", i)
      /\ UNCHANGED <<active, connections, routers, todo, closed, overlapped, unrouted>>
      /\ UNCHANGED <<callers, handler, listener, accepting, nextId, connectedTo, target, lost, unrouted>>
  BY DEF AcceptConnection, tableVars, historyVars
<1>2. accepted \in Seq(Ids)
  BY DEF ManagerTypes
<1>3. /\ i \in Ids /\ 1 \in DOMAIN accepted /\ i = accepted[1]
      /\ accepted' \in Seq(Ids)
      /\ \A n \in DOMAIN accepted' : /\ n + 1 \in DOMAIN accepted /\ n + 1 # 1
                                     /\ accepted'[n] = accepted[n + 1]
      /\ \A n, k \in DOMAIN accepted' : n + 1 = k + 1 => n = k
  BY <1>1, <1>2
<1>. HIDE DEF i
<1>4. /\ Untouched(i) /\ i \notin active \cup connections /\ \A v \in Users : hand[v] # i
      /\ \A n \in DOMAIN accepted' : accepted'[n] # i
  BY <1>3 DEF QueueInv
<1>5. /\ task' \in [Users -> Tasks] /\ task'[u] = "store" /\ hand'[u] = i
      /\ hand' \in [Users -> Ids \cup {0}]
      /\ \A v \in Users \ {u} : task'[v] = task[v] /\ hand'[v] = hand[v]
  BY <1>1, <1>3, Proceeds DEF Tasks
<1>6. i # 0
  BY <1>3 DEF Ids
<1>7. ManagerTypes'
  BY <1>1, <1>3, <1>5, <1>6 DEF ManagerTypes, Tasks, Ids
<1>8. QueueInv'
  <2>1. \A n, k \in DOMAIN accepted' : accepted'[n] = accepted'[k] => n = k
    BY <1>3 DEF QueueInv
  <2>2. \A n \in DOMAIN accepted' :
          /\ Untouched(accepted'[n]) /\ accepted'[n] \notin active \cup connections
          /\ \A v \in Users : hand[v] # accepted'[n]
    BY <1>3 DEF QueueInv
  <2>. QED BY <1>1, <1>4, <1>5, <2>1, <2>2 DEF QueueInv, Untouched
<1>. QED BY <1>1, <1>4, <1>6, <1>7, <1>8, EntersFirst

LEMMA ConnectCallerKeeps ==
    ASSUME ManagerInv, NEW u \in Users, NEW c \in Managed, ConnectCaller(u, c)
    PROVE  ManagerInv'
<1>. USE DEF ManagerInv
<1>1. /\ task[u] = "idle" /\ nextId' = nextId + 1
      /\ UNCHANGED <<active, connections, routers, todo, closed, overlapped, unrouted>>
      /\ UNCHANGED <<callers, handler, listener, accepting, accepted, connectedTo, lost>>
  BY DEF ConnectCaller, tableVars, historyVars
<1>2. /\ nextId \in Ids' /\ nextId \notin Ids /\ nextId # 0
  BY <1>1, FreshId
<1>3. \A n \in DOMAIN accepted : accepted[n] # nextId
  <2>1. accepted \in Seq(Ids)
    BY DEF ManagerTypes
  <2>. HIDE DEF Ids
  <2>2. \A n \in DOMAIN accepted : accepted[n] \in Ids
    BY <2>1
  <2>. QED BY <1>2, <2>2
<1>4. /\ Untouched(nextId) /\ nextId \notin active \cup connections
      /\ \A v \in Users : hand[v] # nextId
  BY <1>2 DEF ManagerTypes, Untouched
<1>5. CASE Proceed(u, "store", nextId) /\ target' = [target EXCEPT ![u] = c]
  <2>1. /\ task' \in [Users -> Tasks] /\ task'[u] = "store" /\ hand'[u] = nextId
        /\ \A v \in Users \ {u} : task'[v] = task[v] /\ hand'[v] = hand[v]
    BY <1>5, Proceeds DEF Tasks
  <2>2. hand' \in [Users -> Ids' \cup {0}]
    BY <1>1, <1>2, <1>5, FreshId DEF Proceed
  <2>3. target' \in [Users -> Managed \cup {NoCaller}] /\ \A v \in Users \ {u} : target'[v] = target[v]
    BY <1>5 DEF ManagerTypes
  <2>4. ManagerTypes'
    BY <1>1, <1>2, <2>1, <2>2, <2>3, FreshId DEF ManagerTypes, Tasks
  <2>5. QueueInv'
    BY <1>1, <1>3, <2>1 DEF QueueInv, Untouched
  <2>. QED BY <1>1, <1>2, <1>4, <1>5, <2>4, <2>5, EntersFirst
<1>6. CASE UNCHANGED <<task, hand, target>>
  <2>1. ManagerTypes'
    BY <1>1, <1>6, FreshId DEF ManagerTypes
  <2>2. QueueInv' /\ EnterInv' /\ RouterInv' /\ LeaveInv' /\ ClosedInv' /\ EntryInv'
    BY <1>1, <1>6 DEF QueueInv, EnterInv, Untouched, RouterInv, LeaveInv, ClosedInv, EntryInv, Busy
  <2>. QED BY <2>1, <2>2
<1>. QED BY <1>5, <1>6 DEF ConnectCaller

-----------------------------------------------------------------------------
(***************************************************************************)
(* create_router, disconnect and shutdown_all                              *)
(***************************************************************************)
\* Who has an id that users know is neither in the queue nor being entered.
LEMMA KnownApart ==
    ASSUME ManagerInv, NEW i \in Known
    PROVE  /\ i \in connections /\ i \in Ids /\ i # 0
           /\ \A n \in DOMAIN accepted : accepted[n] # i
           /\ \A v \in Users : task[v] \in {"store", "register", "connected", "start"} => hand[v] # i
BY DEF ManagerInv, Known, QueueInv, EnterInv, ManagerTypes, Ids

LEMMA TakeTransportKeeps ==
    ASSUME ManagerInv, NEW u \in Users, NEW i \in Known, TakeTransport(u, i)
    PROVE  ManagerInv'
<1>. USE DEF ManagerInv
<1>1. /\ task[u] = "idle" /\ i \in active /\ active' = active \ {i} /\ Proceed(u, "router", i)
      /\ UNCHANGED <<callers, handler, listener, accepting, accepted, nextId, connections, routers,
                     connectedTo, target, todo, lost, closed, unrouted>>
  BY DEF TakeTransport, Begin
<1>2. /\ overlapped \subseteq overlapped' /\ overlapped' \subseteq overlapped \cup {i}
      /\ (\E v \in Users : task[v] = "active" /\ hand[v] = i) => i \in overlapped'
  BY DEF TakeTransport, Overlap
<1>3. /\ i \in connections /\ i \in Ids /\ i # 0
      /\ \A n \in DOMAIN accepted : accepted[n] # i
      /\ \A v \in Users : task[v] \in {"store", "register", "connected", "start"} => hand[v] # i
  BY KnownApart
<1>4. /\ task' \in [Users -> Tasks] /\ task'[u] = "router" /\ hand'[u] = i /\ hand[u] = 0
      /\ hand' \in [Users -> Ids \cup {0}]
      /\ \A v \in Users \ {u} : task'[v] = task[v] /\ hand'[v] = hand[v]
  <2>1. "router" \in Tasks /\ hand[u] = 0
    BY <1>1 DEF ManagerTypes, Tasks
  <2>. QED BY <1>1, <1>3, <2>1, Proceeds
<1>5. ManagerTypes'
  BY <1>1, <1>2, <1>3, <1>4 DEF ManagerTypes, Tasks, Ids
<1>6. QueueInv'
  BY <1>1, <1>2, <1>3, <1>4 DEF QueueInv, Untouched
<1>7. EnterInv'
  BY <1>1, <1>2, <1>3, <1>4 DEF EnterInv, Untouched
<1>8. RouterInv'
  <2>1. i \notin routers /\ \A v \in Users : task[v] = "router" => hand[v] # i
    BY <1>1 DEF EntryInv, RouterInv
  <2>2. i \in overlapped' \/ \A v \in Users : task[v] \in {"active", "connection"} => hand[v] # i
    BY <1>1, <1>2 DEF LeaveInv
  <2>. QED BY <1>1, <1>2, <1>3, <1>4, <2>1, <2>2 DEF RouterInv
<1>9. LeaveInv'
  BY <1>1, <1>2, <1>4 DEF LeaveInv
<1>10. ClosedInv'
  BY <1>1, <1>4 DEF ClosedInv
<1>11. EntryInv'
  <2>1. \A j \in active \cup routers : j # 0
    BY DEF ManagerTypes, Ids
  <2>. QED BY <1>1, <1>2, <1>4, <2>1 DEF EntryInv, Busy
<1>. QED BY <1>5, <1>6, <1>7, <1>8, <1>9, <1>10, <1>11

LEMMA InsertRouterKeeps ==
    ASSUME ManagerInv, NEW u \in Users, InsertRouter(u)
    PROVE  ManagerInv'
<1>. USE DEF ManagerInv
<1>. DEFINE i == hand[u]
<1>1. /\ task[u] = "router" /\ routers' = routers \cup {i} /\ Proceed(u, "idle", 0)
      /\ UNCHANGED <<callers, handler, listener, accepting, accepted, nextId, active, connections,
                     connectedTo, target, todo, lost, closed, overlapped, unrouted>>
  BY DEF InsertRouter, historyVars
<1>2. /\ task' \in [Users -> Tasks] /\ task'[u] = "idle" /\ hand'[u] = 0 /\ i \in Ids /\ i # 0
      /\ hand' \in [Users -> Ids \cup {0}]
      /\ \A v \in Users \ {u} : task'[v] = task[v] /\ hand'[v] = hand[v]
  <2>1. i \in Ids /\ i # 0 /\ "idle" \in Tasks
    BY <1>1 DEF ManagerTypes, Tasks, Ids
  <2>. QED BY <1>1, <2>1, Proceeds
<1>3. /\ i \notin active
      /\ \A v \in Users : task[v] = "router" /\ hand[v] = i => v = u
      /\ i \in overlapped \/ i \in connections
      /\ \A v \in Users : task[v] \in {"active", "connection"} /\ hand[v] = i => i \in overlapped
  BY <1>1 DEF RouterInv
<1>4. /\ \A n \in DOMAIN accepted : accepted[n] # i /\ accepted[n] # 0
      /\ \A v \in Users : task[v] \in {"store", "register", "connected", "start"} => hand[v] # i
  BY <1>1 DEF QueueInv, EnterInv, ManagerTypes, Ids
<1>5. ManagerTypes'
  BY <1>1, <1>2 DEF ManagerTypes, Tasks, Ids
<1>6. QueueInv'
  BY <1>1, <1>2, <1>4 DEF QueueInv, Untouched
<1>7. EnterInv'
  BY <1>1, <1>2, <1>4 DEF EnterInv, Untouched, ManagerTypes
<1>8. RouterInv'
  BY <1>1, <1>2, <1>3 DEF RouterInv
<1>9. LeaveInv'
  BY <1>1, <1>2, <1>3 DEF LeaveInv
<1>10. ClosedInv'
  BY <1>1, <1>2 DEF ClosedInv
<1>11. EntryInv'
  BY <1>1, <1>2, <1>3 DEF EntryInv, Busy
<1>. QED BY <1>5, <1>6, <1>7, <1>8, <1>9, <1>10, <1>11

\* A disconnect begins, by itself or as one of a shutdown_all.
LEMMA RemoveRouterKeeps ==
    ASSUME ManagerInv, NEW u \in Users, task[u] \in {"idle", "shutdown"}, NEW i \in Ids,
           RemoveRouter(u, i),
           \A n \in DOMAIN accepted : accepted[n] # i,
           \A v \in Users : task[v] \in {"store", "register", "connected", "start"} => hand[v] # i,
           todo' \in [Users -> SUBSET Ids], \A v \in Users : todo'[v] \subseteq todo[v],
           UNCHANGED <<callers, handler, listener, accepting, accepted, nextId, active, connections,
                       connectedTo, target, lost, unrouted>>
    PROVE  ManagerInv'
<1>. USE DEF ManagerInv
<1>1. /\ routers' = routers \ {i} /\ closed' = closed \cup {i} /\ Proceed(u, "active", i)
      /\ overlapped \subseteq overlapped' /\ overlapped' \subseteq overlapped \cup {i}
      /\ (\E v \in Users : task[v] = "router" /\ hand[v] = i) => i \in overlapped'
  BY DEF RemoveRouter, Overlap
<1>2. /\ task' \in [Users -> Tasks] /\ task'[u] = "active" /\ hand'[u] = i
      /\ hand[u] = 0 /\ i # 0 /\ hand' \in [Users -> Ids \cup {0}]
      /\ \A v \in Users \ {u} : task'[v] = task[v] /\ hand'[v] = hand[v]
  <2>1. hand[u] = 0 /\ i # 0 /\ "active" \in Tasks
    BY DEF ManagerTypes, Tasks, Ids
  <2>. QED BY <1>1, <2>1, Proceeds
<1>3. ManagerTypes'
  BY <1>1, <1>2 DEF ManagerTypes, Tasks, Ids
<1>4. QueueInv'
  BY <1>1, <1>2 DEF QueueInv, Untouched
<1>5. EnterInv'
  BY <1>1, <1>2 DEF EnterInv, Untouched
<1>6. RouterInv'
  BY <1>1, <1>2 DEF RouterInv
<1>7. LeaveInv'
  BY <1>1, <1>2 DEF LeaveInv
<1>8. ClosedInv'
  BY <1>1, <1>2 DEF ClosedInv
<1>9. EntryInv'
  <2>1. \A j \in active \cup routers : j # 0
    BY DEF ManagerTypes, Ids
  <2>. QED BY <1>1, <1>2, <2>1 DEF EntryInv, Busy
<1>. QED BY <1>3, <1>4, <1>5, <1>6, <1>7, <1>8, <1>9

LEMMA DisconnectKeeps ==
    ASSUME ManagerInv, NEW u \in Users, NEW i \in Known, Disconnect(u, i)
    PROVE  ManagerInv'
<1>1. /\ task[u] = "idle" /\ RemoveRouter(u, i) /\ todo' = todo
      /\ UNCHANGED <<callers, handler, listener, accepting, accepted, nextId, active, connections,
                     connectedTo, target, lost, unrouted>>
  BY DEF Disconnect, Begin
<1>2. todo' \in [Users -> SUBSET Ids]
  BY <1>1 DEF ManagerInv, ManagerTypes
<1>. QED BY <1>1, <1>2, KnownApart, RemoveRouterKeeps

LEMMA ShutdownNextKeeps ==
    ASSUME ManagerInv, NEW u \in Users, ShutdownNext(u)
    PROVE  ManagerInv'
<1>1. PICK i \in todo[u] : todo' = [todo EXCEPT ![u] = @ \ {i}] /\ RemoveRouter(u, i)
  BY DEF ShutdownNext
<1>2. /\ task[u] = "shutdown"
      /\ UNCHANGED <<callers, handler, listener, accepting, accepted, nextId, active, connections,
                     connectedTo, target, lost, unrouted>>
  BY DEF ShutdownNext
<1>3. /\ todo \in [Users -> SUBSET Ids] /\ i \in Ids
  BY DEF ManagerInv, ManagerTypes
<1>4. todo' \in [Users -> SUBSET Ids] /\ \A v \in Users : todo'[v] \subseteq todo[v]
  BY <1>1, <1>3
<1>5. /\ \A n \in DOMAIN accepted : accepted[n] # i
      /\ \A v \in Users : task[v] \in {"store", "register", "connected", "start"} => hand[v] # i
  BY DEF ManagerInv, QueueInv, EnterInv, Untouched
<1>. QED BY <1>1, <1>2, <1>3, <1>4, <1>5, RemoveRouterKeeps

\* A router that is removed by itself.
LEMMA RemoveRouterOnlyKeeps ==
    ASSUME ManagerInv, NEW i \in routers, RemoveRouterOnly(i)
    PROVE  ManagerInv'
<1>. USE DEF ManagerInv
<1>1. /\ routers' = routers \ {i} /\ unrouted' = unrouted \cup {i}
      /\ UNCHANGED <<callers, handler, listener, accepting, accepted, nextId, active,
                     connections, connectedTo, task, hand, target, todo, lost, closed,
                     overlapped>>
  BY DEF RemoveRouterOnly, taskVars
<1>2. ManagerTypes'
  BY <1>1 DEF ManagerTypes, Ids
<1>3. QueueInv' /\ EnterInv'
  BY <1>1 DEF QueueInv, EnterInv, Untouched
<1>4. RouterInv' /\ LeaveInv' /\ ClosedInv' /\ EntryInv'
  BY <1>1 DEF RouterInv, LeaveInv, ClosedInv, EntryInv, Busy
<1>. QED BY <1>2, <1>3, <1>4

LEMMA RemoveActiveKeeps ==
    ASSUME ManagerInv, NEW u \in Users, RemoveActive(u)
    PROVE  ManagerInv'
<1>. USE DEF ManagerInv
<1>. DEFINE i == hand[u]
<1>1. /\ task[u] = "active" /\ active' = active \ {i} /\ Proceed(u, "connection", i)
      /\ UNCHANGED <<callers, handler, listener, accepting, accepted, nextId, connections, routers,
                     connectedTo, target, todo, lost, closed, overlapped, unrouted>>
  BY DEF RemoveActive, historyVars
<1>2. /\ task' \in [Users -> Tasks] /\ task'[u] = "connection" /\ i \in Ids /\ i # 0
      /\ hand' \in [Users -> Ids \cup {0}]
      /\ \A v \in Users \ {u} : task'[v] = task[v]
      /\ \A v \in Users : hand'[v] = hand[v]
  <2>1. i \in Ids /\ i # 0 /\ "connection" \in Tasks
    BY <1>1 DEF ManagerTypes, Tasks, Ids
  <2>. QED BY <1>1, <2>1, Proceeds
<1>3. ManagerTypes'
  BY <1>1, <1>2 DEF ManagerTypes, Tasks, Ids
<1>4. QueueInv'
  BY <1>1, <1>2 DEF QueueInv, Untouched
<1>5. EnterInv'
  BY <1>1, <1>2 DEF EnterInv, Untouched
<1>6. RouterInv'
  BY <1>1, <1>2 DEF RouterInv
<1>7. LeaveInv'
  BY <1>1, <1>2 DEF LeaveInv
<1>8. ClosedInv'
  BY <1>1, <1>2 DEF ClosedInv
<1>9. EntryInv'
  BY <1>1, <1>2 DEF EntryInv, Busy
<1>. QED BY <1>3, <1>4, <1>5, <1>6, <1>7, <1>8, <1>9

LEMMA RemoveConnectionKeeps ==
    ASSUME ManagerInv, NEW u \in Users, RemoveConnection(u)
    PROVE  ManagerInv'
<1>. USE DEF ManagerInv
<1>. DEFINE i == hand[u]
            w == IF todo[u] = {} THEN "idle" ELSE "shutdown"
<1>1. /\ task[u] = "connection" /\ connections' = connections \ {i} /\ Proceed(u, w, 0)
      /\ UNCHANGED <<callers, handler, listener, accepting, accepted, nextId, active, routers,
                     connectedTo, target, todo, lost, closed, overlapped, unrouted>>
  BY DEF RemoveConnection, historyVars
<1>2. w \in {"idle", "shutdown"}
  OBVIOUS
<1>. HIDE DEF w
<1>3. /\ task' \in [Users -> Tasks] /\ task'[u] = w /\ hand'[u] = 0 /\ i \in Ids /\ i # 0
      /\ hand' \in [Users -> Ids \cup {0}]
      /\ \A v \in Users \ {u} : task'[v] = task[v] /\ hand'[v] = hand[v]
  <2>1. i \in Ids /\ i # 0 /\ w \in Tasks
    BY <1>1, <1>2 DEF ManagerTypes, Tasks, Ids
  <2>. QED BY <1>1, <2>1, Proceeds
<1>4. /\ i \notin active
      /\ i \in routers => i \in overlapped
      /\ \A v \in Users : task[v] \in {"store", "register", "connected", "start"} => hand[v] # i
      /\ \A v \in Users : task[v] = "router" /\ hand[v] = i => i \in overlapped
  BY <1>1 DEF LeaveInv, EnterInv, RouterInv
<1>5. ManagerTypes'
  BY <1>1, <1>2, <1>3 DEF ManagerTypes, Tasks, Ids
<1>6. QueueInv'
  <2>1. \A n \in DOMAIN accepted : accepted[n] # 0
    BY DEF ManagerTypes, Ids
  <2>. QED BY <1>1, <1>3, <2>1 DEF QueueInv, Untouched
<1>7. EnterInv'
  BY <1>1, <1>2, <1>3, <1>4 DEF EnterInv, Untouched, ManagerTypes
<1>8. RouterInv'
  BY <1>1, <1>2, <1>3, <1>4 DEF RouterInv
<1>9. LeaveInv'
  BY <1>1, <1>2, <1>3 DEF LeaveInv
<1>10. ClosedInv'
  BY <1>1, <1>2, <1>3 DEF ClosedInv
<1>11. EntryInv'
  BY <1>1, <1>2, <1>3, <1>4 DEF EntryInv, Busy
<1>. QED BY <1>5, <1>6, <1>7, <1>8, <1>9, <1>10, <1>11

LEMMA ShutdownAllKeeps ==
    ASSUME ManagerInv, NEW u \in Users, ShutdownAll(u)
    PROVE  ManagerInv'
<1>. USE DEF ManagerInv
<1>1. /\ task[u] = "idle" /\ todo' = [todo EXCEPT ![u] = routers] /\ Proceed(u, "shutdown", 0)
      /\ UNCHANGED <<callers, handler, listener, accepting, accepted, nextId, active, connections, routers,
                     connectedTo, target, lost, closed, overlapped, unrouted>>
  BY DEF ShutdownAll, Begin, tableVars, historyVars
<1>2. /\ task' \in [Users -> Tasks] /\ task'[u] = "shutdown" /\ hand' \in [Users -> Ids \cup {0}]
      /\ \A v \in Users \ {u} : task'[v] = task[v]
      /\ \A v \in Users : hand'[v] = hand[v]
      /\ hand[u] = 0
  <2>1. hand[u] = 0 /\ "shutdown" \in Tasks
    BY <1>1 DEF ManagerTypes, Tasks
  <2>. QED BY <1>1, <2>1, Proceeds
<1>3. /\ todo' \in [Users -> SUBSET Ids]
      /\ \A v \in Users : todo'[v] = todo[v] \/ todo'[v] = routers
  BY <1>1 DEF ManagerTypes
<1>4. \A i \in Ids : Untouched(i) => Untouched(i)'
  BY <1>1, <1>3 DEF Untouched
<1>5. ManagerTypes'
  BY <1>1, <1>2, <1>3 DEF ManagerTypes, Tasks, Ids
<1>6. QueueInv'
  <2>1. accepted \in Seq(Ids)
    BY DEF ManagerTypes
  <2>. HIDE DEF Ids
  <2>2. \A n \in DOMAIN accepted : accepted[n] \in Ids
    BY <2>1
  <2>. QED BY <1>1, <1>2, <1>4, <2>2 DEF QueueInv
<1>7. EnterInv'
  BY <1>1, <1>2, <1>4 DEF EnterInv, ManagerTypes
<1>8. RouterInv' /\ LeaveInv'
  BY <1>1, <1>2 DEF RouterInv, LeaveInv
<1>9. ClosedInv' /\ EntryInv'
  BY <1>1, <1>2 DEF ClosedInv, EntryInv, Busy
<1>. QED BY <1>5, <1>6, <1>7, <1>8, <1>9

-----------------------------------------------------------------------------
(***************************************************************************)
(* The theorems                                                            *)
(***************************************************************************)
LEMMA TransportStart == Init => TransportInv
<1>. SUFFICES ASSUME Init PROVE TransportInv
  OBVIOUS
<1>1. ClosedCircuit \in Circuit /\ Consistent(ClosedCircuit)
  BY ClosedIsConsistent DEF Consistent
<1>2. CallerTypes /\ LoopInv
  BY <1>1 DEF Init, CallerInit, CallerTypes, LoopInv, States, Running
<1>3. FailureInv /\ CircuitConsistent
  BY <1>1 DEF Init, CallerInit, FailureInv, CircuitConsistent, Consistent
<1>4. CountInv
  BY StrategyAssumption DEF Init, CallerInit, CountInv, HasLimit, Limited, Counted
<1>5. ManagerTypes
  <2>1. <<>> \in Seq(Ids)
    OBVIOUS
  <2>. HIDE DEF Ids
  <2>2. todo \in [Users -> SUBSET Ids] /\ target \in [Users -> Managed \cup {NoCaller}]
    BY DEF Init
  <2>3. hand \in [Users -> Ids \cup {0}] /\ connectedTo \in [Callers -> Ids \cup {0}]
    BY DEF Init
  <2>4. /\ task \in [Users -> {"idle"}]
        /\ \A u \in Users : hand[u] = 0 /\ task[u] = "idle"
    BY DEF Init
  <2>5. task \in [Users -> {"idle", "store", "register", "connected", "start", "router",
                           "active", "connection", "shutdown"}]
    BY <2>4
  <2>6. /\ callers \in SUBSET Managed /\ listener \in {"absent", "enabled", "disabled"}
        /\ nextId \in Nat \ {0}
        /\ active \subseteq Ids /\ connections \subseteq Ids /\ routers \subseteq Ids
        /\ lost \subseteq Ids /\ closed \subseteq Ids /\ overlapped \subseteq Ids
        /\ unrouted \subseteq Ids
    BY DEF Init
  <2>7. accepted \in Seq(Ids)
    BY <2>1, Zenon DEF Init
  <2>8. accepting \in BOOLEAN /\ handler \in BOOLEAN
    BY DEF Init
  <2>. QED BY <2>2, <2>3, <2>4, <2>5, <2>6, <2>7, <2>8 DEF ManagerTypes
<1>6. QueueInv /\ EnterInv /\ RouterInv /\ LeaveInv /\ ClosedInv /\ EntryInv
  BY DEF Init, QueueInv, EnterInv, RouterInv, LeaveInv, ClosedInv, EntryInv
<1>7. NoGhosts
  BY DEF Init, NoGhosts
<1>. QED BY <1>2, <1>3, <1>4, <1>5, <1>6, <1>7 DEF TransportInv, CallerInv, ManagerInv

\* The steps of the manager leave callers alone, but one.
LEMMA CallersBeside ==
    ASSUME CallerInv, UNCHANGED <<state, loop, attempt, tries, circuit, remote>>,
           UNCHANGED commands \/ Command
    PROVE  CallerInv'
BY World, Beside DEF Command

LEMMA ConnectedCaller ==
    ASSUME CallerInv, ManagerInv, NEW u \in Users, SetConnected(u) \/ StartCaller(u)
    PROVE  CallerInv'
<1>. DEFINE c == target[u]
<1>1. c \in Callers
  BY ManagedAssumption DEF SetConnected, StartCaller, ManagerInv, ManagerTypes
<1>2. /\ state' \in [Callers -> States]
      /\ UNCHANGED <<circuit, remote, commands>>
      /\ UNCHANGED <<loop, attempt, tries>> \/ StartLoop(c)
  BY <1>1, World DEF SetConnected, StartCaller, SetTo, States
<1>. HIDE DEF c
<1>. QED BY <1>1, <1>2, World, Beside, StartLoopKeeps

LEMMA ManagerStepKeeps ==
    ASSUME CallerInv, ManagerInv, NEW u \in Users, ManagerStep(u)
    PROVE  CallerInv' /\ ManagerInv'
<1>1. CASE SetConnected(u) \/ StartCaller(u)
  BY <1>1, SetConnectedKeeps, StartCallerKeeps, ConnectedCaller
<1>2. CASE StoreTransport(u) \/ RegisterConnection(u) \/ InsertRouter(u) \/ RemoveActive(u)
             \/ RemoveConnection(u) \/ ShutdownNext(u)
  <2>1. UNCHANGED callerVars
    BY <1>2 DEF StoreTransport, RegisterConnection, InsertRouter, RemoveActive, RemoveConnection,
       ShutdownNext
  <2>2. CallerInv'
    BY <2>1, CallersBeside DEF callerVars
  <2>. QED BY <1>2, <2>2, StoreTransportKeeps, RegisterConnectionKeeps, InsertRouterKeeps,
       RemoveActiveKeeps, RemoveConnectionKeeps, ShutdownNextKeeps
<1>. QED BY <1>1, <1>2 DEF ManagerStep

LEMMA ManagerCallKeeps ==
    ASSUME CallerInv, ManagerInv, NEW u \in Users, ManagerCall(u)
    PROVE  CallerInv' /\ ManagerInv'
<1>1. ASSUME NEW c \in Managed, ConnectCaller(u, c) PROVE CallerInv' /\ ManagerInv'
  BY <1>1, ConnectCallerKeeps, CallersBeside DEF ConnectCaller, callerVars
<1>2. CASE AcceptConnection(u)
  BY <1>2, AcceptConnectionKeeps, CallersBeside DEF AcceptConnection, callerVars
<1>3. CASE ShutdownAll(u)
  BY <1>3, ShutdownAllKeeps, CallersBeside DEF ShutdownAll, Begin
<1>4. ASSUME NEW i \in Known, TakeTransport(u, i) PROVE CallerInv' /\ ManagerInv'
  BY <1>4, TakeTransportKeeps, CallersBeside DEF TakeTransport, Begin
<1>5. ASSUME NEW i \in Known, Disconnect(u, i) PROVE CallerInv' /\ ManagerInv'
  BY <1>5, DisconnectKeeps, CallersBeside DEF Disconnect, Begin
<1>. QED BY <1>1, <1>2, <1>3, <1>4, <1>5 DEF ManagerCall

\* Callers, the handler, the listener and peers.
BesideTables ==
    \/ \E c \in Managed : AddCaller(c) \/ RemoveCaller(c)
    \/ SetEventHandler
    \/ \E e \in BOOLEAN : AddListener(e)
    \/ \E s \in {"absent", "enabled", "disabled"} : ChangeListener(s)
    \/ \E i \in connections : LoseConnection(i)

LEMMA BesideTablesKeeps ==
    ASSUME CallerInv, ManagerInv, BesideTables
    PROVE  CallerInv' /\ ManagerInv'
<1>1. UNCHANGED <<state, loop, attempt, tries, circuit, remote>> /\ Command
  BY DEF BesideTables, AddCaller, RemoveCaller, SetEventHandler, AddListener, ChangeListener,
     LoseConnection
<1>2. UNCHANGED <<nextId, accepted, active, connections, routers, connectedTo, task, hand,
                  target, todo, closed, overlapped, unrouted>>
  BY DEF BesideTables, AddCaller, RemoveCaller, SetEventHandler, AddListener, ChangeListener,
     LoseConnection, tableVars, taskVars, historyVars
<1>3. /\ callers' \in SUBSET Managed /\ handler' \in BOOLEAN
      /\ listener' \in {"absent", "enabled", "disabled"}
      /\ accepting' \in BOOLEAN /\ lost' \subseteq Ids
  <2>1. /\ callers \in SUBSET Managed /\ handler \in BOOLEAN
        /\ listener \in {"absent", "enabled", "disabled"}
        /\ accepting \in BOOLEAN /\ lost \subseteq Ids /\ connections \subseteq Ids
    BY DEF ManagerInv, ManagerTypes
  <2>. HIDE DEF Ids
  <2>. QED BY <2>1 DEF BesideTables, AddCaller, RemoveCaller, SetEventHandler, AddListener,
       ChangeListener, LoseConnection, historyVars
<1>. QED BY <1>1, <1>2, <1>3, CallersBeside, TablesSame

\* What the operations do to the tables: a connection that has lost its transport or its
\* router has an operation on it, or was left without a router by remove_router.
LEMMA GhostsSame ==
    ASSUME NoGhosts, UNCHANGED <<active, connections, routers, unrouted>>,
           \A i \in connections : Busy(i) => Busy(i)' \/ i \in active \cup routers
    PROVE  NoGhosts'
BY DEF NoGhosts

LEMMA GhostStep ==
    ASSUME ManagerInv, NoGhosts, NEW u \in Users, ManagerStep(u) \/ ManagerCall(u)
    PROVE  NoGhosts'
<1>1. ASSUME UNCHANGED <<active, connections, routers, unrouted>>,
             hand[u] \notin connections \/ hand'[u] = hand[u],
             \A v \in Users \ {u} : hand'[v] = hand[v]
      PROVE  NoGhosts'
  BY <1>1, GhostsSame DEF Busy
<1>2. hand \in [Users -> Ids \cup {0}] /\ task \in [Users -> Tasks]
  BY DEF ManagerInv, ManagerTypes, Tasks
<1>3. \A w, i : Proceed(u, w, i) => hand'[u] = i /\ \A v \in Users \ {u} : hand'[v] = hand[v]
  BY <1>2 DEF Proceed
<1>4. task[u] \in {"idle", "shutdown"} => hand[u] = 0 /\ 0 \notin connections
  BY DEF ManagerInv, ManagerTypes, Ids
<1>5. CASE ManagerCall(u)
  <2>1. CASE \E c \in Managed : ConnectCaller(u, c)
    BY <1>1, <1>2, <1>3, <1>4, <2>1 DEF ConnectCaller, tableVars, historyVars
  <2>2. CASE AcceptConnection(u) \/ ShutdownAll(u)
    BY <1>1, <1>3, <1>4, <2>2 DEF AcceptConnection, ShutdownAll, Begin, tableVars, historyVars
  <2>3. ASSUME NEW i \in Known, TakeTransport(u, i) PROVE NoGhosts'
    <3>1. /\ active' = active \ {i} /\ UNCHANGED <<connections, routers, unrouted>>
          /\ Proceed(u, "router", i) /\ task[u] = "idle"
      BY <2>3 DEF TakeTransport, Begin
    <3>. QED BY <1>3, <1>4, <3>1 DEF NoGhosts, Busy
  <2>4. ASSUME NEW i \in Known, Disconnect(u, i) PROVE NoGhosts'
    <3>1. /\ routers' = routers \ {i} /\ UNCHANGED <<active, connections, unrouted>>
          /\ Proceed(u, "active", i) /\ task[u] = "idle"
      BY <2>4 DEF Disconnect, RemoveRouter, Begin
    <3>. QED BY <1>3, <1>4, <3>1 DEF NoGhosts, Busy
  <2>. QED BY <1>5, <2>1, <2>2, <2>3, <2>4 DEF ManagerCall
<1>6. CASE ManagerStep(u)
  <2>1. CASE StoreTransport(u)
    <3>1. /\ active' = active \cup {hand[u]} /\ UNCHANGED <<connections, routers, unrouted>>
          /\ Proceed(u, "register", hand[u])
      BY <2>1 DEF StoreTransport, historyVars
    <3>. QED BY <1>3, <3>1 DEF NoGhosts, Busy
  <2>2. CASE RegisterConnection(u)
    <3>1. /\ connections' = connections \cup {hand[u]} /\ UNCHANGED <<active, routers, unrouted>>
          /\ hand[u] \in active /\ \E w, i : Proceed(u, w, i)
      BY <2>2 DEF RegisterConnection, historyVars, ManagerInv, EnterInv
    <3>. QED BY <1>3, <3>1 DEF NoGhosts, Busy
  <2>3. CASE SetConnected(u)
    BY <1>1, <1>3, <2>3 DEF SetConnected, tableVars, historyVars
  <2>4. CASE StartCaller(u)
    <3>1. /\ UNCHANGED <<active, connections, routers, unrouted>>
          /\ hand[u] \in active /\ Proceed(u, "idle", 0)
      BY <2>4 DEF StartCaller, tableVars, historyVars, ManagerInv, EnterInv
    <3>. QED BY <1>3, <3>1 DEF NoGhosts, Busy
  <2>5. CASE InsertRouter(u)
    <3>1. /\ routers' = routers \cup {hand[u]} /\ UNCHANGED <<active, connections, unrouted>>
          /\ Proceed(u, "idle", 0)
      BY <2>5 DEF InsertRouter, historyVars
    <3>. QED BY <1>3, <3>1 DEF NoGhosts, Busy
  <2>6. CASE RemoveActive(u)
    <3>1. /\ active' = active \ {hand[u]} /\ UNCHANGED <<connections, routers, unrouted>>
          /\ Proceed(u, "connection", hand[u])
      BY <2>6 DEF RemoveActive, historyVars
    <3>. QED BY <1>3, <3>1 DEF NoGhosts, Busy
  <2>7. CASE RemoveConnection(u)
    <3>1. /\ connections' = connections \ {hand[u]} /\ UNCHANGED <<active, routers, unrouted>>
          /\ \E w, i : Proceed(u, w, i)
      BY <2>7 DEF RemoveConnection, historyVars
    <3>. QED BY <1>3, <3>1 DEF NoGhosts, Busy
  <2>8. CASE ShutdownNext(u)
    <3>1. PICK i : /\ routers' = routers \ {i} /\ UNCHANGED <<active, connections, unrouted>>
                   /\ Proceed(u, "active", i) /\ task[u] = "shutdown"
      BY <2>8 DEF ShutdownNext, RemoveRouter
    <3>. QED BY <1>3, <1>4, <3>1 DEF NoGhosts, Busy
  <2>. QED BY <1>6, <2>1, <2>2, <2>3, <2>4, <2>5, <2>6, <2>7, <2>8 DEF ManagerStep
<1>. QED BY <1>5, <1>6

LEMMA TransportStep == TransportInv /\ [Next]_vars => TransportInv'
<1>. SUFFICES ASSUME CallerInv, ManagerInv, NoGhosts, [Next]_vars PROVE TransportInv'
  BY DEF TransportInv
<1>1. ASSUME UNCHANGED managerVars PROVE ManagerInv' /\ NoGhosts'
  <2>1. ManagerInv'
    BY <1>1, TablesSame DEF managerVars, ManagerInv, ManagerTypes
  <2>. QED BY <1>1, <2>1, GhostsSame DEF managerVars, Busy
<1>2. CASE CallerNext(Callers \ Managed) /\ UNCHANGED managerVars
  BY <1>1, <1>2, CallerNextKeeps DEF TransportInv
<1>3. CASE AcceptTask
  <2>1. CallerInv' /\ ManagerInv'
    BY <1>3, AcceptTaskKeeps, CallersBeside DEF AcceptTask, callerVars
  <2>2. NoGhosts'
    BY <1>3, GhostsSame DEF AcceptTask, tableVars, taskVars, historyVars, Busy
  <2>. QED BY <2>1, <2>2 DEF TransportInv
<1>4. ASSUME NEW u \in Users, ManagerStep(u) \/ ManagerCall(u) PROVE TransportInv'
  BY <1>4, ManagerStepKeeps, ManagerCallKeeps, GhostStep DEF TransportInv
<1>5. CASE BesideTables
  <2>1. CallerInv' /\ ManagerInv'
    BY <1>5, BesideTablesKeeps
  <2>2. UNCHANGED <<active, connections, routers, unrouted, hand>>
    BY <1>5 DEF BesideTables, AddCaller, RemoveCaller, SetEventHandler, AddListener,
       ChangeListener, LoseConnection, tableVars, taskVars, historyVars
  <2>3. NoGhosts'
    BY <2>2, GhostsSame DEF Busy
  <2>. QED BY <2>1, <2>3 DEF TransportInv
<1>6. ASSUME NEW i \in routers, RemoveRouterOnly(i) PROVE TransportInv'
  <2>1. UNCHANGED <<state, loop, attempt, tries, circuit, remote>> /\ Command
    BY <1>6 DEF RemoveRouterOnly
  <2>2. CallerInv' /\ ManagerInv'
    BY <1>6, <2>1, CallersBeside, RemoveRouterOnlyKeeps
  <2>3. NoGhosts'
    BY <1>6 DEF RemoveRouterOnly, taskVars, NoGhosts, Busy
  <2>. QED BY <2>2, <2>3 DEF TransportInv
<1>7. CASE UNCHANGED vars
  <2>1. CallerInv'
    BY <1>7, CallersBeside DEF vars, callerVars
  <2>2. UNCHANGED managerVars
    BY <1>7 DEF vars
  <2>. QED BY <1>1, <2>1, <2>2 DEF TransportInv
<1>. QED BY <1>2, <1>3, <1>4, <1>5, <1>6, <1>7 DEF Next, BesideTables

\* The inductive invariant of callers and manager: what each loop has counted at its
\* stage, and what each operation has in hand between two locks.
THEOREM TransportInvariant == Spec => []TransportInv
BY TransportStart, TransportStep, PTL DEF Spec

\* Every variable of callers and manager has the values the code can give it, for any
\* callers, strategies and users.
THEOREM TransportTypes == Spec => []TypeOK
<1>1. TransportInv => TypeOK
  BY DEF TransportInv, CallerInv, CallerTypes, ManagerInv, ManagerTypes, TypeOK
<1>. QED BY <1>1, TransportInvariant, PTL

\* A circuit breaker that any number of loops share, and users close, never counts
\* past its threshold, and opens and lets attempts through as it is configured to.
THEOREM BreakerConsistent == Spec => []CircuitConsistent
<1>1. TransportInv => CircuitConsistent
  BY DEF TransportInv, CallerInv
<1>. QED BY <1>1, TransportInvariant, PTL

\* A loop with a limit makes no more attempts than it is given, in whatever order it
\* is started, stopped, disabled and connected.
THEOREM LoopsGiveUp == Spec => []GivesUpInTime
<1>1. TransportInv => GivesUpInTime
  <2>. SUFFICES ASSUME TransportInv, NEW c \in Callers, StrategyOf[c] # NoStrategy,
                       Policy[StrategyOf[c]] = "delay" /\ Limited(c)
                PROVE  tries[c] <= Limit[StrategyOf[c]] + 1
    BY DEF GivesUpInTime
  <2>1. HasLimit(c)
    BY StrategyAssumption DEF HasLimit
  <2>. QED BY <2>1 DEF TransportInv, CallerInv, CountInv, Counted
<1>. QED BY <1>1, TransportInvariant, PTL

\* What is left of a connection in the manager is left by one race only, that of
\* create_router and disconnect.
THEOREM OneLeftover == Spec => []NoLeftovers
<1>1. TransportInv => NoLeftovers
  BY DEF TransportInv, ManagerInv, EntryInv, ClosedInv, NoLeftovers, Busy
<1>. QED BY <1>1, TransportInvariant, PTL

\* The table lists no connection of which the manager holds neither transport nor router,
\* but amid an operation on it or after a remove_router of the user.
THEOREM NothingListedInVain == Spec => []NoGhosts
<1>1. TransportInv => NoGhosts
  BY DEF TransportInv
<1>. QED BY <1>1, TransportInvariant, PTL
=============================================================================
