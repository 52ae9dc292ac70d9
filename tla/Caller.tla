------------------------------- MODULE Caller -------------------------------
(***************************************************************************)
(* Callers that connect, and connect again (transport/caller.rs), and the  *)
(* strategies that they ask whether to (transport/strategy/): the circuit  *)
(* breaker, delays with and without a limit, and none.  A strategy may be  *)
(* shared, as configurations are cloned with a reference to it.            *)
(*                                                                         *)
(* The state of a caller is written by its loop and by others: by the      *)
(* transport manager, or by the user of a caller that stands alone.        *)
(***************************************************************************)
EXTENDS Integers

CONSTANTS
    Callers,
    Strategies,
    StrategyOf,     \* the strategy that each caller is configured with
    Policy,         \* what each strategy is
    Limit,          \* the max_attempts of each, or Unlimited
    Threshold,      \* CircuitBreaker.failure_threshold
    Probes,         \* CircuitBreaker.half_open_attempts
    Misconfigured,  \* callers whose connection attempts are invalid
    MaxCommands     \* how many commands users give

Unlimited == -1
NoStrategy == "none"

ASSUME StrategyAssumption ==
    /\ StrategyOf \in [Callers -> Strategies \cup {NoStrategy}]
    /\ Policy \in [Strategies -> {"never", "delay", "circuit"}]
    /\ Limit \in [Strategies -> Nat \cup {Unlimited}]
ASSUME CircuitAssumption == Threshold \in Nat /\ Probes \in Nat
ASSUME CommandsAssumption == MaxCommands \in Nat

VARIABLES
    state,      \* CallerState, without what it carries
    loop,       \* where each caller's reconnection loop is
    attempt,    \* its count of attempts
    tries,      \* history: how often it failed since it began or last connected
    circuit,    \* CircuitBreakerState of each strategy
    remote,     \* the peer: "up" or "down"
    commands    \* history: how many commands there were

callerVars == <<state, loop, attempt, tries, circuit, remote, commands>>

States == {"disconnected", "connecting", "connected", "reconnecting", "disabled"}
Circuit == [at : {"closed", "open", "half_open"}, failures : Nat, probes : Nat,
            elapsed : BOOLEAN]

\* The loop runs; it has not ended ("ended"), nor been aborted or begun ("none").
Running == {"check", "connect", "connecting", "announce", "up", "asking", "give_up",
            "back_off", "sleep"}

ClosedCircuit == [at |-> "closed", failures |-> 0, probes |-> 0, elapsed |-> FALSE]

CallerInit ==
    /\ state = [c \in Callers |-> "disconnected"]
    /\ loop = [c \in Callers |-> "none"]
    /\ attempt = [c \in Callers |-> 0]
    /\ tries = [c \in Callers |-> 0]
    /\ circuit = [s \in Strategies |-> ClosedCircuit]
    /\ remote = "up"
    /\ commands = 0

Command == commands < MaxCommands /\ commands' = commands + 1

-----------------------------------------------------------------------------
(***************************************************************************)
(* The circuit breaker.  Failures are counted up to the threshold, as they *)
(* are only compared with it; elapsed tells that the timeout has passed    *)
(* since opened_at.                                                        *)
(***************************************************************************)
UpdateState(k) ==
    CASE k.at = "open" /\ k.elapsed -> [k EXCEPT !.at = "half_open", !.probes = 0]
      [] k.at = "closed" /\ k.failures >= Threshold ->
            [k EXCEPT !.at = "open", !.elapsed = FALSE]
      [] OTHER -> k

OnDisconnected(k) ==
    UpdateState([k EXCEPT !.failures = IF @ < Threshold THEN @ + 1 ELSE @])

\* Mutant: a success closes the circuit and keeps the count of failures.
OnConnectedCounting(k) == [k EXCEPT !.at = "closed", !.probes = 0]

OnConnected(k) == ClosedCircuit

\* should_reconnect of the breaker: what it answers and what it leaves behind.
AskCircuit(k) ==
    LET u == UpdateState(k)
    IN  CASE u.at = "closed" -> [retry |-> TRUE, next |-> u]
          [] u.at = "open" -> [retry |-> FALSE, next |-> u]
          [] u.at = "half_open" /\ u.probes < Probes ->
                [retry |-> TRUE, next |-> [u EXCEPT !.probes = @ + 1]]
          [] OTHER -> [retry |-> FALSE, next |-> [u EXCEPT !.at = "open", !.elapsed = FALSE]]

CircuitTimeout(s) ==
    /\ circuit[s].at = "open" /\ ~circuit[s].elapsed
    /\ circuit' = [circuit EXCEPT ![s].elapsed = TRUE]
    /\ UNCHANGED <<state, loop, attempt, tries, remote, commands>>

CloseCircuit(s) ==
    /\ Command
    /\ Policy[s] = "circuit"
    /\ circuit[s] # ClosedCircuit
    /\ circuit' = [circuit EXCEPT ![s] = ClosedCircuit]
    /\ UNCHANGED <<state, loop, attempt, tries, remote>>

-----------------------------------------------------------------------------
(***************************************************************************)
(* should_reconnect of every strategy: none goes on after a configuration  *)
(* error.                                                                  *)
(***************************************************************************)
Limited(c) == Limit[StrategyOf[c]] # Unlimited

\* Mutant: the limit is looked at after one attempt more.
ShouldReconnectLate(c, k) ==
    CASE c \in Misconfigured -> [retry |-> FALSE, next |-> k]
      [] Policy[StrategyOf[c]] = "circuit" -> AskCircuit(k)
      [] Policy[StrategyOf[c]] = "delay" ->
            [retry |-> ~Limited(c) \/ attempt[c] <= Limit[StrategyOf[c]], next |-> k]
      [] OTHER -> [retry |-> FALSE, next |-> k]

ShouldReconnect(c, k) ==
    CASE c \in Misconfigured -> [retry |-> FALSE, next |-> k]
      [] Policy[StrategyOf[c]] = "circuit" -> AskCircuit(k)
      [] Policy[StrategyOf[c]] = "delay" ->
            [retry |-> ~Limited(c) \/ attempt[c] < Limit[StrategyOf[c]], next |-> k]
      [] OTHER -> [retry |-> FALSE, next |-> k]

-----------------------------------------------------------------------------
(***************************************************************************)
(* The reconnection loop                                                   *)
(***************************************************************************)
\* A breaker takes note of what its caller tells it; the other strategies do not.
Tell(c, k) ==
    circuit' = [circuit EXCEPT ![StrategyOf[c]] =
                    IF Policy[StrategyOf[c]] = "circuit" THEN k ELSE @]

GoTo(c, where) == loop' = [loop EXCEPT ![c] = where]
SetTo(c, s) == state' = [state EXCEPT ![c] = s]

\* Stop the loop that runs, if one does, and spawn another.
StartLoop(c) ==
    /\ StrategyOf[c] # NoStrategy
    /\ GoTo(c, "check")
    /\ attempt' = [attempt EXCEPT ![c] = 0]
    /\ tries' = [tries EXCEPT ![c] = 0]

\* Mutant: only a caller that is disconnected connects again.
CheckStrictly(c) ==
    /\ loop[c] = "check" /\ state[c] # "connected"
    /\ \/ state[c] = "disabled" /\ GoTo(c, "ended")
       \/ state[c] \in {"disconnected", "connecting"} /\ GoTo(c, "connect")
    /\ UNCHANGED <<state, attempt, tries, circuit, remote, commands>>

\* The loop reads the state.  While that is Connected it looks again and again.
Check(c) ==
    /\ loop[c] = "check" /\ state[c] # "connected"
    /\ \/ state[c] = "disabled" /\ GoTo(c, "ended")
       \/ state[c] # "disabled" /\ GoTo(c, "connect")
    /\ UNCHANGED <<state, attempt, tries, circuit, remote, commands>>

\* It writes Connecting, over whatever the state is by now.
BeginConnect(c) ==
    /\ loop[c] = "connect"
    /\ SetTo(c, "connecting")
    /\ GoTo(c, "connecting")
    /\ UNCHANGED <<attempt, tries, circuit, remote, commands>>

Reachable(c) == remote = "up" /\ c \notin Misconfigured

ConnectSucceeds(c) ==
    /\ loop[c] = "connecting"
    /\ Reachable(c)
    /\ GoTo(c, "announce")
    /\ UNCHANGED <<state, attempt, tries, circuit, remote, commands>>

\* It writes Connected, and tells the strategy and the event handler.
Announce(c) ==
    /\ loop[c] = "announce"
    /\ SetTo(c, "connected")
    /\ Tell(c, OnConnected(circuit[StrategyOf[c]]))
    /\ attempt' = [attempt EXCEPT ![c] = 0]
    /\ tries' = [tries EXCEPT ![c] = 0]
    /\ GoTo(c, "up")
    /\ UNCHANGED <<remote, commands>>

\* The inner loop reads a state other than Connected.
SeeChange(c) ==
    /\ loop[c] = "up" /\ state[c] # "connected"
    /\ GoTo(c, "check")
    /\ UNCHANGED <<state, attempt, tries, circuit, remote, commands>>

\* The attempt fails, and the strategy is told.
ConnectFails(c) ==
    /\ loop[c] = "connecting"
    /\ ~Reachable(c)
    /\ Tell(c, OnDisconnected(circuit[StrategyOf[c]]))
    /\ tries' = [tries EXCEPT ![c] = IF Limited(c) THEN @ + 1 ELSE @]
    /\ GoTo(c, "asking")
    /\ UNCHANGED <<state, attempt, remote, commands>>

\* Then it is asked; meanwhile others that share it may have told it something.
AskStrategy(c) ==
    /\ loop[c] = "asking"
    /\ LET asked == ShouldReconnect(c, circuit[StrategyOf[c]])
       IN  /\ circuit' = [circuit EXCEPT ![StrategyOf[c]] = asked.next]
           /\ GoTo(c, IF asked.retry THEN "back_off" ELSE "give_up")
    /\ UNCHANGED <<state, attempt, tries, remote, commands>>

GiveUp(c) ==
    /\ loop[c] = "give_up"
    /\ SetTo(c, "disconnected")
    /\ GoTo(c, "ended")
    /\ UNCHANGED <<attempt, tries, circuit, remote, commands>>

BackOff(c) ==
    /\ loop[c] = "back_off"
    /\ SetTo(c, "reconnecting")
    /\ GoTo(c, "sleep")
    /\ UNCHANGED <<attempt, tries, circuit, remote, commands>>

\* The delay is over.  attempt matters, and is counted here, only with a limit.
Retry(c) ==
    /\ loop[c] = "sleep"
    /\ attempt' = [attempt EXCEPT ![c] = IF Limited(c) THEN @ + 1 ELSE @]
    /\ GoTo(c, "check")
    /\ UNCHANGED <<state, tries, circuit, remote, commands>>

LoopStep(c) ==
    \/ Check(c) \/ BeginConnect(c) \/ ConnectSucceeds(c) \/ Announce(c) \/ SeeChange(c)
    \/ ConnectFails(c) \/ AskStrategy(c) \/ GiveUp(c) \/ BackOff(c) \/ Retry(c)

-----------------------------------------------------------------------------
(***************************************************************************)
(* The user of a caller                                                    *)
(***************************************************************************)
SetState(c, s) ==
    /\ Command
    /\ state[c] # s
    /\ SetTo(c, s)
    /\ UNCHANGED <<loop, attempt, tries, circuit, remote>>

StartReconnectionLoop(c) ==
    /\ Command
    /\ StartLoop(c)
    /\ UNCHANGED <<state, circuit, remote>>

StopReconnectionLoop(c) ==
    /\ Command
    /\ loop[c] \in Running
    /\ GoTo(c, "none")
    /\ UNCHANGED <<state, attempt, tries, circuit, remote>>

\* External: the peer goes down or comes up again.
RemoteChanges ==
    /\ Command
    /\ remote' \in {"up", "down"} \ {remote}
    /\ UNCHANGED <<state, loop, attempt, tries, circuit>>

UserStep(c) ==
    \/ \E s \in {"disconnected", "disabled"} : SetState(c, s)
    \/ StartReconnectionLoop(c) \/ StopReconnectionLoop(c)

CallerNext(Users) ==
    \/ \E c \in Callers : LoopStep(c)
    \/ \E c \in Users : UserStep(c)
    \/ \E s \in Strategies : CircuitTimeout(s) \/ CloseCircuit(s)
    \/ RemoteChanges

\* A loop runs when it can; its sleeps end, and so does a connection attempt.
CallerFairness == \A c \in Callers : WF_callerVars(LoopStep(c))
=============================================================================
