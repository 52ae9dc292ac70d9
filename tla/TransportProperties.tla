------------------------- MODULE TransportProperties -------------------------
(***************************************************************************)
(* What callers and the transport manager have to guarantee.               *)
(***************************************************************************)
EXTENDS Transport

Ids == 1..nextId - 1

TypeOK ==
    /\ state \in [Callers -> States]
    /\ loop \in [Callers -> Running \cup {"none", "ended"}]
    /\ attempt \in [Callers -> Nat]
    /\ tries \in [Callers -> Nat]
    /\ circuit \in [Strategies -> Circuit]
    /\ remote \in {"up", "down"}
    /\ commands \in Nat
    /\ callers \in SUBSET Managed /\ handler \in BOOLEAN
    /\ listener \in {"absent", "enabled", "disabled"}
    /\ accepting \in BOOLEAN
    /\ accepted \in Seq(Ids)
    /\ nextId \in Nat \ {0}
    /\ \A S \in {active, connections, routers, lost, closed, overlapped, unrouted} :
          S \in SUBSET Ids
    /\ connectedTo \in [Callers -> Ids \cup {0}]
    /\ task \in [Users -> {"idle", "store", "register", "connected", "start", "router",
                           "active", "connection", "shutdown"}]
    /\ hand \in [Users -> Ids \cup {0}]
    /\ \A u \in Users : hand[u] = 0 <=> task[u] \in {"idle", "shutdown"}
    /\ target \in [Users -> Managed \cup {NoCaller}]
    /\ todo \in [Users -> SUBSET Ids]

-----------------------------------------------------------------------------
\* The circuit is open or half open only after a full count of failures without
\* a success, closed only short of it, and half open it lets no more attempts
\* through than it should, however many loops share it.
CircuitConsistent ==
    \A s \in Strategies :
        /\ circuit[s].at = "closed" => circuit[s].failures < Threshold \/ Threshold = 0
        /\ circuit[s].at # "closed" => circuit[s].failures = Threshold
        /\ circuit[s].at = "half_open" => circuit[s].probes <= Probes

\* A strategy with a limit lets a loop fail that often, and once for the attempt
\* that is no retry, between two successes.
GivesUpInTime ==
    \A c \in Callers :
        StrategyOf[c] # NoStrategy =>
            (Policy[StrategyOf[c]] = "delay" /\ Limited(c)
                => tries[c] <= Limit[StrategyOf[c]] + 1)

\* A loop with a strategy that never gives up connects again and again, as long as
\* the peer is there and nobody disables the caller or stops the loop.
Reconnects ==
    \A c \in Callers :
        StrategyOf[c] # NoStrategy =>
            (Policy[StrategyOf[c]] = "delay" /\ ~Limited(c) /\ c \notin Misconfigured =>
                []<>(state[c] \in {"connected", "disabled"}
                        \/ loop[c] \notin Running \/ remote = "down"))

-----------------------------------------------------------------------------
Busy(i) == \E u \in Users : hand[u] = i

\* What the manager holds of a connection is entered together and goes together,
\* however its operations interleave: only a disconnect in the middle of
\* create_router leaves a router behind, which then has no entry.
NoLeftovers ==
    /\ \A i \in active \cup routers : i \in connections \/ Busy(i) \/ i \in overlapped
    /\ \A i \in closed : i \in connections => Busy(i) \/ \E u \in Users : i \in todo[u]

\* Nor does the table list a connection of which the manager has nothing any more: each
\* has its transport or its router, unless an operation is in the middle of handing one
\* over, or the router was removed by itself.
NoGhosts ==
    \A i \in connections : i \in active \cup routers \cup unrouted \/ Busy(i)

\* "If the caller has a strategy strategy, it will automatically reconnect on
\* failure": a caller of the manager whose connection is lost gets another one, if its
\* loop runs, for which the manager must have had an event handler.
ReconnectsOnFailure ==
    \A c \in Managed : \A i \in 1..MaxIds :
        /\ state[c] = "connected" /\ connectedTo[c] = i /\ i \in lost
        /\ loop[c] \in Running /\ remote = "up"
        ~> connectedTo[c] # i \/ remote # "up"

-----------------------------------------------------------------------------
(***************************************************************************)
(* The inductive invariant: callers                                        *)
(***************************************************************************)
CallerTypes ==
    /\ state \in [Callers -> States]
    /\ loop \in [Callers -> Running \cup {"none", "ended"}]
    /\ attempt \in [Callers -> Nat] /\ tries \in [Callers -> Nat]
    /\ circuit \in [Strategies -> Circuit]
    /\ remote \in {"up", "down"} /\ commands \in Nat

LoopInv == \A c \in Callers : loop[c] \in Running => StrategyOf[c] # NoStrategy

\* What a loop with a limit has counted, at each of its stages.
Counted(c) ==
    LET limit == Limit[StrategyOf[c]]
    IN  /\ loop[c] \in {"check", "connect", "connecting", "announce"} =>
              tries[c] = attempt[c] /\ attempt[c] <= limit
        /\ loop[c] = "up" => tries[c] = 0 /\ attempt[c] = 0
        /\ loop[c] \in {"asking", "give_up"} => tries[c] = attempt[c] + 1 /\ attempt[c] <= limit
        /\ loop[c] \in {"back_off", "sleep"} => tries[c] = attempt[c] + 1 /\ attempt[c] < limit
        /\ tries[c] <= limit + 1

HasLimit(c) ==
    /\ StrategyOf[c] \in Strategies \ {NoStrategy}
    /\ Policy[StrategyOf[c]] = "delay" /\ Limited(c)

CountInv == \A c \in Callers : HasLimit(c) => Counted(c)

FailureInv == \A s \in Strategies : circuit[s].failures <= Threshold

CallerInv == CallerTypes /\ LoopInv /\ CountInv /\ FailureInv /\ CircuitConsistent

-----------------------------------------------------------------------------
(***************************************************************************)
(* The inductive invariant: the manager's tables                           *)
(***************************************************************************)
ManagerTypes ==
    /\ callers \in SUBSET Managed /\ handler \in BOOLEAN
    /\ listener \in {"absent", "enabled", "disabled"} /\ accepting \in BOOLEAN
    /\ nextId \in Nat \ {0}
    /\ accepted \in Seq(Ids)
    /\ active \subseteq Ids /\ connections \subseteq Ids /\ routers \subseteq Ids
    /\ lost \subseteq Ids /\ closed \subseteq Ids /\ overlapped \subseteq Ids
    /\ unrouted \subseteq Ids
    /\ connectedTo \in [Callers -> Ids \cup {0}]
    /\ task \in [Users -> {"idle", "store", "register", "connected", "start", "router",
                           "active", "connection", "shutdown"}]
    /\ hand \in [Users -> Ids \cup {0}]
    /\ \A u \in Users : hand[u] = 0 <=> task[u] \in {"idle", "shutdown"}
    /\ target \in [Users -> Managed \cup {NoCaller}]
    /\ todo \in [Users -> SUBSET Ids]
    /\ \A u \in Users : task[u] \in {"connected", "start"} => target[u] # NoCaller

\* Nobody has disconnected i, or is going to, or has given it a router.
Untouched(i) ==
    /\ i \notin closed \cup routers \cup overlapped
    /\ \A u \in Users : i \notin todo[u]

\* A connection that waits to be accepted is known to nobody.
QueueInv ==
    /\ \A n, k \in DOMAIN accepted : accepted[n] = accepted[k] => n = k
    /\ \A n \in DOMAIN accepted :
          /\ Untouched(accepted[n]) /\ accepted[n] \notin active \cup connections
          /\ \A u \in Users : hand[u] # accepted[n]

\* Nor is one that is being entered, but to the task that enters it.
EnterInv ==
    \A u \in Users : task[u] \in {"store", "register", "connected", "start"} =>
        /\ Untouched(hand[u])
        /\ hand[u] \in active <=> task[u] # "store"
        /\ hand[u] \in connections <=> task[u] \in {"connected", "start"}
        /\ \A v \in Users : hand[v] = hand[u] => v = u

\* create_router takes a transport away from under everyone else.
RouterInv ==
    \A u \in Users : task[u] = "router" =>
        /\ hand[u] \notin active \cup routers
        /\ \A v \in Users : task[v] = "router" /\ hand[v] = hand[u] => v = u
        /\ \/ hand[u] \in overlapped
           \/ /\ hand[u] \in connections
              /\ \A v \in Users : task[v] \in {"active", "connection"} => hand[v] # hand[u]

\* What a disconnect has removed is gone for good, or a create_router met it.
LeaveInv ==
    \A u \in Users : task[u] \in {"active", "connection"} =>
        /\ hand[u] \in routers => hand[u] \in overlapped
        /\ task[u] = "connection" => hand[u] \notin active

ClosedInv ==
    \A i \in closed \cap connections :
        \E u \in Users : task[u] \in {"active", "connection"} /\ hand[u] = i

EntryInv ==
    /\ active \cap routers = {}
    /\ \A i \in active \cup routers : i \in connections \/ Busy(i) \/ i \in overlapped

ManagerInv ==
    /\ ManagerTypes /\ QueueInv /\ EnterInv /\ RouterInv /\ LeaveInv /\ ClosedInv /\ EntryInv

TransportInv == CallerInv /\ ManagerInv /\ NoGhosts
=============================================================================
