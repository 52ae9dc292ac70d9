------------------------------ MODULE Transport ------------------------------
(***************************************************************************)
(* The transport manager (transport/manager.rs): callers, listeners and    *)
(* the tables of connections, transport objects and routers, which user    *)
(* tasks change one lock after the other.  Callers in Managed are its own; *)
(* the others stand alone, with users who set their state.                 *)
(***************************************************************************)
EXTENDS Caller, Sequences

CONSTANTS
    Managed,    \* the callers that are added to the manager
    Enabled,    \* those of them that are configured to be enabled
    Users,      \* tasks that use the manager, one operation at a time each
    MaxIds      \* how many connections are made or accepted

ASSUME ManagedAssumption == Managed \subseteq Callers /\ Enabled \subseteq Managed
ASSUME MaxIdsAssumption == MaxIds \in Nat

VARIABLES
    callers,        \* the manager's table of callers
    handler,        \* whether it has an event handler
    listener,       \* its one listener: "absent", "enabled" or "disabled"
    accepting,      \* whether the listener's accept task runs
    accepted,       \* the queue of accepted connections
    nextId,         \* next_id
    active,         \* active_transports
    connections,    \* connections
    routers,        \* routers
    connectedTo,    \* the id in the Connected state of each caller
    task,           \* where each user task is
    hand,           \* the id that it is about
    target,         \* the caller that it connects
    todo,           \* the ids that a shutdown_all has yet to disconnect
    lost,           \* history: ids whose peer has gone
    closed,         \* history: ids for which disconnect was called
    overlapped,     \* history: ids that a create_router and a disconnect had together
    unrouted        \* history: ids whose router was removed, and nothing else

managerVars == <<callers, handler, listener, accepting, accepted, nextId, active, connections,
                 routers, connectedTo, task, hand, target, todo, lost, closed, overlapped,
                 unrouted>>
vars == <<callerVars, managerVars>>

NoCaller == "none"

Init ==
    /\ CallerInit
    /\ callers = {} /\ handler = FALSE
    /\ listener = "absent"
    /\ accepting = FALSE
    /\ accepted = <<>>
    /\ nextId = 1
    /\ active = {} /\ connections = {} /\ routers = {}
    /\ connectedTo = [c \in Callers |-> 0]
    /\ task = [u \in Users |-> "idle"]
    /\ hand = [u \in Users |-> 0]
    /\ target = [u \in Users |-> NoCaller]
    /\ todo = [u \in Users |-> {}]
    /\ lost = {} /\ closed = {} /\ overlapped = {} /\ unrouted = {}

tableVars == <<active, connections, routers>>
taskVars == <<task, hand, target, todo>>
historyVars == <<lost, closed, overlapped, unrouted>>

Begin(u) == task[u] = "idle" /\ Command

\* The next step of u's operation is on id i; the last one leaves it idle.
Proceed(u, where, i) ==
    /\ task' = [task EXCEPT ![u] = where]
    /\ hand' = [hand EXCEPT ![u] = i]

\* History: another operation on id i is at this point.
Overlap(i, where) ==
    overlapped' = overlapped \cup {j \in {i} : \E v \in Users : task[v] = where /\ hand[v] = j}

-----------------------------------------------------------------------------
(***************************************************************************)
(* Operations under one lock                                               *)
(***************************************************************************)

\* connect_caller holds the table of callers for reading until it returns.
CallersFree == \A u \in Users : target[u] = NoCaller

AddCaller(c) ==
    /\ Command
    /\ c \in Managed \ callers /\ CallersFree
    /\ state[c] = "disconnected" /\ loop[c] = "none"
    /\ callers' = callers \cup {c}
    /\ UNCHANGED <<state, loop, attempt, tries, circuit, remote>>
    /\ UNCHANGED <<handler, listener, accepting, accepted, nextId, tableVars, connectedTo, taskVars,
                   historyVars>>

\* The caller is forgotten; its loop, which owns a share of its state, goes on.
RemoveCaller(c) ==
    /\ Command
    /\ c \in callers /\ CallersFree
    /\ callers' = callers \ {c}
    /\ UNCHANGED <<state, loop, attempt, tries, circuit, remote>>
    /\ UNCHANGED <<handler, listener, accepting, accepted, nextId, tableVars, connectedTo, taskVars,
                   historyVars>>

SetEventHandler ==
    /\ Command
    /\ ~handler
    /\ handler' = TRUE
    /\ UNCHANGED <<state, loop, attempt, tries, circuit, remote>>
    /\ UNCHANGED <<callers, listener, accepting, accepted, nextId, tableVars, connectedTo,
                   taskVars, historyVars>>

\* add_listener binds, and spawns the accept task if the listener is enabled.
AddListener(enabled) ==
    /\ Command
    /\ listener = "absent" /\ ~accepting
    /\ listener' = IF enabled THEN "enabled" ELSE "disabled"
    /\ accepting' = enabled
    /\ UNCHANGED <<state, loop, attempt, tries, circuit, remote>>
    /\ UNCHANGED <<callers, handler, accepted, nextId, tableVars, connectedTo, taskVars, historyVars>>

\* remove_listener, enable_transport and disable_transport change the entry; the
\* accept task neither begins nor ends.  Of a caller they change nothing.
ChangeListener(s) ==
    /\ Command
    /\ listener \notin {"absent", s}
    /\ listener' = s
    /\ UNCHANGED <<state, loop, attempt, tries, circuit, remote>>
    /\ UNCHANGED <<callers, handler, accepting, accepted, nextId, tableVars, connectedTo, taskVars,
                   historyVars>>

\* The accept task has a connection, and passes it on with a fresh id.
AcceptTask ==
    /\ accepting /\ nextId <= MaxIds
    /\ accepted' = Append(accepted, nextId)
    /\ nextId' = nextId + 1
    /\ UNCHANGED callerVars
    /\ UNCHANGED <<callers, handler, listener, accepting, tableVars, connectedTo, taskVars, historyVars>>

-----------------------------------------------------------------------------
(***************************************************************************)
(* connect_caller; accept_connection with register_connection              *)
(***************************************************************************)
ConnectCaller(u, c) ==
    /\ task[u] = "idle"
    /\ c \in callers /\ c \in Enabled /\ nextId <= MaxIds
    /\ nextId' = nextId + 1
    /\ \/ /\ Reachable(c)
          /\ Proceed(u, "store", nextId)
          /\ target' = [target EXCEPT ![u] = c]
       \/ /\ ~Reachable(c)
          /\ UNCHANGED <<task, hand, target>>
    /\ UNCHANGED callerVars
    /\ UNCHANGED <<callers, handler, listener, accepting, accepted, tableVars, connectedTo, todo,
                   historyVars>>

AcceptConnection(u) ==
    /\ task[u] = "idle"
    /\ accepted # <<>>
    /\ accepted' = Tail(accepted)
    /\ Proceed(u, "store", Head(accepted))
    /\ UNCHANGED callerVars
    /\ UNCHANGED <<callers, handler, listener, accepting, nextId, tableVars, connectedTo, target, todo,
                   historyVars>>

StoreTransport(u) ==
    /\ task[u] = "store"
    /\ active' = active \cup {hand[u]}
    /\ Proceed(u, "register", hand[u])
    /\ UNCHANGED callerVars
    /\ UNCHANGED <<callers, handler, listener, accepting, accepted, nextId, connections, routers,
                   connectedTo, target, todo, historyVars>>

RegisterConnection(u) ==
    /\ task[u] = "register"
    /\ connections' = connections \cup {hand[u]}
    /\ \/ target[u] = NoCaller /\ Proceed(u, "idle", 0)
       \/ target[u] # NoCaller /\ Proceed(u, "connected", hand[u])
    /\ UNCHANGED callerVars
    /\ UNCHANGED <<callers, handler, listener, accepting, accepted, nextId, active, routers,
                   connectedTo, target, todo, historyVars>>

SetConnected(u) ==
    /\ task[u] = "connected"
    /\ SetTo(target[u], "connected")
    /\ connectedTo' = [connectedTo EXCEPT ![target[u]] = hand[u]]
    /\ Proceed(u, "start", hand[u])
    /\ UNCHANGED <<loop, attempt, tries, circuit, remote, commands>>
    /\ UNCHANGED <<callers, handler, listener, accepting, accepted, nextId, tableVars, target,
                   todo, historyVars>>

\* The loop, in place of the last one: with a strategy, and with an event handler.
StartCaller(u) ==
    /\ task[u] = "start"
    /\ IF handler /\ StrategyOf[target[u]] # NoStrategy
       THEN StartLoop(target[u])
       ELSE UNCHANGED <<loop, attempt, tries>>
    /\ Proceed(u, "idle", 0)
    /\ target' = [target EXCEPT ![u] = NoCaller]
    /\ UNCHANGED <<state, circuit, remote, commands>>
    /\ UNCHANGED <<callers, handler, listener, accepting, accepted, nextId, tableVars,
                   connectedTo, todo, historyVars>>

-----------------------------------------------------------------------------
(***************************************************************************)
(* create_router                                                           *)
(***************************************************************************)

\* Mutant: an early return between the two locks, with the transport in hand.
TakeTransportDropping(u, i) ==
    /\ Begin(u)
    /\ i \in active
    /\ active' = active \ {i}
    /\ Proceed(u, "idle", 0)
    /\ UNCHANGED <<state, loop, attempt, tries, circuit, remote>>
    /\ UNCHANGED <<callers, handler, listener, accepting, accepted, nextId, connections, routers,
                   connectedTo, target, todo, historyVars>>

TakeTransport(u, i) ==
    /\ Begin(u)
    /\ i \in active
    /\ active' = active \ {i}
    /\ Proceed(u, "router", i)
    /\ Overlap(i, "active")
    /\ UNCHANGED <<state, loop, attempt, tries, circuit, remote>>
    /\ UNCHANGED <<callers, handler, listener, accepting, accepted, nextId, connections, routers,
                   connectedTo, target, todo, lost, closed, unrouted>>

InsertRouter(u) ==
    /\ task[u] = "router"
    /\ routers' = routers \cup {hand[u]}
    /\ Proceed(u, "idle", 0)
    /\ UNCHANGED callerVars
    /\ UNCHANGED <<callers, handler, listener, accepting, accepted, nextId, active, connections,
                   connectedTo, target, todo, historyVars>>

-----------------------------------------------------------------------------
(***************************************************************************)
(* disconnect and shutdown_all                                             *)
(***************************************************************************)

\* disconnect, as far as it removes the router and shuts it down.
RemoveRouter(u, i) ==
    /\ routers' = routers \ {i}
    /\ closed' = closed \cup {i}
    /\ Overlap(i, "router")
    /\ Proceed(u, "active", i)

Disconnect(u, i) ==
    /\ Begin(u)
    /\ RemoveRouter(u, i)
    /\ UNCHANGED <<state, loop, attempt, tries, circuit, remote>>
    /\ UNCHANGED <<callers, handler, listener, accepting, accepted, nextId, active, connections,
                   connectedTo, target, todo, lost, unrouted>>

RemoveActive(u) ==
    /\ task[u] = "active"
    /\ active' = active \ {hand[u]}
    /\ Proceed(u, "connection", hand[u])
    /\ UNCHANGED callerVars
    /\ UNCHANGED <<callers, handler, listener, accepting, accepted, nextId, connections, routers,
                   connectedTo, target, todo, historyVars>>

\* Mutant: disconnect has its connection removed with the router only.
RemoveConnectionOfRouter(u) ==
    /\ task[u] = "connection"
    /\ connections' = IF hand[u] \in routers THEN connections \ {hand[u]} ELSE connections
    /\ Proceed(u, IF todo[u] = {} THEN "idle" ELSE "shutdown", 0)
    /\ UNCHANGED callerVars
    /\ UNCHANGED <<callers, handler, listener, accepting, accepted, nextId, active, routers,
                   connectedTo, target, todo, historyVars>>

RemoveConnection(u) ==
    /\ task[u] = "connection"
    /\ connections' = connections \ {hand[u]}
    /\ Proceed(u, IF todo[u] = {} THEN "idle" ELSE "shutdown", 0)
    /\ UNCHANGED callerVars
    /\ UNCHANGED <<callers, handler, listener, accepting, accepted, nextId, active, routers,
                   connectedTo, target, todo, historyVars>>

\* shutdown_all takes the ids that have a router now, and disconnects these.
ShutdownAll(u) ==
    /\ Begin(u)
    /\ routers # {}
    /\ todo' = [todo EXCEPT ![u] = routers]
    /\ Proceed(u, "shutdown", 0)
    /\ UNCHANGED <<state, loop, attempt, tries, circuit, remote>>
    /\ UNCHANGED <<callers, handler, listener, accepting, accepted, nextId, tableVars, connectedTo,
                   target, historyVars>>

ShutdownNext(u) ==
    /\ task[u] = "shutdown"
    /\ \E i \in todo[u] :
          /\ todo' = [todo EXCEPT ![u] = @ \ {i}]
          /\ RemoveRouter(u, i)
    /\ UNCHANGED callerVars
    /\ UNCHANGED <<callers, handler, listener, accepting, accepted, nextId, active, connections,
                   connectedTo, target, lost, unrouted>>

\* remove_router, which leaves the connection in the table.
RemoveRouterOnly(i) ==
    /\ Command
    /\ i \in routers
    /\ routers' = routers \ {i}
    /\ unrouted' = unrouted \cup {i}
    /\ UNCHANGED <<state, loop, attempt, tries, circuit, remote>>
    /\ UNCHANGED <<callers, handler, listener, accepting, accepted, nextId, active, connections,
                   connectedTo, taskVars, lost, closed, overlapped>>

-----------------------------------------------------------------------------
\* External: the peer of connection i has gone.  The router's tasks end; nothing
\* here is told.
LoseConnection(i) ==
    /\ Command
    /\ i \in connections \ lost
    /\ lost' = lost \cup {i}
    /\ UNCHANGED <<state, loop, attempt, tries, circuit, remote>>
    /\ UNCHANGED <<callers, handler, listener, accepting, accepted, nextId, tableVars, connectedTo,
                   taskVars, closed, overlapped, unrouted>>

ManagerStep(u) ==
    \/ StoreTransport(u) \/ RegisterConnection(u) \/ SetConnected(u) \/ StartCaller(u)
    \/ InsertRouter(u) \/ RemoveActive(u) \/ RemoveConnection(u) \/ ShutdownNext(u)

\* Users learn an id when the operation that enters it returns.
Known == {i \in connections :
            \A u \in Users : ~(task[u] \in {"connected", "start"} /\ hand[u] = i)}

ManagerCall(u) ==
    \/ \E c \in Managed : ConnectCaller(u, c)
    \/ AcceptConnection(u) \/ ShutdownAll(u)
    \/ \E i \in Known : TakeTransport(u, i) \/ Disconnect(u, i)

Next ==
    \/ CallerNext(Callers \ Managed) /\ UNCHANGED managerVars
    \/ \E c \in Managed : AddCaller(c) \/ RemoveCaller(c)
    \/ SetEventHandler
    \/ \E e \in BOOLEAN : AddListener(e)
    \/ \E s \in {"absent", "enabled", "disabled"} : ChangeListener(s)
    \/ AcceptTask
    \/ \E u \in Users : ManagerStep(u) \/ ManagerCall(u)
    \/ \E i \in routers : RemoveRouterOnly(i)
    \/ \E i \in connections : LoseConnection(i)

Spec == Init /\ [][Next]_vars

\* Loops and operations that have begun go on; commands are not forced.
FairSpec ==
    /\ Spec
    /\ \A c \in Callers : WF_vars(LoopStep(c) /\ UNCHANGED managerVars)
    /\ \A u \in Users : WF_vars(ManagerStep(u))
=============================================================================
