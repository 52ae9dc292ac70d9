SPECIFICATION FairSpec
CONSTANTS
    m1 = m1
    a1 = a1
    b1 = b1
    c1 = c1
    d1 = d1
    breaker = breaker
    steady = steady
    limited = limited
    Callers = {m1, a1, b1, c1, d1}
    Strategies = {breaker, steady, limited}
    StrategyOf <- Uses
    Policy <- Policies
    Limit <- Limits
    Threshold = 2
    Probes = 1
    Misconfigured = {}
    MaxCommands = 4
    Managed = {m1}
    Enabled = {m1}
    Users = {u1, u2}
    MaxIds = 2
INVARIANTS
    CircuitConsistent
    GivesUpInTime
    NoLeftovers
    NoGhosts
PROPERTIES
    Reconnects
CHECK_DEADLOCK FALSE
