SPECIFICATION FairSpec
CONSTANTS
    m1 = m1
    a1 = a1
    b1 = b1
    c1 = c1
    d1 = d1
    breaker = breaker
    steady = steady
    limited = limited
    Callers = {m1}
    Strategies = {steady}
    StrategyOf <- UseOne
    Policy <- OnePolicy
    Limit <- OneLimit
    Threshold = 2
    Probes = 1
    Misconfigured = {}
    MaxCommands = 3
    Managed = {m1}
    Enabled = {m1}
    Users = {u1}
    MaxIds = 1
PROPERTY ReconnectsOnFailure
CHECK_DEADLOCK FALSE
