SPECIFICATION Spec
CONSTANTS
    p1 = p1
    p2 = p2
    r1 = r1
    r2 = r2
    r3 = r3
    relay = relay
    Nobody = Nobody
    Processes = {p1, p2}
    Requests = {r1, r2, r3}
    Relays = {relay}
    Home <- AtHome
    Serves <- Clients
    PoolSize = 1
    Synchronous = TRUE
INVARIANTS NetworkCallsHoldNothing
PROPERTIES TasksEnd
