SPECIFICATION MCSpec
CONSTANTS
    r1 = r1
    r2 = r2
    r3 = r3
    r4 = r4
    r5 = r5
    core = core
    product = product
    observation = observation
    Publishers = {1, 2, 3}
    Keys = {k1, k2}
    Releases = {r1, r2, r3, r4, r5}
    Scopes = {core, product, observation}
    ScopeOf <- MCScopeOf
    RouteOf <- MCRouteOf
    Nobody = Nobody
    None = None
CHECK_DEADLOCK FALSE
INVARIANTS
    LinearChain
    NoLostUpdate
PROPERTIES
    ImplementsChain
    CallsAnswered
