CONSTANTS
    c1 = c1
    c2 = c2
    h1 = h1
    h2 = h2
    a = a
    b = b
    d = d
    six = six
    Confs = {c1, c2}
    Hosts = {h1, h2}
    Addrs = {a, b, d, six}
    V4 = {a, b, d}
    None = None
    Policy <- MCPolicy
    Announce <- MCAnnounce
    Endpoints <- MCEndpoints
SPECIFICATION FairSpec
INVARIANTS TypeOK RoutesWithinConfig BindingsAreRoutes
PROPERTIES AnnouncedAddressIsKept EveryOperationEnds ImplementsAgent
