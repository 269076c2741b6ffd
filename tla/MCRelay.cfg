SPECIFICATION Spec
CONSTANTS
    a = a
    b = b
    d1 = d1
    d2 = d2
    None = None
    Clients <- TwoClients
    Dials <- TwoDials
    Scenarios <- TwoDialsUndisturbed
INVARIANTS
    TypeOK
    NoCrossTalk
    RoutesPaired
    RoutesReclaimed
