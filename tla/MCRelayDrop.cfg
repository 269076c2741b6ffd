SPECIFICATION Spec
CONSTANTS
    a = a
    b = b
    d1 = d1
    d2 = d2
    None = None
    Clients <- TwoClients
    Dials <- TwoDials
    Scenarios <- Disturbed
INVARIANTS
    RoutesPaired
    OpenMeansServed
    FwdFindsTransport
PROPERTIES
    FramesDrain
    DialResolves
