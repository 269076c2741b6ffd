SPECIFICATION Spec
CONSTANTS
    d1 = d1
    d2 = d2
    r1 = r1
    r2 = r2
    None = None
    Dials <- TwoDials
    Requests <- TwoRequests
    Parties <- OneRequestOnly
    InitIds = 1
    AcceptBufferSize = 1
    MaxFrames = 2
INVARIANTS
    TransportsClosed
