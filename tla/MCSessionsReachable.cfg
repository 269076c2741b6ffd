SPECIFICATION Spec
CONSTANTS
    p1 = p1
    p2 = p2
    None = None
    Callers <- OneCaller
    Cancellable <- Nobody
    MaxConns = 3
    Scenarios <- OneOfEach
INVARIANTS
    ConnectedIsReachable
