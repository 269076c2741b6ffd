SPECIFICATION Spec
CONSTANTS
    p1 = p1
    p2 = p2
    None = None
    Callers <- TwoCallers
    Cancellable <- OneCaller
    MaxConns = 3
    Scenarios <- MoreCallsOrMoreFaults
INVARIANTS
    CachedConnIsServed
    RegisteredConnIsServed
    EntryMatchesConns
PROPERTIES
    LostConnReplaced
    CloseStopsReconnecting
