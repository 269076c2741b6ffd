SPECIFICATION Spec
CONSTANTS
    c1 = c1
    c2 = c2
    c3 = c3
    None = None
    SeqMod = 2
    Calls <- MCCalls
    Cancellable <- MCCancellable
INVARIANTS
    MapHoldsOpenChannels
    WaiterReachable
PROPERTIES
    StoppedCallReturns
