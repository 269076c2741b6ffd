SPECIFICATION Spec
CONSTANTS
    u1 = u1
    u2 = u2
    None = None
    Updaters <- TwoUpdaters
    Servers <- OneServer
    MaxUpdates = 2
    MaxLost = 2
    MaxTime = 3
PROPERTIES
    IsRegister
    UpdateReturns
