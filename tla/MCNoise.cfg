SPECIFICATION Spec
CONSTANTS
    c1 = c1
    c2 = c2
    w1 = w1
    w2 = w2
    None = None
    Conns <- TwoConns
    Patterns <- XKAndKK
    Writers <- TwoWriters
    PayLens <- PayloadLengths
    LenMod = 8
    Overhead = 2
    SeqLen = 1
    Scenarios <- FramesAmidHandshakes
INVARIANTS
    KeysMatch
    FramesIntact
    FrameLenExact
    OnlyLongFramesFail
    NoOldSeq
PROPERTIES
    AcceptReachesAll
    FramesArrive
