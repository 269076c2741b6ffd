SPECIFICATION Spec
CONSTANTS
    Handler = Handler
    Server = Server
    Acker = Acker
    ConnCloser = ConnCloser
    None = None
    r1 = r1
    w1 = w1
    w2 = w2
    k1 = k1
    SeqMod = 2
    TpBufCap = 1
    MaxFwd = 0
    Sizes <- OneByte
    ReadSizes <- ReadLengths
    Readers <- Nobody
    Writers <- TwoWriters
    Closers <- OneCloser
INVARIANTS
    OneCloseFrame
    WriteOKIsAnswered
CHECK_DEADLOCK FALSE
