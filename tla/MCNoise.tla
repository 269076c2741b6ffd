------------------------------- MODULE MCNoise -------------------------------
(* Small instances of Noise for TLC.                                       *)
EXTENDS Noise

CONSTANTS c1, c2, w1, w2

TwoConns == {c1, c2}
TwoWriters == {w1, w2}
\* A frame on one of two connections, or two frames on the only one.
FramesAmidHandshakes ==
    {[conns |-> {c1, c2}, frames |-> [c \in TwoConns |-> IF c = c1 THEN 1 ELSE 0]],
     [conns |-> {c1}, frames |-> [c \in TwoConns |-> 2]]}
XKAndKK == {2, 3}
PayloadLengths == {0, 2, 5, 6, 8}
=============================================================================
