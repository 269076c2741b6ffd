----------------------------- MODULE MCTransport -----------------------------
(* Small instances of Transport.                                            *)
EXTENDS Transport

CONSTANTS r1, w1, w2, k1

Nobody == {}
OneReader == {r1}
OneWriter == {w1}
TwoWriters == {w1, w2}
OneCloser == {k1}
OneByte == {1}
ReadLengths == {0, 1}
=============================================================================
