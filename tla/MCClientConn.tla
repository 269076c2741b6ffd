---------------------------- MODULE MCClientConn -----------------------------
(* Small instances of ClientConn for TLC.                                  *)
EXTENDS ClientConn

CONSTANTS d1, d2, r1, r2

TwoDials == {d1, d2}
TwoRequests == {r1, r2}
OneRequestOnly == {{r1}}
PairsOfTransports == {{d1, d2}, {d1, r1}, {r1, r2}}
=============================================================================
