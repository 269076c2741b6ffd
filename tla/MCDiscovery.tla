----------------------------- MODULE MCDiscovery -----------------------------
(* Small instances of Discovery for TLC.                                   *)
EXTENDS Discovery

CONSTANTS u1, u2

TwoUpdaters == {u1, u2}
OneServer == {u1}
=============================================================================
