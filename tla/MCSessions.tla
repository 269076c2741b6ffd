------------------------------ MODULE MCSessions -----------------------------
(* Small instances of Sessions for TLC.                                    *)
EXTENDS Sessions

CONSTANTS p1, p2

OneCaller == {p1}
TwoCallers == {p1, p2}
Nobody == {}

\* Two calls and one fault, or one call and two faults.
MoreCallsOrMoreFaults == {[callers |-> {p1, p2}, faults |-> 1], [callers |-> {p1}, faults |-> 2]}
\* One call and one fault.
OneOfEach == {[callers |-> {p1}, faults |-> 1]}
=============================================================================
