----------------------------- MODULE MCAckWaiter -----------------------------
(* A small instance of AckWaiter: three calls and two sequence numbers, so  *)
(* that the counter comes round while calls still wait.                     *)
EXTENDS AckWaiter

CONSTANTS c1, c2, c3

MCCalls == {c1, c2, c3}
MCCancellable == {c3}
=============================================================================
