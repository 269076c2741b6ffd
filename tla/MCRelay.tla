------------------------------- MODULE MCRelay -------------------------------
(* Small instances of Relay for TLC.                                       *)
EXTENDS Relay, TLC

CONSTANTS a, b, d1, d2

TwoClients == {a, b}
TwoDials == {d1, d2}

AB == <<a, b>>
BA == <<b, a>>
AA == <<a, a>>

\* Two dials the same way, head on, or one of them to oneself.
TwoDialsUndisturbed ==
    {[plan |-> d1 :> AB @@ d2 :> x, drop |-> {}, writes |-> 0, ids |-> 4] : x \in {AB, BA, AA}}

\* One dial and data both ways, where the responder may go away ...
DropTheResponder == [plan |-> d1 :> AB, drop |-> {b}, writes |-> 2, ids |-> 4]
\* ... and two dials that share one even and one odd id.
ShareOneId == [plan |-> d1 :> AB @@ d2 :> AB, drop |-> {}, writes |-> 0, ids |-> 2]
Disturbed == {DropTheResponder, ShareOneId}
=============================================================================
