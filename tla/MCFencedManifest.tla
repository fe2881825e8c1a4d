---------------------------- MODULE MCFencedManifest ---------------------------
(* Instances of FencedManifest for TLC. *)
EXTENDS FencedManifest

CONSTANTS v, w

activation(e, i) == [op |-> "activate", epoch |-> e, id |-> i, payload |-> Null]
publication(e, i, p) == [op |-> "publish", epoch |-> e, id |-> i, payload |-> p]

A1 == activation(1, "a1")
P1 == publication(1, "p1", "x")
Q1 == publication(1, "q1", "x")
R1 == publication(1, "r1", "y")
\* The next leader activates its epoch under the mutation ID of P1.
A2 == activation(2, "p1")
P2 == publication(2, "p2", "y")

\* A leader with two writers, the second of which becomes its successor.
Requests == {A1, P1, Q1, R1, A2, P2}
AskedOf == [c \in {v, w} |-> IF c = v THEN {A1, P1} ELSE {Q1, R1, A2, P2}]
================================================================================
