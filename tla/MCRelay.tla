------------------------------- MODULE MCRelay -------------------------------
(* A seed and two clients that download its file and may serve it in turn. *)
EXTENDS Swarm, TLC

CONSTANTS c0, c1, c2, a

MCNumSegments == a :> 2
MCTaskNo == [c \in {c0, c1, c2} |-> a :> 1]
MCWilling == [c \in {c0, c1, c2} |-> IF c = c2 THEN {} ELSE {a}]
MCOwnedAtStart == (c0 :> {a}) @@ (c1 :> {}) @@ (c2 :> {})
MCUninitSharers == a :> {}
=============================================================================
