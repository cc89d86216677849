------------------------------- MODULE MCSwarm -------------------------------
(* A seed and a client that downloads its file of two segments. *)
EXTENDS Swarm, TLC

CONSTANTS c0, c1, a

MCNumSegments == a :> 2
MCTaskNo == (c0 :> (a :> 1)) @@ (c1 :> (a :> 1))
MCWilling == [c \in {c0, c1} |-> {a}]
MCOwnedAtStart == (c0 :> {a}) @@ (c1 :> {})
MCUninitSharers == a :> {}
=============================================================================
