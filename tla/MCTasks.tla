------------------------------- MODULE MCTasks -------------------------------
(* A seed of two one-segment files and a client whose tasks list them in    *)
(* the opposite order, so that a GROUP_ASSIGN may answer from the wrong     *)
(* group, and the bytes behind be misread.                                  *)
EXTENDS Swarm, TLC

CONSTANTS c0, c1, a, b

MCNumSegments == (a :> 1) @@ (b :> 1)
MCTaskNo == (c0 :> ((a :> 1) @@ (b :> 2))) @@ (c1 :> ((a :> 2) @@ (b :> 1)))
MCWilling == (c0 :> {a, b}) @@ (c1 :> {b})
MCOwnedAtStart == (c0 :> {a, b}) @@ (c1 :> {})
(* Client 1 is not below the one segment the clearing loop runs to. *)
MCUninitSharers == (a :> {c1}) @@ (b :> {})
=============================================================================
