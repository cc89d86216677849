------------------------------ MODULE MCTracker ------------------------------
(* Two files, one client with a task for both and one with a task for the  *)
(* second: enough for groups to be created in either order and two at once. *)
EXTENDS Tracker, TLC

CONSTANTS c0, c1, a, b

MCNumSegments == (a :> 1) @@ (b :> 2)
MCTaskNo == (c0 :> ((a :> 2) @@ (b :> 1))) @@ (c1 :> ((a :> 1) @@ (b :> 0)))
MCWilling == [c \in {c0, c1} |-> {a, b}]
MCOwnedAtStart == (c0 :> {b}) @@ (c1 :> {})
=============================================================================
