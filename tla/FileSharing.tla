----------------------------- MODULE FileSharing -----------------------------
(***************************************************************************)
(* What FreeBits promises, without tracker, datagrams or timers: a client  *)
(* gets a file one segment at a time from others that have all of it, has  *)
(* the file once it holds every segment, and keeps what it holds.          *)
(***************************************************************************)
EXTENDS Naturals

CONSTANTS Clients, Files, NumSegments, OwnedAtStart

VARIABLES
  holds,     \* segments of each file that a client holds
  complete,  \* files that a client has and may give to others
  gone       \* clients that have stopped

vars == <<holds, complete, gone>>

Init ==
  /\ complete = OwnedAtStart
  /\ holds \in [Clients -> [Files -> SUBSET Nat]]
  /\ \A c \in Clients : \A f \in Files :
       holds[c][f] \in {{}, IF f \in OwnedAtStart[c] THEN 0 .. NumSegments[f] - 1 ELSE {}}
  /\ gone \in SUBSET Clients

(* A segment that client c holds already may arrive again: a stutter.      *)
(* The sender had the whole file, and may be gone by now.                  *)
Acquire(c, f, s) ==
  /\ c \notin gone
  /\ f \notin complete[c]
  /\ s \in 0 .. NumSegments[f] - 1
  /\ \E d \in Clients \ {c} : f \in complete[d]
  /\ holds' = [holds EXCEPT ![c][f] = @ \cup {s}]
  /\ UNCHANGED <<complete, gone>>

(* Several files may be found complete in one round. *)
Finish(c) ==
  \E S \in SUBSET (Files \ complete[c]) :
    /\ c \notin gone
    /\ \A f \in S : holds[c][f] = 0 .. NumSegments[f] - 1
    /\ complete' = [complete EXCEPT ![c] = @ \cup S]
    /\ UNCHANGED <<holds, gone>>

Leave(c) ==
  /\ c \notin gone
  /\ gone' = gone \cup {c}
  /\ UNCHANGED <<holds, complete>>

Next ==
  \E c \in Clients :
    \/ \E f \in Files : \E s \in 0 .. NumSegments[f] - 1 : Acquire(c, f, s)
    \/ Finish(c)
    \/ Leave(c)

Spec == Init /\ [][Next]_vars
=============================================================================
