----------------------------- MODULE MCEventLoop -----------------------------
(* The two rounds of a client and two messages.  The buffer has 16         *)
(* bytes in place of 512, and the sizes are to it what the real ones are:  *)
(* 8 fits, 16 fills it, 28 is cut and may take a client two rests inside   *)
(* the packet, and 36, more than two buffers, two that leave it.           *)
EXTENDS EventLoop, TLC

CONSTANTS interest, requests, message, reply, s0, s1

(* A configuration gives reqtimeout and pktdelay. *)
DelaysOf(reqtimeout, pktdelay) ==
  (interest :> reqtimeout) @@ (requests :> pktdelay) @@ (message :> pktdelay) @@ (reply :> pktdelay)

MCDelays == {DelaysOf(3, 1), DelaysOf(2, 0), DelaysOf(0, 1), DelaysOf(0, 0)}
=============================================================================
