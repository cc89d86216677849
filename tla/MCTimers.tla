------------------------------ MODULE MCTimers ------------------------------
(* Readings and timeouts in quarters of a second, so that a sum may be one  *)
(* second exactly, below it or above it.                                    *)
EXTENDS Timers

MCDelays == {0, 250, 500, 1250}
MCClock == {500000, 750000, 1250000}
=============================================================================
