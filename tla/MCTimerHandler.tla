--------------------------- MODULE MCTimerHandler ---------------------------
(* TimerHandler with a few timers, for TLC. *)
EXTENDS TimerHandler, TLC

(* Addresses are interchangeable. *)
TimerSymmetry == Permutations(Timers)
=============================================================================
