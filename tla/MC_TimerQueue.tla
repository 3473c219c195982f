--------------------------- MODULE MC_TimerQueue ---------------------------
(* Model-checking instance of TimerQueue.  Two addresses for three timers  *)
(* force address reuse; delays 0..1 give equal expirations and timers due  *)
(* in the past; interval 1 gives a repeating timer.                        *)
EXTENDS TimerQueue

CONSTANTS NoTimerV
=============================================================================
