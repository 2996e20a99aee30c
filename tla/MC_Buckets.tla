------------------------------ MODULE MC_Buckets ------------------------------
(* Model-checking instance of Buckets: three finite bounds and NaN, lists  *)
(* of up to four bounds, and TimerBuckets of up to four Durations.        *)
EXTENDS Buckets, TLC

CONSTANTS nan

MC_Finite == 0..2

(* Durations of 4..7 units with a 2-bit mantissa: 4 and 6 are exact, 5     *)
(* rounds down to 4 and 7 up to 8 (ties to even).                          *)
MC_Durations == 4..7
=============================================================================
