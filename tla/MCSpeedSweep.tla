---------------------------- MODULE MCSpeedSweep ----------------------------
(* A sweep in which one pair of machines, in one direction, may fail or      *)
(* measure nothing.                                                          *)
EXTENDS SpeedSweep

MCFlaky == {[from |-> 3, to |-> 4]}

=============================================================================
