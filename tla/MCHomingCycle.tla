--------------------------- MODULE MCHomingCycle ---------------------------
(* HomingCycle for TLC.  The homing tasks run the same code, so where there  *)
(* are several they may be exchanged.                                        *)
EXTENDS AxisInvariant, TLC

TaskSymmetry == Permutations(Tasks)
=============================================================================
