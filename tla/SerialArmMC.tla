----------------------------- MODULE SerialArmMC -----------------------------
(* Instances of SerialArm.                                                  *)
EXTENDS SerialArm

CONSTANTS c1, c2

=============================================================================
