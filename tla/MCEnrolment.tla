---------------------------- MODULE MCEnrolment ----------------------------
(* Enrolment for TLC: no door is told from another by anything but its state, *)
(* so states that differ by a renaming of the doors are one.                  *)
EXTENDS Enrolment, TLC

DoorSymmetry == Permutations(Doors)
=============================================================================
