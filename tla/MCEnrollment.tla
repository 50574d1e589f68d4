---------------------------- MODULE MCEnrollment ----------------------------
(* Phones, numbers and a schedule for Enrollment.                          *)
EXTENDS Enrollment

CONSTANTS p1, p2, n1, n2, s1

PhonesAlike == Permutations({p1, p2})
=============================================================================
