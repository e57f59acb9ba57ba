------------------------------- MODULE MCBio -------------------------------
(* Instances of Bio for TLC. *)
EXTENDS Bio, TLC

CONSTANTS p1, p2, p3, b1, b2, b3, s1, s2, s3, d0, d1

MCSymmetry ==
  Permutations(Proc) \cup Permutations(Buf) \cup Permutations(Sector) \cup Permutations(Data)
=============================================================================
