------------------------------- MODULE MCLog -------------------------------
(* Instances of Log for TLC. *)
EXTENDS Log, TLC

CONSTANTS p1, p2, p3, s1, s2, s3, d0, d1

MCSymmetry == Permutations(Proc) \cup Permutations(Sector)
=============================================================================
