------------------------------ MODULE MCTraffic ------------------------------
(* Instances of Traffic for TLC.                                            *)
EXTENDS Traffic, TLC

MCSymmetry == Permutations(Subs) \cup Permutations(Jobs)
=============================================================================
