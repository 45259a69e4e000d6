----------------------------- MODULE MCNodeSlots -----------------------------
(* Instances of NodeSlots for TLC.                                          *)
EXTENDS NodeSlots, TLC

MCSymmetry == Permutations(Nodes) \cup Permutations(Suffixes) \cup Permutations(ShortIds)
              \cup Permutations(Sessions)
=============================================================================
