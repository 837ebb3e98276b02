------------------------- MODULE MCSingularWrappers -------------------------
(* Instances of SingularWrappers for TLC.                                   *)
EXTENDS SingularWrappers, TLC

(* Rings and bags are interchangeable: only safety runs use this.           *)
Symmetry == Permutations(Rings) \cup Permutations(Bags)
=============================================================================
