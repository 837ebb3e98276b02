------------------------- MODULE MCSingularMatrices -------------------------
EXTENDS SingularMatrices

(***************************************************************************)
(* Integers on both sides of the limits of an int.                         *)
(***************************************************************************)
MCListInts == {-5, -4, 3, 4}
MCSetInts == {-4, 3, 4, 12}
=============================================================================
