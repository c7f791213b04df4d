----------------------------- MODULE MCSparseSet ------------------------------
(* Model checking of SparseSet: four entities on three pages of two and    *)
(* two valid versions, so that versions wrap around.                       *)
EXTENDS SparseSet
===============================================================================
