-------------------------------- MODULE MCFlow --------------------------------
(* Model checking of Flow on its own, for a program that binds tasks anew. *)
EXTENDS Flow

CONSTANT r1
===============================================================================
