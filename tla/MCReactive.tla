------------------------------ MODULE MCReactive ------------------------------
(* Reactive by itself, for the reactive storage that the registry made     *)
(* after the pool it observes.                                             *)
EXTENDS Reactive
===============================================================================
