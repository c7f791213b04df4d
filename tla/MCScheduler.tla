----------------------------- MODULE MCScheduler ------------------------------
(* Model checking of Scheduler.                                            *)
EXTENDS Scheduler

CONSTANTS p1, p2, p3
===============================================================================
