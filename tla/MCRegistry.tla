------------------------------ MODULE MCRegistry ------------------------------
(* Model checking of Registry with two pools, of Cascade, what listeners   *)
(* do to them in the middle of a destruction, and of Organizer, the order  *)
(* of three functions that work on them: in each behaviour one of the      *)
(* three moves and the others stay in their initial states.                *)
EXTENDS Registry, TLC

CONSTANTS
  a, b, whole,
  Tasks, Resources, Liberties, MaxCalls, Whole, MaxFunctions,
  Handles, PoolCount, MaxNesting

VARIABLES builder, calls, declared, alive, own, stack, told, part

O == INSTANCE Organizer
C == INSTANCE Cascade

flowVars    == <<builder, calls, declared>>
cascadeVars == <<alive, own, stack, told>>

Symmetry == Permutations(Types) \cup Permutations(Handles)

MCInit == Init /\ O!Init /\ C!Init /\ part \in {"registry", "organizer", "cascade"}

MCNext ==
  \/ part = "registry" /\ Next /\ UNCHANGED <<flowVars, cascadeVars, part>>
  \/ part = "organizer" /\ O!Next /\ UNCHANGED <<vars, cascadeVars, part>>
  \/ part = "cascade" /\ C!Next /\ UNCHANGED <<vars, flowVars, part>>

MCSpec == MCInit /\ [][MCNext]_<<vars, flowVars, cascadeVars, part>>

GraphExact       == O!GraphExact
FunctionsOrdered == O!FunctionsOrdered
CascadeExact     == C!CascadeExact
===============================================================================
