------------------------------- MODULE MCStorage ------------------------------
(* Model checking of Storage and of DenseMap, the container in which the   *)
(* registry keeps its storages: in each behaviour one of the two moves and *)
(* the other one stays in an initial state.                                *)
EXTENDS Storage, TLC

CONSTANTS Keys, Values, MinimumCapacity, Factors, DefaultFactor, one, two

VARIABLES table, answer, part

M == INSTANCE DenseMap

mapVars == <<table, answer>>

(* Three quarters, so that the quotient is a whole number, and one half.   *)
ThreeQuarters == <<3, 4>>
LoadFactors   == {<<3, 4>>, <<1, 2>>}

Symmetry == Permutations(Values)

MCInit ==
  /\ Init /\ M!Init
  /\ part \in {"storage", "map"}
  /\ part = "map" => set.mode = "swap_and_pop"

MCNext ==
  \/ part = "storage" /\ Next /\ UNCHANGED <<mapVars, part>>
  \/ part = "map" /\ M!Next /\ UNCHANGED <<vars, part>>

MCSpec == MCInit /\ [][MCNext]_<<vars, mapVars, part>>

ChainsWhole   == M!ChainsWhole
ErasesExactly == M!ErasesExactly
ImplementsMap == M!ImplementsMap
===============================================================================
