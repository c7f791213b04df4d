--------------------------- MODULE MCEntityStorage ----------------------------
(* Model checking of EntityStorage and of Views, the loops over a storage: *)
(* in each behaviour one of the two moves and the other one stays in an    *)
(* initial state.  Three entities; three identifiers of each, so that a    *)
(* version wraps around while two destroyed ones are remembered.           *)
EXTENDS EntityStorage

CONSTANTS Policies, Entities, MaxVisits, MaxSize

VARIABLES shape, lead, also, filter, it, seen, stayed, part

V == INSTANCE Views

viewVars == <<shape, lead, also, filter, it, seen, stayed>>

(* Where Views stays while the storage moves.                              *)
ViewsAtRest == shape = [get |-> 1, exclude |-> 0] /\ lead = EmptySet("in_place")

MCInit ==
  /\ Init /\ V!Init
  /\ part \in {"storage", "views"}
  /\ part = "storage" => ViewsAtRest

MCNext ==
  \/ part = "storage" /\ Next /\ UNCHANGED <<viewVars, part>>
  \/ part = "views" /\ V!Next /\ UNCHANGED <<vars, part>>

MCSpec == MCInit /\ [][MCNext]_<<vars, viewVars, part>>

ViewExact    == V!ViewExact
LoopExact    == V!LoopExact
BackIsMember == V!BackIsMember
===============================================================================
