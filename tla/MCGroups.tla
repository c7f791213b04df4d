------------------------------- MODULE MCGroups -------------------------------
(* Model checking of Groups: one group owns a and b and excludes c, the    *)
(* other observes c and a and excludes b, so that every pool is asked for  *)
(* by one group and excluded, or only observed, by the other.  And of what *)
(* else follows the entities of a registry: Loader, with two remote ones,  *)
(* and Reactive.  In each behaviour one of the three moves and the others  *)
(* stay in an initial state.                                               *)
EXTENDS Groups, TLC

CONSTANTS
  e1, e2, e3, a, b, c,
  EntityMask, VersionMask, PageSize, RemoteEntities, MaxRemote, MaxLocal, MaxOwn,
  Setups, Known, MaxVersion

VARIABLES
  source, dest, own, synced,
  setup, live, recycled, held, observed, told,
  part

L == INSTANCE Loader
R == INSTANCE Reactive

loaderVars   == <<source, dest, own, synced>>
reactiveVars == <<setup, live, recycled, held, observed, told>>

PoolOrder     == <<a, b, c>>
OwnedPools    == <<a, b>>
ObservedPools == <<c, a>>

Symmetry == Permutations(Entities)

MCInit ==
  /\ Init /\ L!Init /\ R!Init
  /\ part \in {"groups", "loader", "reactive"}
  /\ part # "reactive" => setup = "apart"

MCNext ==
  \/ part = "groups" /\ Next /\ UNCHANGED <<loaderVars, reactiveVars, part>>
  \/ part = "loader" /\ L!Next /\ UNCHANGED <<vars, reactiveVars, part>>
  \/ part = "reactive" /\ R!Next /\ UNCHANGED <<vars, loaderVars, part>>

MCSpec == MCInit /\ [][MCNext]_<<vars, loaderVars, reactiveVars, part>>

Mirrors      == L!Mirrors
OwnUntouched == L!OwnUntouched
TrackedExact == R!TrackedExact
===============================================================================
