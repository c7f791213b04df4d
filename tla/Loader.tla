-------------------------------- MODULE Loader --------------------------------
(***************************************************************************)
(* The continuous loader (entity/snapshot.hpp), between a remote registry  *)
(* and a local one that the program also uses.  A snapshot is loaded at    *)
(* once: the ones in flight or lost are the loads that do not happen, and  *)
(* entities and elements are loaded each from a snapshot of its own time.  *)
(* One type of element; an archive names entities in order of number.      *)
(***************************************************************************)
EXTENDS SparseSetOps

CONSTANTS
  RemoteEntities,   (* entities of the remote registry                      *)
  MaxRemote,        (* bound of the model: the last remote version          *)
  MaxLocal,         (* bound of the model: entities the local registry knows*)
  MaxOwn            (* bound of the model: those the program made itself    *)

VARIABLES
  source,   (* remote registry: entity -> version, used, owns an element    *)
  dest,     (* local registry and loader: set of entities, holding (those   *)
            (* with an element) and remloc                                  *)
  own,      (* history: what the program made locally -> has it an element  *)
  synced    (* history: what was loaded since the last change of either     *)

vars == <<source, dest, own, synced>>

Remote(e) == [entity |-> e, version |-> source[e].version]

LiveIn(set) == {At(set, pos) : pos \in 0 .. set.head - 1}

(* Mutant: an identifier is valid if its entity is in use.                 *)
ValidByEntity(set, id) == \E live \in LiveIn(set) : live.entity = id.entity

(* registry.valid.                                                         *)
Valid(set, id) == id \in LiveIn(set)

(* create, in a registry that was given no hints: recycles the first       *)
(* identifier that waits, or takes the next number.                        *)
Created(set) ==
  TryEmplace(set, IF set.head < Size(set) THEN At(set, set.head)
                  ELSE Construct(Size(set), 0), TRUE)

(* destroy.                                                                *)
Destroyed(d, id) ==
  [d EXCEPT !.set = Erase(@, id), !.holding = @ \ {id}]

-------------------------------------------------------------------------------
(* The loader.                                                             *)

Tracks(d, remote) ==
  /\ remote.entity \in DOMAIN d.remloc
  /\ d.remloc[remote.entity].remote = remote

(* Mutant: a counterpart is kept although it was destroyed locally.        *)
RestoredStale(d, remote) ==
  IF Tracks(d, remote) THEN d
  ELSE LET made == Created(d.set)
           pair == [remote |-> remote, local |-> At(made, made.head - 1)]
       IN  [d EXCEPT !.set = made,
                     !.remloc = [e \in DOMAIN @ \cup {remote.entity} |->
                                   IF e = remote.entity THEN pair ELSE @[e]]]

(* restore: a counterpart that was never made, was made for another        *)
(* version or was destroyed locally, is made.                              *)
Restored(d, remote) ==
  IF Tracks(d, remote) /\ Valid(d.set, d.remloc[remote.entity].local) THEN d
  ELSE LET made == Created(d.set)
           pair == [remote |-> remote, local |-> At(made, made.head - 1)]
       IN  [d EXCEPT !.set = made,
                     !.remloc = [e \in DOMAIN @ \cup {remote.entity} |->
                                   IF e = remote.entity THEN pair ELSE @[e]]]

(* An identifier that is not in use: whatever its version, the counterpart *)
(* goes.                                                                   *)
Forgotten(d, e) ==
  IF e \notin DOMAIN d.remloc THEN d
  ELSE LET id == d.remloc[e].local
           d1 == IF Valid(d.set, id) THEN Destroyed(d, id) ELSE d
       IN  [d1 EXCEPT !.remloc = [k \in DOMAIN @ \ {e} |-> @[k]]]

SourceInUse == {e \in DOMAIN source : source[e].used}
Owners == {e \in SourceInUse : source[e].owns}

(* get, of the entities.                                                   *)
EntitiesLoaded ==
  LET kept == FoldLeft(LAMBDA d, e : Restored(d, Remote(e)), dest, SetToSeq(SourceInUse))
  IN  FoldLeft(Forgotten, kept, SetToSeq(DOMAIN source \ SourceInUse))

(* get, of a type of element: the counterparts lose theirs, then those the *)
(* archive names get one.                                                  *)
ElementsLoaded ==
  LET bare == [dest EXCEPT !.holding = @ \ {dest.remloc[e].local : e \in DOMAIN dest.remloc}]
      made == FoldLeft(LAMBDA d, e : Restored(d, Remote(e)), bare, SetToSeq(Owners))
  IN  [made EXCEPT !.holding = @ \cup {made.remloc[e].local : e \in Owners}]

(* orphans: walks the whole storage from the back; one that waits for use  *)
(* has no elements and skips a version.                                    *)
OrphansErased ==
  FoldRight(LAMBDA id, d : IF id \in d.holding THEN d ELSE Destroyed(d, id),
            dest.set.packed, dest)

-------------------------------------------------------------------------------
Init ==
  /\ source = [e \in {} |-> [version |-> 0, used |-> FALSE, owns |-> FALSE]]
  /\ dest = [set |-> EmptySet("swap_only"), holding |-> {}, remloc |-> [e \in {} |-> Null]]
  /\ own = [id \in {} |-> FALSE]
  /\ synced = {}

(* Bounds of the model: the local registry knows few entities, and no      *)
(* version of theirs comes back (that is what IdPool limits).              *)
Bounded(d) ==
  /\ Size(d.set) <= MaxLocal
  /\ \A id \in ToSet(dest.set.packed) : Current(d.set, id) >= id.version

(* Create, destroy, give or take an element, in the remote registry.       *)
RemoteStates ==
  [version : 0 .. MaxRemote, used : BOOLEAN, owns : BOOLEAN]

RemoteStep(e, to) ==
  /\ to.owns => to.used
  /\ IF e \notin DOMAIN source THEN to.version = 0 /\ to.used
     ELSE to.version = source[e].version + (IF source[e].used /\ ~ to.used THEN 1 ELSE 0)
  /\ source' = [k \in DOMAIN source \cup {e} |-> IF k = e THEN to ELSE source[k]]
  /\ source' # source
  /\ synced' = {}
  /\ UNCHANGED <<dest, own>>

(* The program creates an entity of its own.                               *)
CreateOwn ==
  LET set == Created(dest.set)
      id  == At(set, set.head - 1)
  IN  /\ Cardinality(DOMAIN own) < MaxOwn
      /\ Bounded([dest EXCEPT !.set = set])
      /\ dest' = [dest EXCEPT !.set = set]
      /\ own' = [k \in DOMAIN own \cup {id} |-> k # id /\ own[k]]
      /\ UNCHANGED <<source, synced>>

(* It destroys an entity, gives it an element or takes it: one of its own  *)
(* or a counterpart.                                                       *)
DestroyLocal(id) ==
  /\ Bounded(Destroyed(dest, id))
  /\ dest' = Destroyed(dest, id)
  /\ own' = [k \in DOMAIN own \ {id} |-> own[k]]
  /\ synced' = {}
  /\ UNCHANGED source

ToggleLocal(id) ==
  /\ dest' = [dest EXCEPT !.holding = IF id \in @ THEN @ \ {id} ELSE @ \cup {id}]
  /\ own' = [k \in DOMAIN own |-> IF k = id THEN ~ own[k] ELSE own[k]]
  /\ synced' = {}
  /\ UNCHANGED source

LoadEntities ==
  /\ Bounded(EntitiesLoaded)
  /\ dest' = EntitiesLoaded
  /\ synced' = synced \cup {"entities"}
  /\ UNCHANGED <<source, own>>

LoadElements ==
  /\ Bounded(ElementsLoaded)
  /\ dest' = ElementsLoaded
  /\ synced' = synced \cup {"elements"}
  /\ UNCHANGED <<source, own>>

Orphans ==
  /\ Bounded(OrphansErased)
  /\ dest' = OrphansErased
  /\ own' = [id \in {k \in DOMAIN own : own[k]} |-> TRUE]
  /\ synced' = synced \ {"entities"}
  /\ UNCHANGED source

Next ==
  \/ \E e \in RemoteEntities, to \in RemoteStates : RemoteStep(e, to)
  \/ CreateOwn
  \/ \E id \in LiveIn(dest.set) : DestroyLocal(id)
  \/ \E id \in LiveIn(dest.set) : ToggleLocal(id)
  \/ LoadEntities
  \/ LoadElements
  \/ Orphans

Spec == Init /\ [][Next]_vars

-------------------------------------------------------------------------------
(* Properties. *)

CounterpartsHolding ==
  {e \in DOMAIN dest.remloc : dest.remloc[e].local \in dest.holding}

(* What was loaded is what is there, whatever both sides did before: after *)
(* the entities, those in use and no others have a live counterpart; after *)
(* the elements, exactly the counterparts of the owners have one, the live *)
(* ones.  No two remote entities share a counterpart.                      *)
Mirrors ==
  /\ "entities" \in synced =>
       /\ DOMAIN dest.remloc = SourceInUse
       /\ \A e \in SourceInUse : /\ Tracks(dest, Remote(e))
                           /\ dest.remloc[e].local \in LiveIn(dest.set)
  /\ "elements" \in synced => CounterpartsHolding = Owners
  /\ dest.holding \subseteq LiveIn(dest.set)
  /\ \A d, e \in DOMAIN dest.remloc :
       dest.remloc[d].local = dest.remloc[e].local => d = e

(* The loader remembers counterparts the program destroyed, and their      *)
(* entities come back as the program's own: no load destroys, or strips, an*)
(* entity the loader did not make.                                         *)
OwnUntouched ==
  \A id \in DOMAIN own : id \in LiveIn(dest.set) /\ (own[id] <=> id \in dest.holding)
===============================================================================
