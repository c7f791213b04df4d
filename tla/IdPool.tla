-------------------------------- MODULE IdPool --------------------------------
(***************************************************************************)
(* What a storage of entities promises: the identifiers it hands out name  *)
(* different entities, and an identifier that has been destroyed is not    *)
(* handed out again until its entity went through all its other versions.  *)
(* A caller that chooses an identifier, or a version, gives up the second  *)
(* promise for that entity.                                                *)
(***************************************************************************)
EXTENDS EntityTraits, Sequences, SequencesExt

VARIABLES
  live,     (* the identifiers in use                                       *)
  retired   (* entity -> its last destroyed identifiers, oldest first       *)

poolVars == <<live, retired>>

PoolEntities == 0 .. EntityMask - 1

(* No version comes back before this many others have been used.           *)
Memory == VersionMask - 1

Remember(ids, id) ==
  LET longer == Append(ids, id)
  IN  IF Len(longer) > Memory THEN Tail(longer) ELSE longer

NamesOf(ids) == {id.entity : id \in ids}

PoolInit ==
  /\ live = {}
  /\ retired = [e \in PoolEntities |-> << >>]

(* Identifiers the pool chooses.                                           *)
Create(ids) ==
  /\ ids \subseteq ValidIdentifiers
  /\ \A x, y \in ids : x.entity = y.entity => x = y
  /\ NamesOf(ids) \cap NamesOf(live) = {}
  /\ \A id \in ids : id \notin ToSet(retired[id.entity])
  /\ live' = live \cup ids
  /\ UNCHANGED retired

(* An identifier the caller chooses.                                       *)
Claim(id) ==
  /\ id.entity \notin NamesOf(live)
  /\ live' = live \cup {id}
  /\ retired' = [retired EXCEPT ![id.entity] = << >>]

Renew(old, new) ==
  /\ old \in live /\ new.entity = old.entity
  /\ live' = (live \ {old}) \cup {new}
  /\ retired' = [retired EXCEPT ![old.entity] = << >>]

(* The caller makes an entity skip a version.                              *)
Skip(e) ==
  /\ e \notin NamesOf(live)
  /\ retired' = [retired EXCEPT ![e] = << >>]
  /\ UNCHANGED live

Destroy(ids) ==
  /\ ids \subseteq live
  /\ live' = live \ ids
  /\ retired' = [e \in PoolEntities |->
                   FoldLeft(Remember, retired[e],
                            SetToSeq({id \in ids : id.entity = e}))]

(* Clearing the storage, or moving it away, forgets the versions too.      *)
Reset ==
  /\ live' = {}
  /\ retired' = [e \in PoolEntities |-> << >>]

PoolNext ==
  \/ \E ids \in SUBSET ValidIdentifiers : Create(ids)
  \/ \E id \in ValidIdentifiers : Claim(id)
  \/ \E old, new \in ValidIdentifiers : Renew(old, new)
  \/ \E ids \in SUBSET live : Destroy(ids)
  \/ \E e \in PoolEntities : Skip(e)
  \/ Reset

PoolSpec == PoolInit /\ [][PoolNext]_poolVars
===============================================================================
