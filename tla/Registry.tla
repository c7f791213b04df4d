-------------------------------- MODULE Registry -------------------------------
(***************************************************************************)
(* The registry (entity/registry.hpp): the storage of entities and the     *)
(* pools of elements.  EntityStorage is the former; a pool is the sequence *)
(* of its entities, which SparseSet shows a swap-and-pop sparse set is.    *)
(* Storages have no listeners here: Groups has them.                       *)
(***************************************************************************)
EXTENDS SparseSetOps

CONSTANTS
  Types,      (* the types of elements                                      *)
  Repeated,   (* whether a range given to destroy may repeat an entity      *)
  MaxBatch,   (* bound of the model: longest range                          *)
  MaxKnown    (* bound of the model: most entities the registry holds       *)

ASSUME RegistryAssumption ==
  Repeated \in BOOLEAN /\ MaxBatch \in Nat /\ MaxKnown \in Nat

VARIABLES
  entities,      (* the swap-only sparse set of the storage of entities     *)
  placeholder,   (* its next entity that was never generated                *)
  pools          (* type -> identifiers, in the order of the packed array   *)

vars == <<entities, placeholder, pools>>

E == INSTANCE EntityStorage WITH set <- entities, start <- 0, retired <- << >>

Live(s) == E!Live(s)

Valid(id) == id \in Live(entities)

(* Ranges of entities, from user code or from the iterators of a pool.     *)
Ranges ==
  {ids \in SeqOf(Live(entities), MaxBatch) : Repeated \/ IsInjective(ids)}

-------------------------------------------------------------------------------
(* Pools.                                                                  *)

Has(t, id) == id \in ToSet(pools[t])

(* erase of one identifier: the last one takes its place.                  *)
Without(seq, id) ==
  IF id \notin ToSet(seq) THEN seq
  ELSE Front([n \in DOMAIN seq |-> IF seq[n] = id THEN Last(seq) ELSE seq[n]])

WithoutAll(seq, ids) == FoldLeft(Without, seq, ids)

(* Mutant: the pool the iterators belong to keeps its turn.                *)
OwnerInTurn(order, owner) == order

(* erase and remove of several types over iterators of one of their pools: *)
(* the last pool takes the turn of that one, which comes last.             *)
OwnerLast(order, owner) ==
  IF owner \notin ToSet(order) THEN order
  ELSE Append(Front([n \in DOMAIN order |-> IF order[n] = owner THEN Last(order)
                                                                ELSE order[n]]),
              owner)

(* What the iterators over positions first down to last + 1 of a pool      *)
(* read, in order.                                                         *)
Read(seq, first, last) == Reverse(SubSeq(seq, last + 1, Min({first, Len(seq)})))

RemoveOver(order, owner, first, last) ==
  FoldLeft(LAMBDA ps, t : [ps EXCEPT ![t] = WithoutAll(@, Read(ps[owner], first, last))],
           pools, OwnerLast(order, owner))

-------------------------------------------------------------------------------
Init ==
  /\ entities = EmptySet("swap_only")
  /\ placeholder = 0
  /\ pools = [t \in Types |-> << >>]

Create(n) ==
  /\ \A k \in 0 .. n - 1 : E!CanGenerate(E!GenerateRun(k))
  /\ Size(E!GenerateRun(n).set) <= MaxKnown
  /\ entities' = E!GenerateRun(n).set
  /\ placeholder' = E!GenerateRun(n).placeholder
  /\ UNCHANGED pools

(* A hint that is not free makes this Create(1).                           *)
CreateHint(hint) ==
  /\ E!HintIsFree(entities, hint)
  /\ Size(TryEmplace(entities, hint, TRUE)) <= MaxKnown
  /\ entities' = TryEmplace(entities, hint, TRUE)
  /\ UNCHANGED <<placeholder, pools>>

(* Mutant: the entity leaves, its elements stay.                           *)
DestroyBare(id) ==
  /\ Valid(id)
  /\ entities' = Erase(entities, id)
  /\ UNCHANGED <<placeholder, pools>>

Destroy(id) ==
  /\ Valid(id)
  /\ pools' = [t \in Types |-> Without(pools[t], id)]
  /\ entities' = Erase(entities, id)
  /\ UNCHANGED placeholder

(* Mutant: the version asked for is taken as it is.                        *)
DestroyVersionAny(id, version) ==
  /\ Valid(id)
  /\ pools' = [t \in Types |-> Without(pools[t], id)]
  /\ entities' = Bump(Erase(entities, id), Construct(id.entity, version))
  /\ UNCHANGED placeholder

(* The entity will come back with the version asked for, or the next one   *)
(* if that is the tombstone.                                               *)
DestroyVersion(id, version) ==
  LET asked == Construct(id.entity, version)
      next  == IF IsTombstone(asked) THEN NextVersion(asked) ELSE asked
  IN  /\ Valid(id)
      /\ pools' = [t \in Types |-> Without(pools[t], id)]
      /\ entities' = Bump(Erase(entities, id), next)
      /\ UNCHANGED placeholder

(* Mutant: what lies in front of the range goes too.                       *)
DestroyedMore(ids) ==
  LET from   == entities.head
      sorted == SortAsRun(entities, ids)
      to     == IF sorted.it = 0 THEN 0 ELSE sorted.it - 1
      range  == Read(sorted.set.packed, from, to)
  IN  [entities |-> PopRange(sorted.set, from, to),
       pools    |-> [t \in Types |-> WithoutAll(pools[t], range)]]

(* destroy of a range moves it behind the other entities in use; pools and *)
(* entities are then erased over the iterators from there to the last one. *)
Destroyed(ids) ==
  LET from   == entities.head
      sorted == SortAsRun(entities, ids)
      range  == Read(sorted.set.packed, from, sorted.it)
  IN  [entities |-> PopRange(sorted.set, from, sorted.it),
       pools    |-> [t \in Types |-> WithoutAll(pools[t], range)]]

DestroyRange(ids) ==
  /\ LET d == Destroyed(ids)
     IN  entities' = d.entities /\ pools' = d.pools
  /\ UNCHANGED placeholder

(* clear: all pools, then the range of the entities in use.                *)
Clear ==
  /\ pools' = [t \in Types |-> << >>]
  /\ entities' = PopRange(entities, entities.head, 0)
  /\ UNCHANGED placeholder

ClearType(t) ==
  /\ pools' = [pools EXCEPT ![t] = << >>]
  /\ UNCHANGED <<entities, placeholder>>

(* emplace and insert of one type; the other ways to assign come to these. *)
Insert(t, ids) ==
  /\ IsInjective(ids)
  /\ \A n \in DOMAIN ids : ~ Has(t, ids[n])
  /\ pools' = [pools EXCEPT ![t] = @ \o ids]
  /\ UNCHANGED <<entities, placeholder>>

(* remove and erase of a type from entities of a range; several types are  *)
(* several such steps.                                                     *)
RemoveType(t, ids) ==
  /\ pools' = [pools EXCEPT ![t] = WithoutAll(@, ids)]
  /\ UNCHANGED <<entities, placeholder>>

(* The same of several types at once, over iterators of a pool.            *)
RemoveRangeOf(order, owner, first, last) ==
  /\ last < first /\ first <= Len(pools[owner])
  /\ pools' = RemoveOver(order, owner, first, last)
  /\ UNCHANGED <<entities, placeholder>>

Orders == {order \in SeqOf(Types, Cardinality(Types)) : order # << >> /\ IsInjective(order)}

Next ==
  \/ \E n \in 1 .. MaxBatch : Create(n)
  \/ \E hint \in ValidIdentifiers : CreateHint(hint)
  \/ \E id \in Live(entities) : Destroy(id)
  \/ \E id \in Live(entities), version \in 0 .. VersionMask : DestroyVersion(id, version)
  \/ \E ids \in Ranges : DestroyRange(ids)
  \/ Clear
  \/ \E t \in Types : ClearType(t)
  \/ \E t \in Types, ids \in Ranges : Insert(t, ids)
  \/ \E t \in Types, ids \in Ranges : RemoveType(t, ids)
  \/ \E order \in Orders, owner \in Types, first, last \in 0 .. MaxKnown :
       RemoveRangeOf(order, owner, first, last)

Spec == Init /\ [][Next]_vars

-------------------------------------------------------------------------------
(* Properties. *)

Owners == [t \in Types |-> ToSet(pools[t])]

W == INSTANCE World WITH live <- Live(entities), owners <- Owners

(* Whatever way entities are created, recycled, destroyed or cleared, no   *)
(* element outlives its entity and none waits for an entity that comes     *)
(* back with the version of an old handle: the registry implements World.  *)
ImplementsWorld == W!WorldSpec

(* Whatever versions the program asks for as it destroys, hints at or      *)
(* recycles, no entity is stranded: each that was generated is in use or   *)
(* waits to be recycled, once, and the storage finds it where it is.       *)
NoneStranded ==
  LET at == [pos \in Positions(entities) |-> At(entities, pos)]
  IN  /\ 0 .. placeholder - 1 \subseteq {at[pos].entity : pos \in DOMAIN at}
      /\ \A pos \in DOMAIN at :
           /\ ~ IsTombstone(at[pos]) /\ SetContains(entities, at[pos])
           /\ Index(entities, at[pos]) = pos

(* destroy of a range ("Destroys all entities in a range and releases      *)
(* their identifiers"), which permutes the storage of entities to do it,   *)
(* destroys those entities and no others.                                  *)
DestroysExactly ==
  \A ids \in Ranges :
    Live(Destroyed(ids).entities) = Live(entities) \ ToSet(ids)

(* erase and remove over the iterators of a pool, which their own work     *)
(* invalidates, take each type asked for, and no other, from exactly the   *)
(* entities of the range.                                                  *)
RemovesExactly ==
  \A order \in Orders, owner \in Types :
    \A first \in DOMAIN pools[owner] : \A last \in 0 .. first - 1 :
      LET left  == RemoveOver(order, owner, first, last)
          taken == {pools[owner][n] : n \in last + 1 .. first}
      IN  \A t \in Types :
            ToSet(left[t]) = IF t \in ToSet(order) THEN Owners[t] \ taken ELSE Owners[t]
===============================================================================
