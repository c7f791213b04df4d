------------------------------ MODULE SparseSet -------------------------------
(***************************************************************************)
(* One basic_sparse_set and a caller that uses every operation of it that  *)
(* changes its state, with arguments the ENTT_ASSERTs of the code accept.  *)
(* content is what the documentation of the operations promises: the       *)
(* identifiers the caller has put in the set and has not taken out.        *)
(***************************************************************************)
EXTENDS SparseSetOps

CONSTANTS
  Policies,  (* the deletion policies a set may be given                    *)
  Entities,  (* bound of the model: the entities the caller uses            *)
  MaxSize,   (* bound of the model: longest packed array                    *)
  MaxRange   (* bound of the model: longest range given to an operation     *)

ASSUME PoliciesAssumption == Policies \subseteq Modes
ASSUME EntitiesAssumption == Entities \subseteq 0 .. EntityMask - 1
ASSUME MaxSizeAssumption == MaxSize \in Nat /\ MaxRange \in Nat

VARIABLES set, content

vars == <<set, content>>

Ids == {id \in ValidIdentifiers : id.entity \in Entities}

(* A range of identifiers of different entities.                           *)
Ranges ==
  {ids \in SeqOf(Ids, MaxRange) :
     \A m, n \in DOMAIN ids : m # n => ids[m].entity # ids[n].entity}

(* The caller owns the identifier, which with the swap-only policy is more *)
(* than the set containing it.                                             *)
Owned(id) == id \in InUse(set)

-------------------------------------------------------------------------------
Init ==
  /\ set \in {EmptySet(mode) : mode \in Policies}
  /\ content = {}

(* try_emplace with either value of force_back: push of one identifier, or *)
(* one turn of the loop in push of a range.                                *)
Emplace(id, forceBack) ==
  /\ CanEmplace(set, id)
  /\ Size(TryEmplace(set, id, forceBack)) <= MaxSize
  /\ set' = TryEmplace(set, id, forceBack)
  /\ content' = content \cup {id}

Push(id) == Emplace(id, FALSE)

PushMany(ids) ==
  /\ \A n \in DOMAIN ids : CanEmplace(set, ids[n])
  /\ Size(set) + Len(ids) <= MaxSize
  /\ set' = PushRange(set, ids)
  /\ content' = content \cup ToSet(ids)

EraseOne(id) ==
  /\ Owned(id)
  /\ set' = Erase(set, id)
  /\ content' = content \ {id}

(* A range of the set's own iterators, over elements in use.               *)
EraseRange(first, last) ==
  /\ last < first /\ first <= SortLength(set)
  /\ \A pos \in last .. first - 1 : Owned(At(set, pos))
  /\ set' = PopRange(set, first, last)
  /\ content' = content \ {At(set, pos) : pos \in last .. first - 1}

(* remove tolerates identifiers that are not in the set, stale ones too.   *)
RemoveMany(ids) ==
  /\ \A n \in DOMAIN ids : SetContains(set, ids[n]) => Owned(ids[n])
  /\ set' = RemoveRange(set, ids)
  /\ content' = content \ ToSet(ids)

BumpOne(id, version) ==
  /\ Owned(id)
  /\ set' = Bump(set, [id EXCEPT !.version = version])
  /\ content' = (content \ {id}) \cup {[id EXCEPT !.version = version]}

CompactAll ==
  /\ set' = Compact(set)
  /\ UNCHANGED content

Swap(lhs, rhs) ==
  /\ Owned(lhs) /\ Owned(rhs)
  /\ set' = SwapElements(set, lhs, rhs)
  /\ UNCHANGED content

Sort(length) ==
  /\ Contiguous(set)
  /\ length <= SortLength(set)
  /\ \E perm \in Bijection(1 .. length, 1 .. length) : set' = SortN(set, length, perm)
  /\ UNCHANGED content

SortLike(ids) ==
  /\ Contiguous(set)
  /\ \A n \in DOMAIN ids : SetContains(set, ids[n]) => Owned(ids[n])
  /\ set' = SortAs(set, ids)
  /\ UNCHANGED content

Clear ==
  /\ set' = PopAll(set)
  /\ content' = {}

(* free_list(value) moves the border between used and unused elements.     *)
FreeList(value) ==
  /\ set.mode = "swap_only" /\ value <= Size(set)
  /\ set' = [set EXCEPT !.head = value]
  /\ content' = {At(set, pos) : pos \in 0 .. value - 1}

Shrink ==
  /\ set' = ShrinkToFit(set)
  /\ UNCHANGED content

(* The elements, and the caller's claims on them, go to another set.       *)
MoveOut ==
  /\ set' = MovedFrom(set)
  /\ content' = {}

Next ==
  \/ \E id \in Ids : Push(id)
  \/ \E ids \in Ranges : PushMany(ids)
  \/ \E id \in Ids : EraseOne(id)
  \/ \E first, last \in 0 .. MaxSize : EraseRange(first, last)
  \/ \E ids \in Ranges : RemoveMany(ids)
  \/ \E id \in Ids, version \in 0 .. VersionMask - 1 : BumpOne(id, version)
  \/ CompactAll
  \/ \E lhs, rhs \in Ids : Swap(lhs, rhs)
  \/ \E length \in 0 .. MaxSize : Sort(length)
  \/ \E ids \in Ranges : SortLike(ids)
  \/ Clear
  \/ \E value \in 0 .. MaxSize : FreeList(value)
  \/ Shrink
  \/ MoveOut

Spec == Init /\ [][Next]_vars

-------------------------------------------------------------------------------
(* Properties. *)

(* The fields keep their shape, and the head of the free list means what   *)
(* the policy says: nothing, a hole or none, the number of elements in use.*)
TypeOK ==
  /\ content \subseteq Identifiers
  /\ set.mode \in Policies
  /\ set.head \in CASE set.mode = "swap_and_pop" -> {EntityMask}
                     [] set.mode = "in_place" -> Positions(set) \cup {EntityMask}
                     [] set.mode = "swap_only" -> 0 .. Size(set)
  /\ set.extent \in Nat
  /\ set.packed \in Seq(Identifiers)
  /\ \A e \in Allocated(set) : set.sparse[e] \in Identifiers

(* contains(entt) answers what the caller was promised, for every          *)
(* identifier, stale ones included: neither array is ahead of the other    *)
(* after an operation on elements, ranges or the whole set.                *)
Faithful ==
  /\ InUse(set) = content
  /\ \A id \in Ids :
       (SetContains(set, id) /\ (set.mode = "swap_only" => Index(set, id) < set.head))
         <=> id \in content

(* The two arrays are inverse to each other: index(packed[pos]) is pos,    *)
(* and a sparse element that is not null selects a packed element of the   *)
(* same entity and version.                                                *)
Bijective ==
  /\ \A pos \in Positions(set) :
       ~ IsTombstone(At(set, pos)) =>
         SetContains(set, At(set, pos)) /\ Index(set, At(set, pos)) = pos
  /\ \A e \in Allocated(set) :
       ~ IsNull(set.sparse[e]) =>
         /\ set.sparse[e].entity \in Positions(set)
         /\ At(set, set.sparse[e].entity) = [entity |-> e, version |-> set.sparse[e].version]

(* The positions of the free list, from its head on.                       *)
FreePositions ==
  LET walk[n \in Nat] ==
        IF n = 0 THEN << >>
        ELSE LET path == walk[n - 1]
                 pos  == IF path = << >> THEN set.head ELSE At(set, Last(path)).entity
             IN  IF pos = EntityMask \/ Len(path) < n - 1 THEN path ELSE Append(path, pos)
  IN  walk[Size(set) + 1]

(* In-place deletion threads the holes of the packed array on a list: the  *)
(* list visits every tombstone once, visits nothing else and ends, so a    *)
(* later insertion neither overwrites an element nor leaks a hole.         *)
FreeListExact ==
  set.mode = "in_place" =>
    LET free == FreePositions
    IN  /\ Len(free) <= Size(set)
        /\ IsInjective(free)
        /\ ToSet(free) = {pos \in Positions(set) : IsTombstone(At(set, pos))}

(* The vector of pages ends with an allocated one, and no page is lost or  *)
(* partly initialised: extent() is exactly what sparse_ptr may index.      *)
PagesWhole ==
  /\ Allocated(set) = UNION {PageItems(p) : p \in {PageOf(e) : e \in Allocated(set)}}
  /\ set.extent = Max({0} \cup {PageOf(e) + 1 : e \in Allocated(set)})

(* The two structures that only later operations read.                     *)
StructureWhole == FreeListExact /\ PagesWhole

(* The in-place policy is chosen for stable references: an operation that  *)
(* adds or removes elements, alone or in a range, leaves every element     *)
(* that stays in the set at its position.                                  *)
InPlaceStable ==
  [][set.mode = "in_place" /\ (content' # content) =>
       \A id \in content \cap content' : Index(set', id) = Index(set, id)]_vars
===============================================================================
