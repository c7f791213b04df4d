----------------------------- MODULE SparseSetOps -----------------------------
(***************************************************************************)
(* The sparse set of entity/sparse_set.hpp as a value: a record with the   *)
(* two arrays, the deletion policy and the head of the free list.          *)
(*                                                                         *)
(*   sparse   entity -> <<position, version>>, as an identifier; defined   *)
(*            only on the entities whose page is allocated                 *)
(*   extent   sparse.size(), the number of page slots                      *)
(*   packed   the identifiers, in insertion order; positions start at 0    *)
(*   mode     the deletion policy                                          *)
(*   head     "in_place": first free position, EntityMask for none;        *)
(*            "swap_only": number of elements in use;                      *)
(*            "swap_and_pop": always EntityMask                            *)
(*                                                                         *)
(* Every operator is a member function of basic_sparse_set; its ENTT_ASSERT*)
(* preconditions are guards of the actions that use it.                    *)
(***************************************************************************)
EXTENDS EntityTraits, Sequences, SequencesExt

CONSTANT PageSize       (* entt_traits::page_size, ENTT_SPARSE_PAGE *)

ASSUME PageSizeAssumption == PageSize \in Nat \ {0}

Modes == {"swap_and_pop", "in_place", "swap_only"}

PolicyToHead(mode) == IF mode = "swap_only" THEN 0 ELSE EntityMask

NoPages == [e \in {} |-> Null]

EmptySet(mode) ==
  [sparse |-> NoPages, extent |-> 0, packed |-> << >>,
   mode |-> mode, head |-> PolicyToHead(mode)]

-------------------------------------------------------------------------------
(* Reading.                                                                *)

Size(s)      == Len(s.packed)
At(s, pos)   == s.packed[pos + 1]
Positions(s) == 0 .. Size(s) - 1
Back(s)      == At(s, Size(s) - 1)

PageOf(entity)   == entity \div PageSize
PageItems(page)  == page * PageSize .. (page + 1) * PageSize - 1
Allocated(s)     == DOMAIN s.sparse

(* sparse_ref: the element of the sparse array an identifier selects.      *)
Elem(s, id) == s.sparse[id.entity]

(* contains: the versions are the same and the stored position is not the  *)
(* null entity part; the packed array is not read.                         *)
SetContains(s, id) ==
  /\ id.entity \in Allocated(s)
  /\ Elem(s, id).version = id.version
  /\ Elem(s, id).entity < EntityMask

Index(s, id) == Elem(s, id).entity

Current(s, id) ==
  IF id.entity \in Allocated(s) THEN Elem(s, id).version ELSE VersionMask

Contiguous(s) == s.mode = "in_place" => s.head = EntityMask

(* The elements that iteration and contains agree on: the packed array     *)
(* without its tombstones.                                                 *)
Elements(s) == {id \in ToSet(s.packed) : ~ IsTombstone(id)}

(* The elements in use: with the swap-only policy, those before the head.  *)
InUse(s) ==
  IF s.mode = "swap_only" THEN {At(s, pos) : pos \in 0 .. s.head - 1}
                          ELSE Elements(s)

-------------------------------------------------------------------------------
(* Helpers that write.                                                     *)

SetPacked(s, pos, id)   == [s EXCEPT !.packed[pos + 1] = id]
SetSparse(s, id, elem)  == [s EXCEPT !.sparse[id.entity] = elem]

AssureAtLeast(s, id) ==
  IF id.entity \in Allocated(s) THEN s
  ELSE LET page  == PageOf(id.entity)
           items == PageItems(page)
       IN  [s EXCEPT
              !.extent = IF page < @ THEN @ ELSE page + 1,
              !.sparse = [e \in Allocated(s) \cup items |->
                            IF e \in Allocated(s) THEN s.sparse[e] ELSE Null]]

SwapAt(s, lhs, rhs) ==
  LET from == At(s, lhs)
      to   == At(s, rhs)
      s1   == SetSparse(s, from, Combine(rhs, from))
      s2   == SetSparse(s1, to, Combine(lhs, to))
  IN  SetPacked(SetPacked(s2, lhs, to), rhs, from)

PushBack(s, id) ==
  LET s1 == [s EXCEPT !.packed = Append(@, id)]
  IN  SetSparse(s1, id, Combine(Size(s1) - 1, id))

Bump(s, id) ==
  LET elem == Combine(Elem(s, id).entity, id)
  IN  SetPacked(SetSparse(s, id, elem), elem.entity, id)

-------------------------------------------------------------------------------
(* try_emplace, by deletion policy.                                        *)

EmplaceInPlace(s, id) ==
  LET s1 == SetSparse(s, id, Combine(s.head, id))
  IN  [SetPacked(s1, s.head, id) EXCEPT !.head = At(s, s.head).entity]

EmplaceSwapOnly(s, id) ==
  LET s1 == IF IsNull(Elem(s, id)) THEN PushBack(s, id) ELSE Bump(s, id)
  IN  SwapAt([s1 EXCEPT !.head = @ + 1], Elem(s1, id).entity, s1.head)

TryEmplace(s, id, forceBack) ==
  LET s0 == AssureAtLeast(s, id)
  IN  CASE s.mode = "swap_only" -> EmplaceSwapOnly(s0, id)
        [] s.mode = "in_place" /\ s.head # EntityMask /\ ~ forceBack
             -> EmplaceInPlace(s0, id)
        [] OTHER -> PushBack(s0, id)

(* The assertions of try_emplace.                                          *)
CanEmplace(s, id) ==
  /\ ~ IsNull(id) /\ ~ IsTombstone(id)
  /\ id.entity \in Allocated(s) =>
       \/ IsNull(Elem(s, id))
       \/ s.mode = "swap_only" /\ Elem(s, id).entity >= s.head

PushRange(s, ids) ==
  FoldLeft(LAMBDA t, id : TryEmplace(t, id, TRUE), s, ids)

-------------------------------------------------------------------------------
(* Removal, by deletion policy.                                            *)

(* Mutant: the element that leaves keeps its version.                      *)
SwapOnlySameVersion(s, id) ==
  LET pos  == Index(s, id)
      head == IF pos < s.head THEN s.head - 1 ELSE s.head
  IN  SwapAt([s EXCEPT !.head = head], pos, head)

SwapOnly(s, id) ==
  LET pos  == Index(s, id)
      head == IF pos < s.head THEN s.head - 1 ELSE s.head
  IN  SwapAt([Bump(s, NextVersion(id)) EXCEPT !.head = head], pos, head)

(* Mutant: the removed element stays reachable.                            *)
SwapAndPopReachable(s, id) ==
  LET pos == Elem(s, id).entity
      s1  == SetSparse(s, Back(s), Combine(pos, Back(s)))
  IN  [SetPacked(s1, pos, Back(s1)) EXCEPT !.packed = Front(@)]

SwapAndPop(s, id) ==
  LET pos == Elem(s, id).entity
      s1  == SetSparse(s, Back(s), Combine(pos, Back(s)))
      s2  == SetSparse(SetPacked(s1, pos, Back(s)), id, Null)
  IN  [s2 EXCEPT !.packed = Front(@)]

(* Mutant: the free list is cut at the new hole.                           *)
InPlacePopCut(s, id) ==
  LET pos == Elem(s, id).entity
  IN  [SetPacked(SetSparse(s, id, Null), pos, Null) EXCEPT !.head = pos]

InPlacePop(s, id) ==
  LET pos == Elem(s, id).entity
  IN  [SetPacked(SetSparse(s, id, Null), pos, Combine(s.head, Null))
         EXCEPT !.head = pos]

(* Mutant: the in-place policy fills the hole with the last element.       *)
EraseAlwaysSwap(s, id) == IF s.mode = "swap_only" THEN SwapOnly(s, id) ELSE SwapAndPop(s, id)

(* One iteration of pop, and erase of one element.                         *)
Erase(s, id) ==
  CASE s.mode = "swap_and_pop" -> SwapAndPop(s, id)
    [] s.mode = "in_place"     -> InPlacePop(s, id)
    [] s.mode = "swap_only"    -> SwapOnly(s, id)

SetRemove(s, id) == IF SetContains(s, id) THEN Erase(s, id) ELSE s

(* remove(first, last) over a range that is not made of set iterators.     *)
RemoveRange(s, ids) == FoldLeft(SetRemove, s, ids)

(* erase(first, last) over a range of the set's own iterators: they go     *)
(* from position first - 1 down to position last and dereference the       *)
(* packed array as it is when they get there.                              *)
PopRange(s, first, last) ==
  FoldLeft(LAMBDA t, k : Erase(t, At(t, first - k)), s,
           [k \in 1 .. first - last |-> k])

(* Mutant: the free list survives the elements.                            *)
PopAllKeepHead(s) ==
  [s EXCEPT !.sparse = [e \in Allocated(s) |-> Null], !.packed = << >>]

PopAll(s) ==
  [s EXCEPT !.sparse = [e \in Allocated(s) |-> IF Size(s) = 0 THEN s.sparse[e]
                                               ELSE Null],
            !.head   = PolicyToHead(s.mode),
            !.packed = << >>]

-------------------------------------------------------------------------------
(* Reordering.  compact and sort_n also report the calls they make to      *)
(* swap_or_move, in order, as pairs of positions: a derived class moves    *)
(* its own elements there.                                                 *)

(* One past the last element before position from that is in use.          *)
LastInUse(s, from) == Max({0} \cup {n \in 1 .. from : ~ IsTombstone(At(s, n - 1))})

(* Mutant: the element moved into a hole keeps its old position.           *)
CompactStepStale(c) ==
  LET to   == c.pos
      next == At(c.set, to).entity
      from == c.from - 1
      s1   == SetPacked(c.set, to, At(c.set, from))
  IN  CASE to = EntityMask -> c
        [] to # EntityMask /\ to >= c.from -> [c EXCEPT !.pos = next]
        [] OTHER -> [set |-> s1, pos |-> next, from |-> LastInUse(s1, from),
                     moves |-> Append(c.moves, <<from, to>>)]

(* One turn of the loop over the free list.                                *)
CompactStep(c) ==
  LET to   == c.pos
      next == At(c.set, to).entity
      from == c.from - 1
      id   == At(c.set, from)
      s1   == SetSparse(SetPacked(c.set, to, id), id, Combine(to, id))
  IN  CASE to = EntityMask -> c
        [] to # EntityMask /\ to >= c.from -> [c EXCEPT !.pos = next]
        [] OTHER -> [set |-> s1, pos |-> next, from |-> LastInUse(s1, from),
                     moves |-> Append(c.moves, <<from, to>>)]

CompactRun(s) ==
  FoldLeft(LAMBDA c, k : CompactStep(c),
           [set |-> [s EXCEPT !.head = EntityMask], pos |-> s.head,
            from |-> LastInUse(s, Size(s)), moves |-> << >>],
           s.packed)

Compact(s) ==
  IF s.mode # "in_place" THEN s
  ELSE LET done == CompactRun(s)
       IN  [done.set EXCEPT !.packed = SubSeq(@, 1, done.from)]

SwapElements(s, lhs, rhs) == SwapAt(s, Index(s, lhs), Index(s, rhs))

(* The inner loop of sort_n follows one cycle of the permutation.          *)
SortStep(c) ==
  LET idx == Index(c.set, At(c.set, c.next))
      id  == At(c.set, c.curr)
  IN  IF c.curr = c.next THEN c
      ELSE [set |-> SetSparse(c.set, id, Combine(c.curr, id)),
            curr |-> c.next, next |-> idx, moves |-> Append(c.moves, <<c.next, idx>>)]

SortCycle(c, pos, length) ==
  FoldLeft(LAMBDA d, k : SortStep(d),
           [c EXCEPT !.curr = pos, !.next = Index(c.set, At(c.set, pos))],
           [k \in 1 .. length |-> k])

(* sort_n: the algorithm permutes the packed array as the comparison asks, *)
(* the loop then repairs the sparse array.                                 *)
SortRun(s, length, perm) ==
  LET sorted == [s EXCEPT !.packed =
                   [n \in 1 .. Size(s) |-> IF n <= length THEN @[perm[n]] ELSE @[n]]]
  IN  FoldLeft(LAMBDA c, n : SortCycle(c, n - 1, length),
               [set |-> sorted, curr |-> 0, next |-> 0, moves |-> << >>],
               [n \in 1 .. length |-> n])

SortN(s, length, perm) == SortRun(s, length, perm).set

SortLength(s) == IF s.mode = "swap_only" THEN s.head ELSE Size(s)

(* sort_as: the elements the range shares with the set go, in the order of *)
(* the range, to the positions an iteration visits first.                  *)
SortAsStep(c, id) ==
  IF c.it = 0 \/ ~ SetContains(c.set, id) THEN c
  ELSE LET entt == At(c.set, c.it - 1)
       IN  [set |-> IF entt = id THEN c.set ELSE SwapElements(c.set, entt, id),
            it  |-> c.it - 1]

SortAsRun(s, ids) == FoldLeft(SortAsStep, [set |-> s, it |-> SortLength(s)], ids)

SortAs(s, ids) == SortAsRun(s, ids).set

-------------------------------------------------------------------------------
(* shrink_to_fit: the pages that no element in use selects are released.   *)
ShrinkToFit(s) ==
  LET kept == {PageOf(id.entity) : id \in Elements(s)}
  IN  [s EXCEPT !.extent = Max({0} \cup {page + 1 : page \in kept}),
                !.sparse = [e \in {x \in Allocated(s) : PageOf(x) \in kept}
                              |-> s.sparse[e]]]

-------------------------------------------------------------------------------
(* The move constructor leaves an empty set of the same policy behind; the *)
(* new set is the old value.                                               *)
MovedFrom(s) == EmptySet(s.mode)
===============================================================================
