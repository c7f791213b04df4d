-------------------------------- MODULE Storage -------------------------------
(***************************************************************************)
(* The storage of the elements of one type (entity/storage.hpp): a sparse  *)
(* set and, next to its packed array, the payload, raw memory in which     *)
(* elements are constructed and destroyed by hand.  An element is named by *)
(* the identifier it was constructed for, wherever it is moved later.      *)
(*                                                                         *)
(* Constructors and destructors of elements are user code that may use the *)
(* storage again; calls holds those in progress, the innermost last.       *)
(***************************************************************************)
EXTENDS SparseSetOps

CONSTANTS
  Policies,     (* component_traits::in_place_delete as deletion policies   *)
  PayloadPage,  (* component_traits::page_size                              *)
  NestedThrow,  (* whether a constructor may throw after it has emplaced    *)
  Entities,     (* bound of the model: the entities the caller uses         *)
  MaxSize,      (* bound of the model: longest packed array                 *)
  MaxDepth      (* bound of the model: most calls in progress               *)

ASSUME StoragePoliciesAssumption == Policies \subseteq {"swap_and_pop", "in_place"}
ASSUME PayloadPageAssumption == PayloadPage \in Nat \ {0}
ASSUME StorageBoundsAssumption ==
  /\ Entities \subseteq 0 .. EntityMask - 1
  /\ MaxSize \in 0 .. EntityMask /\ MaxDepth \in Nat /\ NestedThrow \in BOOLEAN

VARIABLES
  set,       (* the sparse set the storage derives from                     *)
  payload,   (* allocated position -> its element, or Raw                   *)
  calls      (* constructors and destructors in progress                    *)

vars == <<set, payload, calls>>

(* Memory without an element.                                              *)
Raw == Null

Ids == {id \in ValidIdentifiers : id.entity \in Entities}

Call(kind, id, pos) == [kind |-> kind, id |-> id, pos |-> pos]

Top      == Last(calls)
Returned == Front(calls)
Calling(kind) == \E k \in DOMAIN calls : calls[k].kind = kind

(* Identifiers whose element is complete.                                  *)
Complete ==
  Elements(set) \ {calls[k].id : k \in {n \in DOMAIN calls : calls[n].kind = "constructor"}}

-------------------------------------------------------------------------------
(* The payload.                                                            *)

Grown(p, capacity) ==
  [pos \in 0 .. capacity - 1 |-> IF pos \in DOMAIN p THEN p[pos] ELSE Raw]

(* assure_at_least allocates whole pages up to the one of pos.             *)
Assured(p, pos) ==
  IF pos \in DOMAIN p THEN p ELSE Grown(p, (pos \div PayloadPage + 1) * PayloadPage)

MoveTo(p, from, to) == [p EXCEPT ![to] = p[from], ![from] = Raw]

Exchange(p, lhs, rhs) == [p EXCEPT ![lhs] = p[rhs], ![rhs] = p[lhs]]

(* swap_or_move, which compact calls to fill a tombstone.                  *)
SwapOrMove(s, p, from, to) ==
  IF s.mode = "in_place" /\ IsTombstone(At(s, to))
  THEN MoveTo(p, from, to) ELSE Exchange(p, from, to)

(* The calls sort_n and compact make, in order.                            *)
Reordered(s, p, moves) ==
  FoldLeft(LAMBDA q, m : SwapOrMove(s, q, m[1], m[2]), p, moves)

(* Mutant: what is moved is still there too.                               *)
ReplacedTwice(p, pos, last) == [p EXCEPT ![pos] = p[last]]

(* pop of a swap-and-pop storage: the last element replaces the removed    *)
(* one, which lives on in a local variable.                                *)
Replaced(p, pos, last) == [[p EXCEPT ![pos] = p[last]] EXCEPT ![last] = Raw]

-------------------------------------------------------------------------------
(* One turn of pop with a destructor that does not use the storage.        *)
PopOne(st, id) ==
  LET pos == Index(st.set, id)
  IN  [set     |-> Erase(st.set, id),
       payload |-> IF st.set.mode = "in_place"
                   THEN [st.payload EXCEPT ![pos] = Raw]
                   ELSE Replaced(st.payload, pos, Size(st.set) - 1)]

(* erase of a range of iterators, from position first - 1 down to last.    *)
PopMany(st, first, last) ==
  FoldLeft(LAMBDA t, k : PopOne(t, At(t.set, first - k)), st,
           [k \in 1 .. first - last |-> k])

(* pop_all: every element but the tombstones, from the back.               *)
PopEach(st) ==
  LET n == Size(st.set)
  IN  FoldLeft(LAMBDA t, k : LET id == At(st.set, n - k)
                             IN  IF IsTombstone(id) THEN t ELSE PopOne(t, id),
               st, [k \in 1 .. n |-> k])

-------------------------------------------------------------------------------
Init ==
  /\ set \in {EmptySet(mode) : mode \in Policies}
  /\ payload = [pos \in {} |-> Raw]
  /\ calls = << >>

(* emplace and push, and insert with forceBack: the identifier enters the  *)
(* set before the constructor runs.  The destructor of an in-place element *)
(* does not emplace: its own memory is the first hole of the free list.    *)
Emplace(id, forceBack) ==
  /\ Len(calls) < MaxDepth
  /\ set.mode = "in_place" => ~ Calling("destructor")
  /\ CanEmplace(set, id)
  /\ Size(TryEmplace(set, id, forceBack)) <= MaxSize
  /\ set' = TryEmplace(set, id, forceBack)
  /\ payload' = Assured(payload, Index(set', id))
  /\ calls' = Append(calls, Call("constructor", id, Index(set', id)))

ConstructorReturns ==
  /\ calls # << >> /\ Top.kind = "constructor"
  /\ payload' = [payload EXCEPT ![Top.pos] = Top.id]
  /\ calls' = Returned
  /\ UNCHANGED set

(* Mutant: the identifier stays in the set.                                *)
ConstructorThrowsKeep ==
  /\ calls # << >> /\ Top.kind = "constructor"
  /\ calls' = Returned
  /\ UNCHANGED <<set, payload>>

(* The handler takes the identifier out of the sparse set only.            *)
ConstructorThrows ==
  /\ calls # << >> /\ Top.kind = "constructor"
  /\ NestedThrow \/ set.mode = "in_place" \/ Top.pos = Size(set) - 1
  /\ set' = Erase(set, At(set, Top.pos))
  /\ calls' = Returned
  /\ UNCHANGED payload

(* erase, remove.  A constructor of a swap-and-pop storage does not erase: *)
(* it would move the memory it is working on.                              *)
EraseOne(id) ==
  /\ Len(calls) < MaxDepth
  /\ set.mode = "swap_and_pop" => ~ Calling("constructor")
  /\ id \in Complete
  /\ set' = Erase(set, id)
  /\ payload' = IF set.mode = "in_place" THEN payload
                ELSE Replaced(payload, Index(set, id), Size(set) - 1)
  /\ calls' = Append(calls, Call("destructor", id, Index(set, id)))

DestructorReturns ==
  /\ calls # << >> /\ Top.kind = "destructor"
  /\ payload' = IF set.mode = "in_place" THEN [payload EXCEPT ![Top.pos] = Raw] ELSE payload
  /\ calls' = Returned
  /\ UNCHANGED set

(* The remaining operations, with constructors and destructors that leave  *)
(* the storage alone: the loops hold iterators.                            *)
EraseRange(first, last) ==
  /\ calls = << >>
  /\ last < first /\ first <= Size(set)
  /\ \A pos \in last .. first - 1 : ~ IsTombstone(At(set, pos))
  /\ LET st == PopMany([set |-> set, payload |-> payload], first, last)
     IN  set' = st.set /\ payload' = st.payload
  /\ UNCHANGED calls

Clear ==
  /\ calls = << >>
  /\ LET st == PopEach([set |-> set, payload |-> payload])
     IN  /\ set' = [st.set EXCEPT !.head = PolicyToHead(set.mode), !.packed = << >>]
         /\ payload' = st.payload
  /\ UNCHANGED calls

CompactAll ==
  /\ calls = << >>
  /\ set.mode = "in_place"
  /\ set' = Compact(set)
  /\ payload' = Reordered(set, payload, CompactRun(set).moves)
  /\ UNCHANGED calls

Swap(lhs, rhs) ==
  /\ calls = << >>
  /\ lhs \in Complete /\ rhs \in Complete
  /\ set' = SwapElements(set, lhs, rhs)
  /\ payload' = SwapOrMove(set, payload, Index(set, lhs), Index(set, rhs))
  /\ UNCHANGED calls

Sort ==
  /\ calls = << >>
  /\ Contiguous(set)
  /\ \E perm \in Permutations(1 .. Size(set)) :
       /\ set' = SortN(set, Size(set), perm)
       /\ payload' = Reordered(set, payload, SortRun(set, Size(set), perm).moves)
  /\ UNCHANGED calls

(* shrink_to_size keeps the pages of the first size positions.             *)
Shrunk(size) == ((size + PayloadPage - 1) \div PayloadPage) * PayloadPage

(* Mutant: shrinking removes the tombstones as well.                       *)
ShrinkAllCompacts ==
  /\ calls = << >>
  /\ set' = ShrinkToFit(Compact(set))
  /\ LET moved == Reordered(set, payload, CompactRun(set).moves)
     IN  payload' = [pos \in DOMAIN payload \cap 0 .. Shrunk(Size(set')) - 1 |-> moved[pos]]
  /\ UNCHANGED calls

ShrinkAll ==
  /\ calls = << >>
  /\ set' = ShrinkToFit(set)
  /\ LET kept == DOMAIN payload \cap 0 .. Shrunk(Size(set)) - 1
     IN  payload' = [pos \in kept |-> payload[pos]]
  /\ UNCHANGED calls

Reserve(capacity) ==
  /\ calls = << >>
  /\ payload' = Assured(payload, capacity - 1)
  /\ UNCHANGED <<set, calls>>

Reordering == CompactAll \/ Sort \/ \E lhs, rhs \in Ids : Swap(lhs, rhs)

Next ==
  \/ \E id \in Ids, forceBack \in BOOLEAN : Emplace(id, forceBack)
  \/ \E id \in Ids : EraseOne(id)
  \/ ConstructorReturns \/ ConstructorThrows \/ DestructorReturns
  \/ \E first, last \in 0 .. MaxSize : EraseRange(first, last)
  \/ Clear
  \/ Reordering
  \/ ShrinkAll
  \/ \E capacity \in 1 .. MaxSize : Reserve(capacity)

Spec == Init /\ [][Next]_vars

-------------------------------------------------------------------------------
(* Properties. *)

TypeOK ==
  /\ DOMAIN payload = 0 .. Cardinality(DOMAIN payload) - 1
  /\ Cardinality(DOMAIN payload) % PayloadPage = 0
  /\ \A pos \in DOMAIN payload : payload[pos] \in Ids \cup {Raw}
  /\ \A k \in DOMAIN calls : calls[k].pos \in DOMAIN payload

(* get of an identifier in the storage finds the element constructed for   *)
(* it, complete and in allocated memory, after any mix of removals,        *)
(* compaction, sorting, swaps, shrinking, failed constructors and          *)
(* constructors and destructors that use the storage.                      *)
ElementsAlive ==
  \A id \in Complete :
    /\ Index(set, id) \in DOMAIN payload
    /\ payload[Index(set, id)] = id

(* Memory the set does not account for holds no element: nothing leaks and *)
(* no constructor runs over a living element, and the memory is whole      *)
(* pages.                                                                  *)
NothingLeaks ==
  /\ TypeOK
  /\ \A pos \in DOMAIN payload :
       payload[pos] # Raw =>
         \/ payload[pos] \in Complete /\ Index(set, payload[pos]) = pos
         \/ \E k \in DOMAIN calls : calls[k] = Call("destructor", payload[pos], pos)

(* Elements of an in-place storage stay where they are until they are      *)
(* destroyed: only compact, sort and swap move them.                       *)
PointersStable ==
  [][set.mode = "in_place" =>
       \/ Reordering
       \/ \A pos \in DOMAIN payload \cap DOMAIN payload' :
            payload[pos] \in {payload'[n] : n \in DOMAIN payload'} \ {Raw}
              => payload'[pos] = payload[pos]]_vars
===============================================================================
