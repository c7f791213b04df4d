---------------------------- MODULE SparseSetFacts -----------------------------
(***************************************************************************)
(* What the operations of basic_sparse_set on one element do, as lemmas    *)
(* about SparseSetOps that every specification over a sparse set can use.  *)
(*                                                                         *)
(* The lemmas come in three layers.  ...Facts: what an operator writes.    *)
(* ...Sound: that it preserves Sound, the invariant on the two arrays and  *)
(* the free list.  ...Use: what it does to the elements in use.            *)
(***************************************************************************)
EXTENDS SparseSetOps, SequenceFacts

-------------------------------------------------------------------------------
(* The operators that write one element.                                   *)

(* Masking with the entity mask leaves an entity part as it is.            *)
LEMMA MaskIdentity == ASSUME NEW x \in 0 .. EntityMask PROVE x % (EntityMask + 1) = x
BY EntityMaskAssumption, SMT

(* combine() keeps a position or an entity that fits the entity part, and  *)
(* the version of its second argument.                                     *)
LEMMA CombineFits ==
  ASSUME NEW pos \in 0 .. EntityMask, NEW id \in Identifiers
  PROVE Combine(pos, id) = [entity |-> pos, version |-> id.version] /\ Combine(pos, id) \in Identifiers
BY MaskIdentity DEF Combine, Identifiers, EntityParts, VersionParts

(* The sets whose sparse array is allocated on the entities in D.          *)
SetsOver(D) ==
  [sparse : [D -> Identifiers], extent : Nat, packed : Seq(Identifiers), mode : Modes, head : Nat]

(* t is s with x in the sparse element of entity e.                        *)
SparseWritten(D, s, e, x, t) ==
  /\ t \in SetsOver(D)
  /\ t.packed = s.packed /\ t.mode = s.mode /\ t.head = s.head
  /\ Size(t) = Size(s) /\ Positions(t) = Positions(s) /\ \A p : At(t, p) = At(s, p)
  /\ \A d \in D : t.sparse[d] = IF d = e THEN x ELSE s.sparse[d]

(* t is s with x at position pos of the packed array.                      *)
PackedWritten(D, s, pos, x, t) ==
  /\ t \in SetsOver(D)
  /\ t.sparse = s.sparse /\ t.mode = s.mode /\ t.head = s.head
  /\ Size(t) = Size(s) /\ Positions(t) = Positions(s)
  /\ \A p \in Positions(s) : At(t, p) = IF p = pos THEN x ELSE At(s, p)

(* A write through sparse_ref changes one element of the sparse array.     *)
LEMMA SetSparseFacts ==
  ASSUME NEW D, NEW s \in SetsOver(D), NEW id, id.entity \in D, NEW x \in Identifiers,
         NEW t, t = SetSparse(s, id, x)
  PROVE  SparseWritten(D, s, id.entity, x, t)
<1>1. /\ t \in SetsOver(D)
      /\ t.packed = s.packed /\ t.mode = s.mode /\ t.head = s.head
      /\ \A d \in D : t.sparse[d] = IF d = id.entity THEN x ELSE s.sparse[d]
  BY DEF SetSparse, SetsOver
<1> QED BY <1>1 DEF SparseWritten, Size, Positions, At

(* A write to the packed array changes one position of it.                 *)
LEMMA SetPackedFacts ==
  ASSUME NEW D, NEW s \in SetsOver(D), NEW pos \in Positions(s), NEW x \in Identifiers,
         NEW t, t = SetPacked(s, pos, x)
  PROVE  PackedWritten(D, s, pos, x, t)
<1>1. pos + 1 \in 1 .. Len(s.packed) 
  BY DEF SetsOver, Positions, Size
<1> DEFINE p2 == [s.packed EXCEPT ![pos + 1] = x]
<1>2. s.packed \in Seq(Identifiers)
  BY DEF SetsOver
<1>3. p2 \in Seq(Identifiers) /\ Len(p2) = Len(s.packed)
      /\ \A n \in 1 .. Len(s.packed) : p2[n] = IF n = pos + 1 THEN x ELSE s.packed[n]
  BY <1>1, <1>2
<1>4. t = [s EXCEPT !.packed = p2]
  BY DEF SetPacked
<1> HIDE DEF p2
<1>5. /\ t \in SetsOver(D) /\ t.packed = p2
      /\ t.sparse = s.sparse /\ t.mode = s.mode /\ t.head = s.head /\ t.extent = s.extent
  BY <1>3, <1>4 DEF SetsOver
<1> QED BY <1>1, <1>3, <1>5 DEF PackedWritten, Positions, Size, At

(* An entity lies on the page its number selects.                          *)
LEMMA OnItsPage == ASSUME NEW e \in Nat PROVE e \in PageItems(PageOf(e)) /\ PageOf(e) \in Nat
BY PageSizeAssumption, SMT DEF PageItems, PageOf

(* null is an identifier.                                                  *)
LEMMA NullType == Null \in Identifiers
BY EntityMaskAssumption, VersionMaskAssumption DEF Null, Identifiers, EntityParts, VersionParts

(* The entities with an allocated page are those the sparse array is       *)
(* defined on.                                                             *)
LEMMA AllocatedIs == ASSUME NEW D, NEW s \in SetsOver(D) PROVE Allocated(s) = D
BY DEF SetsOver, Allocated

(* assure_at_least allocates the page of the entity, filled with null, and *)
(* keeps every element of the sparse array.                                *)
LEMMA AssureFacts ==
  ASSUME NEW D, NEW s \in SetsOver(D), NEW id \in Identifiers, NEW t, t = AssureAtLeast(s, id)
  PROVE  /\ t \in SetsOver(Allocated(t))
         /\ D \subseteq Allocated(t)
         /\ id.entity \in Allocated(t)
         /\ t.packed = s.packed /\ t.mode = s.mode /\ t.head = s.head
         /\ \A d \in Allocated(t) : t.sparse[d] = IF d \in D THEN s.sparse[d] ELSE Null
<1> DEFINE E == D \cup PageItems(PageOf(id.entity))
<1>0. id.entity \in Nat
  BY EntityMaskAssumption DEF Identifiers, EntityParts
<1>1. id.entity \in E /\ PageOf(id.entity) \in Nat
  BY <1>0, OnItsPage
<1>2. CASE id.entity \in D
  BY <1>1, <1>2 DEF AssureAtLeast, SetsOver, Allocated
<1>3. CASE id.entity \notin D
  <2> DEFINE f == [e \in E |-> IF e \in D THEN s.sparse[e] ELSE Null]
             n == IF PageOf(id.entity) < s.extent THEN s.extent ELSE PageOf(id.entity) + 1
  <2>1. D = Allocated(s)
    BY AllocatedIs
  <2>2. t = [s EXCEPT !.extent = n, !.sparse = f]
    BY <1>3, <2>1 DEF AssureAtLeast
  <2>3. f \in [E -> Identifiers]
    BY NullType DEF SetsOver
  <2>4. n \in Nat
    BY <1>1 DEF SetsOver
  <2>5. t \in SetsOver(E) /\ t.packed = s.packed /\ t.mode = s.mode /\ t.head = s.head /\ t.sparse = f
    <3> HIDE DEF f, n, E
    <3> QED BY <2>2, <2>3, <2>4 DEF SetsOver
  <2>6. Allocated(t) = E
    <3> HIDE DEF E, f, n
    <3> QED BY <2>5, AllocatedIs
  <2> QED BY <1>1, <2>5, <1>3, <2>6
<1> QED BY <1>2, <1>3

(* Every position holds an identifier.                                     *)
LEMMA AtType == 
  ASSUME NEW D, NEW s \in SetsOver(D), NEW pos \in Positions(s)
  PROVE At(s, pos) \in Identifiers
BY DEF SetsOver, Positions, At, Size

(* What is read from the packed array depends on nothing else.             *)
LEMMA SamePacked ==
  ASSUME NEW s, NEW t, t.packed = s.packed
  PROVE  Size(t) = Size(s) /\ Positions(t) = Positions(s) /\ \A pos : At(t, pos) = At(s, pos)
BY DEF Size, Positions, At

-------------------------------------------------------------------------------
(* What the operations write.                                              *)

(* Assigning head changes nothing else.                                    *)
LEMMA HeadFacts ==
  ASSUME NEW D, NEW s \in SetsOver(D), NEW h \in Nat, NEW t, t = [s EXCEPT !.head = h]
  PROVE  /\ t \in SetsOver(D) /\ t.mode = s.mode /\ t.head = h
         /\ t.packed = s.packed /\ t.sparse = s.sparse
         /\ Size(t) = Size(s) /\ Positions(t) = Positions(s)
         /\ \A p : At(t, p) = At(s, p)
BY DEF SetsOver, Size, Positions, At

(* swap_at exchanges two positions and sends each of the two entities to   *)
(* the other position.                                                     *)
LEMMA SwapAtFacts ==
  ASSUME NEW D, NEW s \in SetsOver(D),
         NEW lhs \in Positions(s), NEW rhs \in Positions(s),
         lhs \in 0 .. EntityMask, rhs \in 0 .. EntityMask,
         NEW from, NEW to, from = At(s, lhs), to = At(s, rhs),
         from.entity \in D, to.entity \in D,
         NEW t, t = SwapAt(s, lhs, rhs)
  PROVE  /\ t \in SetsOver(D) /\ t.mode = s.mode /\ t.head = s.head
         /\ Size(t) = Size(s) /\ Positions(t) = Positions(s)
         /\ \A p \in Positions(s) :
              At(t, p) = IF p = rhs THEN from ELSE IF p = lhs THEN to ELSE At(s, p)
         /\ \A d \in D :
              t.sparse[d] = IF d = to.entity THEN [entity |-> lhs, version |-> to.version]
                            ELSE IF d = from.entity THEN [entity |-> rhs, version |-> from.version]
                            ELSE s.sparse[d]
<1>1. from \in Identifiers /\ to \in Identifiers
  BY AtType
<1>2. PICK x : x = Combine(rhs, from)  OBVIOUS
<1>3. PICK y : y = Combine(lhs, to)  OBVIOUS
<1>4. x = [entity |-> rhs, version |-> from.version] /\ x \in Identifiers
  BY <1>1, <1>2, CombineFits
<1>5. y = [entity |-> lhs, version |-> to.version] /\ y \in Identifiers
  BY <1>1, <1>3, CombineFits
<1>6. PICK s1 : s1 = SetSparse(s, from, x)  OBVIOUS
<1>7. PICK s2 : s2 = SetSparse(s1, to, y)  OBVIOUS
<1>8. PICK s3 : s3 = SetPacked(s2, lhs, to)  OBVIOUS
<1>9. t = SetPacked(s3, rhs, from)
  BY <1>2, <1>3, <1>6, <1>7, <1>8 DEF SwapAt
<1>10. SparseWritten(D, s, from.entity, x, s1)
  BY <1>4, <1>6, SetSparseFacts
<1>11. SparseWritten(D, s1, to.entity, y, s2)
  BY <1>5, <1>7, <1>10, SetSparseFacts DEF SparseWritten
<1>12. PackedWritten(D, s2, lhs, to, s3)
  BY <1>1, <1>8, <1>10, <1>11, SetPackedFacts DEF SparseWritten
<1>13. PackedWritten(D, s3, rhs, from, t)
  <2>1. s3 \in SetsOver(D) /\ rhs \in Positions(s3)
    BY <1>10, <1>11, <1>12 DEF SparseWritten, PackedWritten
  <2> QED BY <1>1, <1>9, <2>1, SetPackedFacts
<1> QED BY <1>4, <1>5, <1>10, <1>11, <1>12, <1>13 DEF SparseWritten, PackedWritten

(* Appending an element sends its entity to the last position.             *)
LEMMA PushBackFacts ==
  ASSUME NEW D, NEW s \in SetsOver(D), NEW id \in Identifiers, id.entity \in D,
         Size(s) \in 0 .. EntityMask,
         NEW t, t = PushBack(s, id)
  PROVE  /\ t \in SetsOver(D) /\ t.mode = s.mode /\ t.head = s.head
         /\ Size(t) = Size(s) + 1 /\ Positions(t) = 0 .. Size(s)
         /\ \A p \in Positions(s) : At(t, p) = At(s, p)
         /\ At(t, Size(s)) = id
         /\ \A d \in D :
              t.sparse[d] = IF d = id.entity THEN [entity |-> Size(s), version |-> id.version]
                            ELSE s.sparse[d]
<1>1. PICK q : q = Append(s.packed, id)  OBVIOUS
<1>2. s.packed \in Seq(Identifiers) /\ Size(s) = Len(s.packed)
  BY DEF SetsOver, Size
<1>3. /\ q \in Seq(Identifiers) /\ Len(q) = Len(s.packed) + 1
      /\ \A n \in 1 .. Len(s.packed) : q[n] = s.packed[n]
      /\ q[Len(s.packed) + 1] = id
  BY <1>1, <1>2
<1>4. PICK s1 : s1 = [s EXCEPT !.packed = q]  OBVIOUS
<1>5. /\ s1 \in SetsOver(D) /\ s1.packed = q /\ s1.sparse = s.sparse
      /\ s1.mode = s.mode /\ s1.head = s.head
  BY <1>3, <1>4 DEF SetsOver
<1>6. Size(s1) = Size(s) + 1
  BY <1>2, <1>3, <1>5 DEF Size
<1>7. PICK x : x = Combine(Size(s1) - 1, id)  OBVIOUS
<1>8. Size(s1) - 1 = Size(s)
  BY <1>2, <1>6
<1>9. x = [entity |-> Size(s), version |-> id.version] /\ x \in Identifiers
  BY <1>7, <1>8, CombineFits
<1>10. t = SetSparse(s1, id, x)
  BY <1>1, <1>4, <1>7 DEF PushBack
<1>11. SparseWritten(D, s1, id.entity, x, t)
  BY <1>5, <1>9, <1>10, SetSparseFacts
<1>12. Positions(t) = 0 .. Size(s) /\ Size(t) = Size(s) + 1
  BY <1>2, <1>6, <1>11 DEF SparseWritten, Positions
<1>13. \A p : At(t, p) = q[p + 1]
  BY <1>5, <1>11 DEF SparseWritten, At
<1>14. At(t, Size(s)) = id
  BY <1>2, <1>3, <1>13
<1>15. \A p \in Positions(s) : p + 1 \in 1 .. Len(s.packed) /\ At(s, p) = s.packed[p + 1]
  BY <1>2 DEF Positions, At
<1>16. \A p \in Positions(s) : At(t, p) = At(s, p)
  BY <1>3, <1>13, <1>15
<1> QED BY <1>5, <1>9, <1>11, <1>12, <1>14, <1>16 DEF SparseWritten

(* bump rewrites the version of one element in both arrays.                *)
LEMMA BumpFacts ==
  ASSUME NEW D, NEW s \in SetsOver(D), NEW id \in Identifiers, id.entity \in D,
         NEW pos \in Positions(s), pos \in 0 .. EntityMask, pos = s.sparse[id.entity].entity,
         NEW t, t = Bump(s, id)
  PROVE  /\ t \in SetsOver(D) /\ t.mode = s.mode /\ t.head = s.head
         /\ Size(t) = Size(s) /\ Positions(t) = Positions(s)
         /\ \A p \in Positions(s) : At(t, p) = IF p = pos THEN id ELSE At(s, p)
         /\ \A d \in D :
              t.sparse[d] = IF d = id.entity THEN [entity |-> pos, version |-> id.version]
                            ELSE s.sparse[d]
<1>1. PICK x : x = Combine(pos, id)  OBVIOUS
<1>2. x = [entity |-> pos, version |-> id.version] /\ x \in Identifiers
  BY <1>1, CombineFits
<1>3. x.entity = pos
  BY <1>2
<1>4. PICK s1 : s1 = SetSparse(s, id, x)  OBVIOUS
<1>5. t = SetPacked(s1, pos, id)
  BY <1>1, <1>3, <1>4 DEF Bump, Elem
<1>6. SparseWritten(D, s, id.entity, x, s1)
  BY <1>2, <1>4, SetSparseFacts
<1>7. PackedWritten(D, s1, pos, id, t)
  BY <1>5, <1>6, SetPackedFacts DEF SparseWritten
<1> QED BY <1>2, <1>6, <1>7 DEF SparseWritten, PackedWritten

(* in_place_pop leaves a tombstone that points at the old head and makes   *)
(* its position the head.                                                  *)
LEMMA InPlacePopFacts ==
  ASSUME NEW D, NEW s \in SetsOver(D), NEW id \in Identifiers, id.entity \in D,
         NEW pos \in Positions(s), pos = s.sparse[id.entity].entity, s.head \in 0 .. EntityMask,
         NEW t, t = InPlacePop(s, id)
  PROVE  /\ t \in SetsOver(D) /\ t.mode = s.mode /\ t.head = pos
         /\ Size(t) = Size(s) /\ Positions(t) = Positions(s)
         /\ \A p \in Positions(s) :
              At(t, p) = IF p = pos THEN [entity |-> s.head, version |-> VersionMask] ELSE At(s, p)
         /\ \A d \in D : t.sparse[d] = IF d = id.entity THEN Null ELSE s.sparse[d]
<1>1. PICK x : x = Combine(s.head, Null)  OBVIOUS
<1>2. x = [entity |-> s.head, version |-> VersionMask] /\ x \in Identifiers
  BY <1>1, NullType, CombineFits DEF Null
<1>3. PICK s1 : s1 = SetSparse(s, id, Null)  OBVIOUS
<1>4. PICK s2 : s2 = SetPacked(s1, pos, x)  OBVIOUS
<1>5. t = [s2 EXCEPT !.head = pos]
  BY <1>1, <1>3, <1>4 DEF InPlacePop, Elem
<1>6. SparseWritten(D, s, id.entity, Null, s1)
  BY <1>3, NullType, SetSparseFacts
<1>7. PackedWritten(D, s1, pos, x, s2)
  BY <1>2, <1>4, <1>6, SetPackedFacts DEF SparseWritten
<1>8. s2 \in SetsOver(D) /\ pos \in Nat
  BY <1>7 DEF PackedWritten, Positions
<1>9. /\ t \in SetsOver(D) /\ t.mode = s2.mode /\ t.head = pos /\ t.sparse = s2.sparse
      /\ Size(t) = Size(s2) /\ Positions(t) = Positions(s2) /\ \A p : At(t, p) = At(s2, p)
  BY <1>5, <1>8, HeadFacts
<1> QED BY <1>2, <1>6, <1>7, <1>9 DEF SparseWritten, PackedWritten

(* Emplacing in a hole takes the head off the free list.                   *)
LEMMA EmplaceInPlaceFacts ==
  ASSUME NEW D, NEW s \in SetsOver(D), NEW id \in Identifiers, id.entity \in D,
         s.head \in Positions(s), s.head \in 0 .. EntityMask,
         NEW t, t = EmplaceInPlace(s, id)
  PROVE  /\ t \in SetsOver(D) /\ t.mode = s.mode /\ t.head = At(s, s.head).entity
         /\ Size(t) = Size(s) /\ Positions(t) = Positions(s)
         /\ \A p \in Positions(s) : At(t, p) = IF p = s.head THEN id ELSE At(s, p)
         /\ \A d \in D :
              t.sparse[d] = IF d = id.entity THEN [entity |-> s.head, version |-> id.version]
                            ELSE s.sparse[d]
<1>1. PICK x : x = Combine(s.head, id)  OBVIOUS
<1>2. x = [entity |-> s.head, version |-> id.version] /\ x \in Identifiers
  BY <1>1, CombineFits
<1>3. PICK h : h = At(s, s.head).entity  OBVIOUS
<1>4. h \in Nat
  BY <1>3, AtType, EntityMaskAssumption DEF Identifiers, EntityParts
<1>5. PICK s1 : s1 = SetSparse(s, id, x)  OBVIOUS
<1>6. PICK s2 : s2 = SetPacked(s1, s.head, id)  OBVIOUS
<1>7. t = [s2 EXCEPT !.head = h]
  BY <1>1, <1>3, <1>5, <1>6 DEF EmplaceInPlace
<1>8. SparseWritten(D, s, id.entity, x, s1)
  BY <1>2, <1>5, SetSparseFacts
<1>9. PackedWritten(D, s1, s.head, id, s2)
  BY <1>6, <1>8, SetPackedFacts DEF SparseWritten
<1>10. s2 \in SetsOver(D)
  BY <1>9 DEF PackedWritten
<1>11. /\ t \in SetsOver(D) /\ t.mode = s2.mode /\ t.head = h /\ t.sparse = s2.sparse
       /\ Size(t) = Size(s2) /\ Positions(t) = Positions(s2) /\ \A p : At(t, p) = At(s2, p)
  BY <1>4, <1>7, <1>10, HeadFacts
<1> QED BY <1>2, <1>3, <1>8, <1>9, <1>11 DEF SparseWritten, PackedWritten

(* swap_and_pop moves the last element to the position of the one that     *)
(* leaves.                                                                 *)
LEMMA SwapAndPopFacts ==
  ASSUME NEW D, NEW s \in SetsOver(D), NEW id \in Identifiers, id.entity \in D,
         NEW pos \in Positions(s), pos \in 0 .. EntityMask, pos = s.sparse[id.entity].entity,
         NEW back, back = At(s, Size(s) - 1), back.entity \in D,
         NEW t, t = SwapAndPop(s, id)
  PROVE  /\ t \in SetsOver(D) /\ t.mode = s.mode /\ t.head = s.head
         /\ Size(t) = Size(s) - 1 /\ Positions(t) = 0 .. Size(s) - 2
         /\ \A p \in Positions(t) : At(t, p) = IF p = pos THEN back ELSE At(s, p)
         /\ \A d \in D :
              t.sparse[d] = IF d = id.entity THEN Null
                            ELSE IF d = back.entity THEN [entity |-> pos, version |-> back.version]
                            ELSE s.sparse[d]
<1>1. s.packed \in Seq(Identifiers) /\ Size(s) = Len(s.packed) /\ Size(s) \in Nat \ {0}
  BY DEF SetsOver, Size, Positions
<1>2. back \in Identifiers
  BY <1>1, AtType DEF Positions
<1>3. PICK x : x = Combine(pos, back)  OBVIOUS
<1>4. x = [entity |-> pos, version |-> back.version] /\ x \in Identifiers
  BY <1>2, <1>3, CombineFits
<1>5. PICK s1 : s1 = SetSparse(s, back, x)  OBVIOUS
<1>6. PICK s2 : s2 = SetPacked(s1, pos, back)  OBVIOUS
<1>7. PICK s3 : s3 = SetSparse(s2, id, Null)  OBVIOUS
<1>8. PICK f : f = Front(s3.packed)  OBVIOUS
<1>9. SparseWritten(D, s, back.entity, x, s1)
  BY <1>4, <1>5, SetSparseFacts
<1>10. Back(s1) = back
  BY <1>9 DEF SparseWritten, Back
<1>11. t = [s3 EXCEPT !.packed = f]
  BY <1>3, <1>5, <1>6, <1>7, <1>8, <1>10 DEF SwapAndPop, Elem, Back
<1>12. PackedWritten(D, s1, pos, back, s2)
  BY <1>2, <1>6, <1>9, SetPackedFacts DEF SparseWritten
<1>13. SparseWritten(D, s2, id.entity, Null, s3)
  BY <1>7, <1>12, NullType, SetSparseFacts DEF PackedWritten
<1>14. s3.packed \in Seq(Identifiers) /\ Len(s3.packed) = Size(s) /\ s3.packed # << >>
  BY <1>1, <1>9, <1>12, <1>13 DEF SparseWritten, PackedWritten, SetsOver, Size
<1>15. /\ f \in Seq(Identifiers) /\ Len(f) = Size(s) - 1
       /\ \A n \in 1 .. Size(s) - 1 : f[n] = s3.packed[n]
  BY <1>1, <1>8, <1>14 DEF Front
<1>16. t \in SetsOver(D) /\ t.packed = f /\ t.mode = s3.mode /\ t.head = s3.head /\ t.sparse = s3.sparse
  BY <1>11, <1>13, <1>15 DEF SparseWritten, SetsOver
<1>17. Size(t) = Size(s) - 1 /\ Positions(t) = 0 .. Size(s) - 2
  BY <1>1, <1>15, <1>16 DEF Size, Positions
<1>18. \A p \in Positions(t) : At(t, p) = At(s3, p) /\ p \in Positions(s)
  BY <1>1, <1>15, <1>16, <1>17 DEF At, Positions
<1>19. \A p \in Positions(t) : At(t, p) = IF p = pos THEN back ELSE At(s, p)
  BY <1>9, <1>12, <1>13, <1>18 DEF SparseWritten, PackedWritten
<1>20. \A d \in D : t.sparse[d] = IF d = id.entity THEN Null ELSE IF d = back.entity THEN x ELSE s.sparse[d]
  BY <1>9, <1>12, <1>13, <1>16 DEF SparseWritten, PackedWritten
<1> QED BY <1>4, <1>9, <1>12, <1>13, <1>16, <1>17, <1>19, <1>20 DEF SparseWritten, PackedWritten

-------------------------------------------------------------------------------
(* The invariant on the two arrays.                                        *)

(* Every live position is where the sparse array sends its entity.         *)
PackedLinked(s) ==
  \A pos \in Positions(s) :
    ~ IsTombstone(At(s, pos)) =>
      /\ At(s, pos).entity \in Allocated(s)
      /\ s.sparse[At(s, pos).entity] = [entity |-> pos, version |-> At(s, pos).version]

(* Every sparse element that is not null selects a live position of its    *)
(* entity.                                                                 *)
SparseLinked(s) ==
  \A e \in Allocated(s) :
    s.sparse[e].entity # EntityMask =>
      /\ s.sparse[e].entity \in Positions(s)
      /\ At(s, s.sparse[e].entity) = [entity |-> e, version |-> s.sparse[e].version]
      /\ s.sparse[e].version # VersionMask

(* A sparse element without a position has no version either.              *)
NullWhole(s) ==
  \A e \in Allocated(s) : s.sparse[e].entity = EntityMask => s.sparse[e] = Null

(* A position left behind by in-place deletion.                            *)
Hole(s, pos) == pos \in Positions(s) /\ IsTombstone(At(s, pos))

(* The free list of the in-place policy starts and continues in holes, no  *)
(* two tombstones point at the same one, and none points at the head.      *)
ListSound(s) ==
  s.mode = "in_place" =>
    /\ s.head = EntityMask \/ Hole(s, s.head)
    /\ \A p \in Positions(s) :
         Hole(s, p) =>
           /\ At(s, p).entity = EntityMask \/ Hole(s, At(s, p).entity)
           /\ At(s, p).entity # EntityMask => At(s, p).entity # s.head
    /\ \A p, q \in Positions(s) :
         Hole(s, p) /\ Hole(s, q) /\ At(s, p).entity = At(s, q).entity
           /\ At(s, p).entity # EntityMask => p = q

(* What head means with the other policies, where there are no tombstones. *)
HeadSound(s) ==
  /\ s.mode = "swap_only" => s.head <= Size(s)
  /\ s.mode = "swap_and_pop" => s.head = EntityMask
  /\ s.mode # "in_place" => \A pos \in Positions(s) : ~ IsTombstone(At(s, pos))

(* The inductive invariant on the set. Bijective alone is not inductive:   *)
(* an insertion in a hole is only safe if the head is a hole, and an       *)
(* erasure only if a tombstone read from a chain leads to a hole again.    *)
Sound(s) ==
  /\ s \in SetsOver(Allocated(s))
  /\ Size(s) <= EntityMask
  /\ PackedLinked(s)
  /\ SparseLinked(s)
  /\ NullWhole(s)
  /\ ListSound(s)
  /\ HeadSound(s)

(* In a sound set every position fits the entity part and holds an         *)
(* identifier.                                                             *)
LEMMA PositionsFit ==
  ASSUME NEW s, Sound(s)
  PROVE  /\ s \in SetsOver(Allocated(s))
         /\ Size(s) \in Nat
         /\ Positions(s) = 0 .. Size(s) - 1
         /\ Positions(s) \subseteq 0 .. EntityMask - 1
         /\ s.head \in Nat
         /\ \A pos \in Positions(s) : At(s, pos) \in Identifiers
<1>1. s \in SetsOver(Allocated(s)) /\ Size(s) <= EntityMask
  BY DEF Sound
<1>2. Size(s) \in Nat /\ s.head \in Nat
  BY <1>1 DEF SetsOver, Size
<1>3. \A pos \in Positions(s) : At(s, pos) \in Identifiers
  BY <1>1, AtType
<1> QED BY <1>1, <1>2, <1>3, EntityMaskAssumption DEF Positions

(* Allocating a page keeps the set sound and its elements where they are.  *)
LEMMA AssureSound ==
  ASSUME NEW s, Sound(s), NEW id \in Identifiers, NEW t, t = AssureAtLeast(s, id)
  PROVE  /\ Sound(t) /\ id.entity \in Allocated(t)
         /\ t.mode = s.mode /\ t.head = s.head /\ t.packed = s.packed
         /\ id.entity \in Allocated(s) => Elem(t, id) = Elem(s, id)
         /\ id.entity \notin Allocated(s) => Elem(t, id) = Null
<1>1. s \in SetsOver(Allocated(s))
  BY DEF Sound
<1>2. /\ t \in SetsOver(Allocated(t))
      /\ Allocated(s) \subseteq Allocated(t)
      /\ id.entity \in Allocated(t)
      /\ t.packed = s.packed /\ t.mode = s.mode /\ t.head = s.head
      /\ \A d \in Allocated(t) : t.sparse[d] = IF d \in Allocated(s) THEN s.sparse[d] ELSE Null
  BY <1>1, AssureFacts
<1>3. Size(t) = Size(s) /\ Positions(t) = Positions(s) /\ \A pos : At(t, pos) = At(s, pos)
  BY <1>2, SamePacked
<1>4. PackedLinked(t)
  BY <1>2, <1>3 DEF PackedLinked, Sound
<1>5. SparseLinked(t)
  BY <1>2, <1>3 DEF SparseLinked, Null, Sound
<1>6. ListSound(t)
  BY <1>2, <1>3 DEF ListSound, Hole, Sound
<1>7. HeadSound(t)
  BY <1>2, <1>3 DEF HeadSound, Sound
<1>8. NullWhole(t)
  BY <1>2, <1>3 DEF Sound, NullWhole
<1>9. Sound(t)
  BY <1>2, <1>3, <1>4, <1>5, <1>6, <1>7, <1>8 DEF Sound
<1> QED BY <1>2, <1>9 DEF Elem

(* swap_at of two live positions keeps the set sound.                      *)
LEMMA SwapAtSound ==
  ASSUME NEW s, Sound(s), NEW lhs \in Positions(s), NEW rhs \in Positions(s),
         ~ IsTombstone(At(s, lhs)), ~ IsTombstone(At(s, rhs)),
         NEW t, t = SwapAt(s, lhs, rhs)
  PROVE  /\ Sound(t)
         /\ t.mode = s.mode /\ t.head = s.head /\ Size(t) = Size(s) /\ Positions(t) = Positions(s)
         /\ \A p \in Positions(s) :
              At(t, p) = IF p = rhs THEN At(s, lhs) ELSE IF p = lhs THEN At(s, rhs) ELSE At(s, p)
<1>1. PICK from, to, D : from = At(s, lhs) /\ to = At(s, rhs) /\ D = Allocated(s)
  OBVIOUS
<1>2. /\ s \in SetsOver(D)
      /\ from \in Identifiers /\ to \in Identifiers
      /\ lhs \in 0 .. EntityMask /\ rhs \in 0 .. EntityMask
      /\ lhs # EntityMask /\ rhs # EntityMask
  BY <1>1, PositionsFit, EntityMaskAssumption
<1>3. /\ from.entity \in D /\ to.entity \in D
      /\ s.sparse[from.entity] = [entity |-> lhs, version |-> from.version]
      /\ s.sparse[to.entity] = [entity |-> rhs, version |-> to.version]
  BY <1>1 DEF Sound, PackedLinked
<1>4. /\ t \in SetsOver(D) /\ t.mode = s.mode /\ t.head = s.head
      /\ Size(t) = Size(s) /\ Positions(t) = Positions(s)
      /\ \A p \in Positions(s) :
           At(t, p) = IF p = rhs THEN from ELSE IF p = lhs THEN to ELSE At(s, p)
      /\ \A d \in D :
           t.sparse[d] = IF d = to.entity THEN [entity |-> lhs, version |-> to.version]
                         ELSE IF d = from.entity THEN [entity |-> rhs, version |-> from.version]
                         ELSE s.sparse[d]
  <2>1. from = At(s, lhs) /\ to = At(s, rhs)
    BY <1>1
  <2> QED BY <1>2, <1>3, <2>1, SwapAtFacts, SMTT(60)
<1>5. Allocated(t) = D
  BY <1>4, AllocatedIs
<1>6. from.entity = to.entity => lhs = rhs
  BY <1>3
<1>7. ~ IsTombstone(from) /\ ~ IsTombstone(to)
  BY <1>1
<1>8. PackedLinked(t)
  <2> SUFFICES ASSUME NEW pos \in Positions(s), ~ IsTombstone(At(t, pos))
               PROVE  /\ At(t, pos).entity \in D
                      /\ t.sparse[At(t, pos).entity] = [entity |-> pos, version |-> At(t, pos).version]
    BY <1>4, <1>5 DEF PackedLinked
  <2>1. CASE pos = rhs
    BY <2>1, <1>3, <1>4, <1>6
  <2>2. CASE pos = lhs /\ pos # rhs
    BY <2>2, <1>3, <1>4, <1>6
  <2>3. CASE pos # lhs /\ pos # rhs
    <3>1. At(t, pos) = At(s, pos)
      BY <2>3, <1>4
    <3>2. /\ At(s, pos).entity \in D
          /\ s.sparse[At(s, pos).entity] = [entity |-> pos, version |-> At(s, pos).version]
      BY <3>1, <1>1 DEF Sound, PackedLinked
    <3>3. At(s, pos).entity # from.entity /\ At(s, pos).entity # to.entity
      BY <3>2, <2>3, <1>3
    <3> QED BY <3>1, <3>2, <3>3, <1>4
  <2> QED BY <2>1, <2>2, <2>3
<1>9. SparseLinked(t)
  <2> SUFFICES ASSUME NEW e \in D, t.sparse[e].entity # EntityMask
               PROVE  /\ t.sparse[e].entity \in Positions(s)
                      /\ At(t, t.sparse[e].entity) = [entity |-> e, version |-> t.sparse[e].version]
                      /\ t.sparse[e].version # VersionMask
    BY <1>4, <1>5 DEF SparseLinked
  <2>0. /\ from = [entity |-> from.entity, version |-> from.version]
        /\ to = [entity |-> to.entity, version |-> to.version]
        /\ from.version # VersionMask /\ to.version # VersionMask
    BY <1>2, <1>7 DEF Identifiers, IsTombstone
  <2>1. CASE e = to.entity
    <3>1. t.sparse[e].entity = lhs /\ t.sparse[e].version = to.version
      BY <2>1, <1>4
    <3>2. At(t, lhs) = to
      BY <1>4, <1>1
    <3> QED BY <2>0, <2>1, <3>1, <3>2
  <2>2. CASE e = from.entity /\ e # to.entity
    <3>1. t.sparse[e].entity = rhs /\ t.sparse[e].version = from.version
      BY <2>2, <1>4
    <3>2. At(t, rhs) = from
      BY <1>4
    <3> QED BY <2>0, <2>2, <3>1, <3>2
  <2>3. CASE e # from.entity /\ e # to.entity
    <3>1. t.sparse[e] = s.sparse[e]
      BY <2>3, <1>4
    <3>2. /\ s.sparse[e].entity \in Positions(s)
          /\ At(s, s.sparse[e].entity) = [entity |-> e, version |-> s.sparse[e].version]
          /\ s.sparse[e].version # VersionMask
      BY <3>1, <1>1 DEF Sound, SparseLinked
    <3>3. s.sparse[e].entity # lhs /\ s.sparse[e].entity # rhs
      BY <3>2, <2>3, <1>1
    <3> QED BY <3>1, <3>2, <3>3, <1>4
  <2> QED BY <2>1, <2>2, <2>3
<1>10. \A p : Hole(t, p) <=> Hole(s, p)
  BY <1>1, <1>4, <1>7 DEF Hole
<1>11. \A p \in Positions(s) : Hole(s, p) => At(t, p) = At(s, p)
  BY <1>1, <1>4, <1>7 DEF Hole
<1>12. ListSound(t)
  BY <1>4, <1>10, <1>11 DEF Sound, ListSound
<1>13. HeadSound(t)
  BY <1>1, <1>4, <1>7 DEF Sound, HeadSound
<1>15. NullWhole(t)
  BY <1>1, <1>3, <1>4, <1>5, PositionsFit, EntityMaskAssumption DEF Sound, NullWhole
<1>14. Sound(t)
  BY <1>4, <1>5, <1>8, <1>9, <1>12, <1>13, <1>15 DEF Sound
<1> QED BY <1>1, <1>4, <1>14

(* Appending a new entity keeps the set sound while the size fits the      *)
(* entity part: this is where the bound on the size is needed, for the     *)
(* position is masked when it is stored.                                   *)
LEMMA PushBackSound ==
  ASSUME NEW s, Sound(s), NEW id \in Identifiers, ~ IsTombstone(id),
         id.entity \in Allocated(s), IsNull(Elem(s, id)), Size(s) < EntityMask,
         NEW t, t = PushBack(s, id)
  PROVE  /\ Sound(t)
         /\ t.mode = s.mode /\ t.head = s.head
         /\ Size(t) = Size(s) + 1
         /\ At(t, Size(s)) = id
         /\ \A p \in Positions(s) : At(t, p) = At(s, p)
<1>1. PICK D, n : D = Allocated(s) /\ n = Size(s)
  OBVIOUS
<1>2. /\ s \in SetsOver(D) /\ n \in 0 .. EntityMask /\ n # EntityMask
      /\ Positions(s) = 0 .. n - 1 /\ Positions(s) \subseteq 0 .. EntityMask - 1
      /\ s.head \in Nat
  BY <1>1, PositionsFit, EntityMaskAssumption
<1>3. /\ t \in SetsOver(D) /\ t.mode = s.mode /\ t.head = s.head
      /\ Size(t) = n + 1 /\ Positions(t) = 0 .. n
      /\ \A p \in Positions(s) : At(t, p) = At(s, p)
      /\ At(t, n) = id
      /\ \A d \in D : t.sparse[d] = IF d = id.entity THEN [entity |-> n, version |-> id.version]
                                    ELSE s.sparse[d]
  BY <1>1, <1>2, PushBackFacts
<1>4. Allocated(t) = D
  BY <1>3, AllocatedIs
<1>5. \A p \in Positions(t) : p \in Positions(s) \/ p = n
  BY <1>2, <1>3
<1>6. s.sparse[id.entity].entity = EntityMask
  BY DEF IsNull, Elem
<1>7. PackedLinked(t)
  <2> SUFFICES ASSUME NEW pos \in Positions(t), ~ IsTombstone(At(t, pos))
               PROVE  /\ At(t, pos).entity \in D
                      /\ t.sparse[At(t, pos).entity] = [entity |-> pos, version |-> At(t, pos).version]
    BY <1>4 DEF PackedLinked
  <2>1. CASE pos = n
    BY <2>1, <1>1, <1>3
  <2>2. CASE pos \in Positions(s)
    <3>1. /\ At(s, pos).entity \in D
          /\ s.sparse[At(s, pos).entity] = [entity |-> pos, version |-> At(s, pos).version]
      BY <2>2, <1>1, <1>3 DEF Sound, PackedLinked
    <3>2. pos # EntityMask
      BY <2>2, <1>2, EntityMaskAssumption
    <3>3. At(s, pos).entity # id.entity
      BY <3>1, <3>2, <1>6
    <3> QED BY <2>2, <3>1, <3>3, <1>3
  <2> QED BY <2>1, <2>2, <1>5
<1>8. SparseLinked(t)
  <2> SUFFICES ASSUME NEW e \in D, t.sparse[e].entity # EntityMask
               PROVE  /\ t.sparse[e].entity \in Positions(t)
                      /\ At(t, t.sparse[e].entity) = [entity |-> e, version |-> t.sparse[e].version]
                      /\ t.sparse[e].version # VersionMask
    BY <1>4 DEF SparseLinked
  <2>1. CASE e = id.entity
    <3>1. t.sparse[e].entity = n /\ t.sparse[e].version = id.version
      BY <2>1, <1>3
    <3>2. id = [entity |-> id.entity, version |-> id.version] /\ id.version # VersionMask
      BY DEF Identifiers, IsTombstone
    <3> QED BY <2>1, <3>1, <3>2, <1>2, <1>3
  <2>2. CASE e # id.entity
    <3>1. t.sparse[e] = s.sparse[e]
      BY <2>2, <1>3
    <3>2. /\ s.sparse[e].entity \in Positions(s)
          /\ At(s, s.sparse[e].entity) = [entity |-> e, version |-> s.sparse[e].version]
          /\ s.sparse[e].version # VersionMask
      BY <3>1, <1>1 DEF Sound, SparseLinked
    <3> QED BY <3>1, <3>2, <1>2, <1>3
  <2> QED BY <2>1, <2>2
<1>9. \A p : Hole(t, p) <=> Hole(s, p)
  BY <1>2, <1>3, <1>5 DEF Hole
<1>10. ListSound(t)
  BY <1>2, <1>3, <1>9 DEF Sound, ListSound, Hole
<1>11. HeadSound(t)
  BY <1>1, <1>2, <1>3, <1>5 DEF Sound, HeadSound
<1>12. Size(t) <= EntityMask
  BY <1>2, <1>3, EntityMaskAssumption
<1>14. NullWhole(t)
  BY <1>1, <1>2, <1>3, <1>4, EntityMaskAssumption DEF Sound, NullWhole
<1>13. Sound(t)
  BY <1>3, <1>4, <1>7, <1>8, <1>10, <1>11, <1>12, <1>14 DEF Sound
<1> QED BY <1>1, <1>3, <1>13

(* bump keeps the set sound.                                               *)
LEMMA BumpSound ==
  ASSUME NEW s, Sound(s), NEW id \in Identifiers, ~ IsTombstone(id),
         id.entity \in Allocated(s), ~ IsNull(Elem(s, id)),
         NEW pos, pos = Elem(s, id).entity,
         NEW t, t = Bump(s, id)
  PROVE  /\ Sound(t)
         /\ pos \in Positions(s)
         /\ t.mode = s.mode /\ t.head = s.head /\ Size(t) = Size(s) /\ Positions(t) = Positions(s)
         /\ \A p \in Positions(s) : At(t, p) = IF p = pos THEN id ELSE At(s, p)
         /\ At(s, pos).entity = id.entity /\ ~ IsTombstone(At(s, pos))
         /\ Elem(t, id).entity = pos
<1>1. PICK D, old : D = Allocated(s) /\ old = At(s, pos)
  OBVIOUS
<1>2. /\ pos \in Positions(s) /\ pos = s.sparse[id.entity].entity
      /\ old = [entity |-> id.entity, version |-> s.sparse[id.entity].version]
      /\ s.sparse[id.entity].version # VersionMask
  BY <1>1 DEF Sound, SparseLinked, Elem, IsNull
<1>3. s \in SetsOver(D) /\ pos \in 0 .. EntityMask /\ s.head \in Nat
  BY <1>1, <1>2, PositionsFit, EntityMaskAssumption
<1>4. /\ t \in SetsOver(D) /\ t.mode = s.mode /\ t.head = s.head
      /\ Size(t) = Size(s) /\ Positions(t) = Positions(s)
      /\ \A p \in Positions(s) : At(t, p) = IF p = pos THEN id ELSE At(s, p)
      /\ \A d \in D :
           t.sparse[d] = IF d = id.entity THEN [entity |-> pos, version |-> id.version]
                         ELSE s.sparse[d]
  BY <1>1, <1>2, <1>3, BumpFacts
<1>5. Allocated(t) = D
  BY <1>4, AllocatedIs
<1>6. PackedLinked(t)
  <2> SUFFICES ASSUME NEW p \in Positions(s), ~ IsTombstone(At(t, p))
               PROVE  /\ At(t, p).entity \in D
                      /\ t.sparse[At(t, p).entity] = [entity |-> p, version |-> At(t, p).version]
    BY <1>4, <1>5 DEF PackedLinked
  <2>1. CASE p = pos
    BY <2>1, <1>1, <1>2, <1>4
  <2>2. CASE p # pos
    <3>1. /\ At(s, p).entity \in D
          /\ s.sparse[At(s, p).entity] = [entity |-> p, version |-> At(s, p).version]
      BY <2>2, <1>1, <1>4 DEF Sound, PackedLinked
    <3>2. At(s, p).entity # id.entity
      BY <3>1, <2>2, <1>2
    <3> QED BY <2>2, <3>1, <3>2, <1>4
  <2> QED BY <2>1, <2>2
<1>7. SparseLinked(t)
  <2> SUFFICES ASSUME NEW e \in D, t.sparse[e].entity # EntityMask
               PROVE  /\ t.sparse[e].entity \in Positions(s)
                      /\ At(t, t.sparse[e].entity) = [entity |-> e, version |-> t.sparse[e].version]
                      /\ t.sparse[e].version # VersionMask
    BY <1>4, <1>5 DEF SparseLinked
  <2>1. CASE e = id.entity
    <3>1. t.sparse[e].entity = pos /\ t.sparse[e].version = id.version
      BY <2>1, <1>4
    <3>2. id = [entity |-> id.entity, version |-> id.version] /\ id.version # VersionMask
      BY DEF Identifiers, IsTombstone
    <3> QED BY <2>1, <3>1, <3>2, <1>2, <1>4
  <2>2. CASE e # id.entity
    <3>1. t.sparse[e] = s.sparse[e]
      BY <2>2, <1>4
    <3>2. /\ s.sparse[e].entity \in Positions(s)
          /\ At(s, s.sparse[e].entity) = [entity |-> e, version |-> s.sparse[e].version]
          /\ s.sparse[e].version # VersionMask
      BY <3>1, <1>1 DEF Sound, SparseLinked
    <3>3. s.sparse[e].entity # pos
      BY <3>2, <2>2, <1>1, <1>2
    <3> QED BY <3>1, <3>2, <3>3, <1>4
  <2> QED BY <2>1, <2>2
<1>8. ~ IsTombstone(old)
  BY <1>2 DEF IsTombstone
<1>9. \A p : Hole(t, p) <=> Hole(s, p)
  BY <1>1, <1>2, <1>4, <1>8 DEF Hole
<1>10. ListSound(t)
  BY <1>1, <1>4, <1>8, <1>9 DEF Sound, ListSound, Hole
<1>11. HeadSound(t)
  BY <1>4 DEF Sound, HeadSound
<1>14. NullWhole(t)
  BY <1>1, <1>2, <1>4, <1>5, PositionsFit, EntityMaskAssumption DEF Sound, NullWhole
<1>12. Sound(t)
  BY <1>4, <1>5, <1>6, <1>7, <1>10, <1>11, <1>14 DEF Sound
<1>13. Elem(t, id).entity = pos
  BY <1>1, <1>4 DEF Elem
<1> QED BY <1>1, <1>2, <1>4, <1>8, <1>12, <1>13

(* Moving the border of the swap-only policy keeps the set sound.          *)
LEMMA HeadChangeSound ==
  ASSUME NEW s, Sound(s), s.mode = "swap_only", NEW h \in 0 .. Size(s),
         NEW t, t = [s EXCEPT !.head = h]
  PROVE  /\ Sound(t)
         /\ t.mode = s.mode /\ t.head = h /\ Size(t) = Size(s) /\ Positions(t) = Positions(s)
         /\ \A p : At(t, p) = At(s, p)
         /\ t.sparse = s.sparse
<1>1. s \in SetsOver(Allocated(s)) /\ h \in Nat /\ h <= Size(s)
  BY PositionsFit
<1>2. /\ t \in SetsOver(Allocated(s)) /\ t.mode = s.mode /\ t.head = h
      /\ t.sparse = s.sparse
      /\ Size(t) = Size(s) /\ Positions(t) = Positions(s)
      /\ \A p : At(t, p) = At(s, p)
  BY <1>1, HeadFacts
<1>3. Allocated(t) = Allocated(s)
  BY <1>2 DEF Allocated
<1>4. PackedLinked(t) /\ SparseLinked(t)
  BY <1>2, <1>3 DEF Sound, PackedLinked, SparseLinked
<1>5. ListSound(t) /\ HeadSound(t)
  BY <1>1, <1>2 DEF Sound, ListSound, HeadSound
<1>6. NullWhole(t)
  BY <1>2, <1>3 DEF Sound, NullWhole
<1> QED BY <1>2, <1>3, <1>4, <1>5, <1>6 DEF Sound

(* Taking a hole off the free list keeps the set sound: the list loses its *)
(* first position and no other.                                            *)
LEMMA EmplaceInPlaceSound ==
  ASSUME NEW s, Sound(s), s.mode = "in_place", s.head # EntityMask,
         NEW id \in Identifiers, ~ IsTombstone(id),
         id.entity \in Allocated(s), IsNull(Elem(s, id)),
         NEW t, t = EmplaceInPlace(s, id)
  PROVE  /\ Sound(t)
         /\ t.mode = s.mode /\ Size(t) = Size(s) /\ Positions(t) = Positions(s)
         /\ Hole(s, s.head)
         /\ \A p \in Positions(s) : At(t, p) = IF p = s.head THEN id ELSE At(s, p)
<1>1. PICK D, h : D = Allocated(s) /\ h = s.head
  OBVIOUS
<1>2. Hole(s, h) /\ h \in Positions(s) /\ h # EntityMask
  BY <1>1 DEF Sound, ListSound, Hole
<1>3. s \in SetsOver(D) /\ h \in 0 .. EntityMask
  BY <1>1, <1>2, PositionsFit, EntityMaskAssumption
<1>4. /\ t \in SetsOver(D) /\ t.mode = s.mode /\ t.head = At(s, h).entity
      /\ Size(t) = Size(s) /\ Positions(t) = Positions(s)
      /\ \A p \in Positions(s) : At(t, p) = IF p = h THEN id ELSE At(s, p)
      /\ \A d \in D : t.sparse[d] = IF d = id.entity THEN [entity |-> h, version |-> id.version]
                                    ELSE s.sparse[d]
  BY <1>1, <1>2, <1>3, EmplaceInPlaceFacts
<1>5. Allocated(t) = D
  BY <1>4, AllocatedIs
<1>6. s.sparse[id.entity].entity = EntityMask
  BY DEF IsNull, Elem
<1>7. PackedLinked(t)
  <2> SUFFICES ASSUME NEW pos \in Positions(s), ~ IsTombstone(At(t, pos))
               PROVE  /\ At(t, pos).entity \in D
                      /\ t.sparse[At(t, pos).entity] = [entity |-> pos, version |-> At(t, pos).version]
    BY <1>4, <1>5 DEF PackedLinked
  <2>1. CASE pos = h
    BY <2>1, <1>1, <1>4
  <2>2. CASE pos # h
    <3>1. /\ At(s, pos).entity \in D
          /\ s.sparse[At(s, pos).entity] = [entity |-> pos, version |-> At(s, pos).version]
      BY <2>2, <1>1, <1>4 DEF Sound, PackedLinked
    <3>2. pos # EntityMask
      BY PositionsFit, EntityMaskAssumption
    <3>3. At(s, pos).entity # id.entity
      BY <3>1, <3>2, <1>6
    <3> QED BY <2>2, <3>1, <3>3, <1>4
  <2> QED BY <2>1, <2>2
<1>8. SparseLinked(t)
  <2> SUFFICES ASSUME NEW e \in D, t.sparse[e].entity # EntityMask
               PROVE  /\ t.sparse[e].entity \in Positions(s)
                      /\ At(t, t.sparse[e].entity) = [entity |-> e, version |-> t.sparse[e].version]
                      /\ t.sparse[e].version # VersionMask
    BY <1>4, <1>5 DEF SparseLinked
  <2>1. CASE e = id.entity
    <3>1. t.sparse[e].entity = h /\ t.sparse[e].version = id.version
      BY <2>1, <1>4
    <3>2. id = [entity |-> id.entity, version |-> id.version] /\ id.version # VersionMask
      BY DEF Identifiers, IsTombstone
    <3> QED BY <2>1, <3>1, <3>2, <1>2, <1>4
  <2>2. CASE e # id.entity
    <3>1. t.sparse[e] = s.sparse[e]
      BY <2>2, <1>4
    <3>2. /\ s.sparse[e].entity \in Positions(s)
          /\ At(s, s.sparse[e].entity) = [entity |-> e, version |-> s.sparse[e].version]
          /\ s.sparse[e].version # VersionMask
      BY <3>1, <1>1 DEF Sound, SparseLinked
    <3>3. s.sparse[e].entity # h
      BY <3>2, <1>2 DEF Hole, IsTombstone
    <3> QED BY <3>1, <3>2, <3>3, <1>4
  <2> QED BY <2>1, <2>2
<1>9. \A p : Hole(t, p) <=> Hole(s, p) /\ p # h
  BY <1>4 DEF Hole
<1>10. \A p \in Positions(s) : p # h => At(t, p) = At(s, p)
  BY <1>4
<1>11. ListSound(t)
  <2>1. t.head = EntityMask \/ Hole(t, t.head)
    BY <1>1, <1>2, <1>4, <1>9 DEF Sound, ListSound
  <2>2. ASSUME NEW p \in Positions(s), Hole(t, p)
        PROVE  /\ At(t, p).entity = EntityMask \/ Hole(t, At(t, p).entity)
               /\ At(t, p).entity # EntityMask => At(t, p).entity # t.head
    <3>1. Hole(s, p) /\ p # h /\ At(t, p) = At(s, p)
      BY <2>2, <1>9, <1>10
    <3>2. /\ At(s, p).entity = EntityMask \/ Hole(s, At(s, p).entity)
          /\ At(s, p).entity # EntityMask => At(s, p).entity # h
      BY <3>1, <1>1 DEF Sound, ListSound
    <3>3. At(s, p).entity # EntityMask => At(s, p).entity # At(s, h).entity
      BY <3>1, <1>1, <1>2 DEF Sound, ListSound
    <3> QED BY <3>1, <3>2, <3>3, <1>4, <1>9
  <2>3. \A p, q \in Positions(s) :
          Hole(t, p) /\ Hole(t, q) /\ At(t, p).entity = At(t, q).entity
            /\ At(t, p).entity # EntityMask => p = q
    BY <1>9, <1>10 DEF Sound, ListSound
  <2> QED BY <2>1, <2>2, <2>3, <1>4 DEF ListSound
<1>12. HeadSound(t)
  BY <1>4 DEF HeadSound
<1>14. NullWhole(t)
  BY <1>1, <1>2, <1>4, <1>5, PositionsFit, EntityMaskAssumption DEF Sound, NullWhole, Hole
<1>13. Sound(t)
  BY <1>4, <1>5, <1>7, <1>8, <1>11, <1>12, <1>14 DEF Sound
<1> QED BY <1>1, <1>2, <1>4, <1>13

(* Making a hole keeps the set sound: the list gains a first position that *)
(* no tombstone pointed at.                                                *)
LEMMA InPlacePopSound ==
  ASSUME NEW s, Sound(s), s.mode = "in_place",
         NEW id \in Identifiers, id.entity \in Allocated(s), ~ IsNull(Elem(s, id)),
         NEW pos, pos = Elem(s, id).entity,
         NEW t, t = InPlacePop(s, id)
  PROVE  /\ Sound(t)
         /\ pos \in Positions(s) /\ At(s, pos).entity = id.entity
         /\ t.mode = s.mode /\ Size(t) = Size(s) /\ Positions(t) = Positions(s)
         /\ IsTombstone(At(t, pos))
         /\ \A p \in Positions(s) : p # pos => At(t, p) = At(s, p)
<1>1. PICK D : D = Allocated(s)
  OBVIOUS
<1>2. /\ pos \in Positions(s) /\ pos = s.sparse[id.entity].entity
      /\ At(s, pos) = [entity |-> id.entity, version |-> s.sparse[id.entity].version]
      /\ s.sparse[id.entity].version # VersionMask
  BY <1>1 DEF Sound, SparseLinked, Elem, IsNull
<1>3. s.head = EntityMask \/ Hole(s, s.head)
  BY DEF Sound, ListSound
<1>4. s \in SetsOver(D) /\ s.head \in 0 .. EntityMask /\ pos # EntityMask
  BY <1>1, <1>2, <1>3, PositionsFit, EntityMaskAssumption DEF Hole
<1>5. /\ t \in SetsOver(D) /\ t.mode = s.mode /\ t.head = pos
      /\ Size(t) = Size(s) /\ Positions(t) = Positions(s)
      /\ \A p \in Positions(s) :
           At(t, p) = IF p = pos THEN [entity |-> s.head, version |-> VersionMask] ELSE At(s, p)
      /\ \A d \in D : t.sparse[d] = IF d = id.entity THEN Null ELSE s.sparse[d]
  BY <1>1, <1>2, <1>4, InPlacePopFacts
<1>6. Allocated(t) = D
  BY <1>5, AllocatedIs
<1>7. PackedLinked(t)
  <2> SUFFICES ASSUME NEW p \in Positions(s), ~ IsTombstone(At(t, p))
               PROVE  /\ At(t, p).entity \in D
                      /\ t.sparse[At(t, p).entity] = [entity |-> p, version |-> At(t, p).version]
    BY <1>5, <1>6 DEF PackedLinked
  <2>1. p # pos /\ At(t, p) = At(s, p)
    BY <1>5 DEF IsTombstone
  <2>2. /\ At(s, p).entity \in D
        /\ s.sparse[At(s, p).entity] = [entity |-> p, version |-> At(s, p).version]
    BY <2>1, <1>1 DEF Sound, PackedLinked
  <2>3. At(s, p).entity # id.entity
    BY <2>1, <2>2, <1>2
  <2> QED BY <2>1, <2>2, <2>3, <1>5
<1>8. SparseLinked(t)
  <2> SUFFICES ASSUME NEW e \in D, t.sparse[e].entity # EntityMask
               PROVE  /\ t.sparse[e].entity \in Positions(s)
                      /\ At(t, t.sparse[e].entity) = [entity |-> e, version |-> t.sparse[e].version]
                      /\ t.sparse[e].version # VersionMask
    BY <1>5, <1>6 DEF SparseLinked
  <2>1. e # id.entity /\ t.sparse[e] = s.sparse[e]
    BY <1>5 DEF Null
  <2>2. /\ s.sparse[e].entity \in Positions(s)
        /\ At(s, s.sparse[e].entity) = [entity |-> e, version |-> s.sparse[e].version]
        /\ s.sparse[e].version # VersionMask
    BY <2>1, <1>1 DEF Sound, SparseLinked
  <2>3. s.sparse[e].entity # pos
    BY <2>1, <2>2, <1>2
  <2> QED BY <2>1, <2>2, <2>3, <1>5
<1>9. ~ Hole(s, pos)
  BY <1>2 DEF Hole, IsTombstone
<1>10. \A p : Hole(t, p) <=> Hole(s, p) \/ p = pos
  BY <1>2, <1>5 DEF Hole, IsTombstone
<1>11. At(t, pos).entity = s.head /\ \A p \in Positions(s) : p # pos => At(t, p) = At(s, p)
  BY <1>2, <1>5
<1>12. ListSound(t)
  <2>1. Hole(t, t.head)
    BY <1>5, <1>10
  <2>2. ASSUME NEW p \in Positions(s), Hole(t, p)
        PROVE  /\ At(t, p).entity = EntityMask \/ Hole(t, At(t, p).entity)
               /\ At(t, p).entity # EntityMask => At(t, p).entity # t.head
    <3>1. CASE p = pos
      BY <3>1, <1>3, <1>5, <1>9, <1>10, <1>11
    <3>2. CASE p # pos
      <4>1. Hole(s, p) /\ At(t, p) = At(s, p)
        BY <3>2, <2>2, <1>10, <1>11
      <4>2. At(s, p).entity = EntityMask \/ Hole(s, At(s, p).entity)
        BY <4>1 DEF Sound, ListSound
      <4> QED BY <4>1, <4>2, <1>5, <1>9, <1>10
    <3> QED BY <3>1, <3>2
  <2>3. ASSUME NEW p \in Positions(s), NEW q \in Positions(s), Hole(t, p), Hole(t, q),
               At(t, p).entity = At(t, q).entity, At(t, p).entity # EntityMask
        PROVE  p = q
    <3>1. CASE p # pos /\ q # pos
      BY <3>1, <2>3, <1>10, <1>11 DEF Sound, ListSound
    <3>2. CASE p = pos /\ q # pos
      BY <3>2, <2>3, <1>10, <1>11 DEF Sound, ListSound
    <3>3. CASE p # pos /\ q = pos
      BY <3>3, <2>3, <1>10, <1>11 DEF Sound, ListSound
    <3> QED BY <3>1, <3>2, <3>3
  <2> QED BY <2>1, <2>2, <2>3, <1>5 DEF ListSound
<1>13. HeadSound(t)
  BY <1>5 DEF HeadSound
<1>15. NullWhole(t)
  BY <1>1, <1>5, <1>6 DEF Sound, NullWhole
<1>14. Sound(t)
  BY <1>5, <1>6, <1>7, <1>8, <1>12, <1>13, <1>15 DEF Sound
<1> QED BY <1>2, <1>5, <1>10, <1>11, <1>14 DEF Hole

(* swap_and_pop keeps the set sound, also when the element that leaves is  *)
(* the last one.                                                           *)
LEMMA SwapAndPopSound ==
  ASSUME NEW s, Sound(s), s.mode = "swap_and_pop",
         NEW id \in Identifiers, id.entity \in Allocated(s), ~ IsNull(Elem(s, id)),
         NEW pos, pos = Elem(s, id).entity,
         NEW t, t = SwapAndPop(s, id)
  PROVE  /\ Sound(t)
         /\ pos \in Positions(s) /\ At(s, pos).entity = id.entity
         /\ t.mode = s.mode /\ Size(t) = Size(s) - 1
         /\ \A p \in Positions(t) :
              p \in Positions(s) /\ At(t, p) = IF p = pos THEN At(s, Size(s) - 1) ELSE At(s, p)
<1>1. PICK D, n, back : D = Allocated(s) /\ n = Size(s) - 1 /\ back = At(s, n)
  OBVIOUS
<1>2. /\ pos \in Positions(s) /\ pos = s.sparse[id.entity].entity
      /\ At(s, pos) = [entity |-> id.entity, version |-> s.sparse[id.entity].version]
      /\ s.sparse[id.entity].version # VersionMask
  BY <1>1 DEF Sound, SparseLinked, Elem, IsNull
<1>3. /\ s \in SetsOver(D) /\ pos \in 0 .. EntityMask /\ n \in Nat /\ Size(s) = n + 1
      /\ Positions(s) = 0 .. n /\ n \in Positions(s) /\ s.head \in Nat
      /\ n # EntityMask
  BY <1>1, <1>2, PositionsFit, EntityMaskAssumption
<1>4. ~ IsTombstone(back)
  BY <1>1, <1>3 DEF Sound, HeadSound
<1>5. back.entity \in D /\ s.sparse[back.entity] = [entity |-> n, version |-> back.version]
  BY <1>1, <1>3, <1>4 DEF Sound, PackedLinked
<1>6. /\ t \in SetsOver(D) /\ t.mode = s.mode /\ t.head = s.head
      /\ Size(t) = n /\ Positions(t) = 0 .. n - 1
      /\ \A p \in Positions(t) : At(t, p) = IF p = pos THEN back ELSE At(s, p)
      /\ \A d \in D :
           t.sparse[d] = IF d = id.entity THEN Null
                         ELSE IF d = back.entity THEN [entity |-> pos, version |-> back.version]
                         ELSE s.sparse[d]
  <2>1. back = At(s, Size(s) - 1) /\ id.entity \in D
    BY <1>1
  <2>2. /\ t \in SetsOver(D) /\ t.mode = s.mode /\ t.head = s.head
        /\ Size(t) = Size(s) - 1 /\ Positions(t) = 0 .. Size(s) - 2
        /\ \A p \in Positions(t) : At(t, p) = IF p = pos THEN back ELSE At(s, p)
        /\ \A d \in D :
             t.sparse[d] = IF d = id.entity THEN Null
                           ELSE IF d = back.entity THEN [entity |-> pos, version |-> back.version]
                           ELSE s.sparse[d]
    BY SMTT(60), <1>2, <1>3, <1>5, <2>1, SwapAndPopFacts
  <2>3. Size(s) - 1 = n /\ 0 .. Size(s) - 2 = 0 .. n - 1
    BY <1>3
  <2> QED BY <2>2, <2>3
<1>7. Allocated(t) = D
  BY <1>6, AllocatedIs
<1>8. \A p \in Positions(t) : p \in Positions(s) /\ p # n
  BY <1>3, <1>6
<1>9. \A p \in Positions(s) : p # n => p \in Positions(t)
  BY <1>3, <1>6
<1>10. back.entity = id.entity => pos = n
  BY <1>2, <1>5
<1>11. PackedLinked(t)
  <2> SUFFICES ASSUME NEW p \in Positions(t), ~ IsTombstone(At(t, p))
               PROVE  /\ At(t, p).entity \in D
                      /\ t.sparse[At(t, p).entity] = [entity |-> p, version |-> At(t, p).version]
    BY <1>7 DEF PackedLinked
  <2>1. CASE p = pos
    BY <2>1, <1>5, <1>6, <1>8, <1>10
  <2>2. CASE p # pos
    <3>1. At(t, p) = At(s, p)
      BY <2>2, <1>6
    <3>2. /\ At(s, p).entity \in D
          /\ s.sparse[At(s, p).entity] = [entity |-> p, version |-> At(s, p).version]
      BY <3>1, <1>1, <1>8 DEF Sound, PackedLinked
    <3>3. At(s, p).entity # id.entity /\ At(s, p).entity # back.entity
      BY <3>2, <2>2, <1>2, <1>5, <1>8
    <3> QED BY <3>1, <3>2, <3>3, <1>6
  <2> QED BY <2>1, <2>2
<1>12. SparseLinked(t)
  <2> SUFFICES ASSUME NEW e \in D, t.sparse[e].entity # EntityMask
               PROVE  /\ t.sparse[e].entity \in Positions(t)
                      /\ At(t, t.sparse[e].entity) = [entity |-> e, version |-> t.sparse[e].version]
                      /\ t.sparse[e].version # VersionMask
    BY <1>7 DEF SparseLinked
  <2>1. e # id.entity
    BY <1>6 DEF Null
  <2>2. CASE e = back.entity
    <3>1. t.sparse[e].entity = pos /\ t.sparse[e].version = back.version
      BY <2>1, <2>2, <1>6
    <3>2. pos # n
      BY <2>1, <2>2, <1>1, <1>2
    <3>3. pos \in Positions(t) /\ At(t, pos) = back
      BY <3>2, <1>2, <1>6, <1>9
    <3>4. back = [entity |-> back.entity, version |-> back.version] /\ back.version # VersionMask
      BY <1>1, <1>3, <1>4, PositionsFit DEF Identifiers, IsTombstone
    <3> QED BY <2>2, <3>1, <3>3, <3>4
  <2>3. CASE e # back.entity
    <3>1. t.sparse[e] = s.sparse[e]
      BY <2>1, <2>3, <1>6
    <3>2. /\ s.sparse[e].entity \in Positions(s)
          /\ At(s, s.sparse[e].entity) = [entity |-> e, version |-> s.sparse[e].version]
          /\ s.sparse[e].version # VersionMask
      BY <3>1, <1>1 DEF Sound, SparseLinked
    <3>3. s.sparse[e].entity # pos /\ s.sparse[e].entity # n
      BY <3>2, <2>1, <2>3, <1>1, <1>2
    <3> QED BY <3>1, <3>2, <3>3, <1>6, <1>9
  <2> QED BY <2>2, <2>3
<1>13. ListSound(t)
  BY <1>6 DEF ListSound
<1>14. HeadSound(t)
  BY <1>1, <1>4, <1>6, <1>8 DEF Sound, HeadSound
<1>15. Size(t) <= EntityMask
  BY <1>3, <1>6, EntityMaskAssumption DEF Sound
<1>20. NullWhole(t)
  BY <1>1, <1>2, <1>6, <1>7, PositionsFit, EntityMaskAssumption DEF Sound, NullWhole
<1>16. Sound(t)
  BY <1>6, <1>7, <1>11, <1>12, <1>13, <1>14, <1>15, <1>20 DEF Sound
<1>17. Size(t) = Size(s) - 1
  BY <1>3, <1>6
<1>18. back = At(s, Size(s) - 1)
  BY <1>1
<1>19. At(s, pos).entity = id.entity
  BY <1>2
<1> QED BY <1>2, <1>6, <1>8, <1>16, <1>17, <1>18, <1>19

(* pop_all leaves a sound, empty set.                                      *)
LEMMA PopAllSound ==
  ASSUME NEW s, Sound(s), NEW t, t = PopAll(s)
  PROVE  Sound(t) /\ t.mode = s.mode /\ Size(t) = 0
<1>1. PICK D, f : /\ D = Allocated(s)
                  /\ f = [e \in D |-> IF Size(s) = 0 THEN s.sparse[e] ELSE Null]
  OBVIOUS
<1>2. s \in SetsOver(D) /\ s.mode \in Modes
  BY <1>1 DEF Sound, SetsOver
<1>3. f \in [D -> Identifiers]
  BY <1>1, <1>2, NullType DEF SetsOver
<1>4. PolicyToHead(s.mode) \in Nat
  BY EntityMaskAssumption DEF PolicyToHead
<1>5. t = [s EXCEPT !.sparse = f, !.head = PolicyToHead(s.mode), !.packed = << >>]
  BY <1>1 DEF PopAll
<1>6. << >> \in Seq(Identifiers) /\ Len(<< >>) = 0
  OBVIOUS
<1>7. /\ t \in SetsOver(D) /\ t.sparse = f /\ t.mode = s.mode
      /\ t.head = PolicyToHead(s.mode) /\ t.packed = << >>
  BY <1>2, <1>3, <1>4, <1>5, <1>6 DEF SetsOver
<1>8. Size(t) = 0 /\ Positions(t) = {}
  BY <1>6, <1>7 DEF Size, Positions
<1>9. Allocated(t) = D
  BY <1>7, AllocatedIs
<1>10. \A e \in D : f[e].entity = EntityMask
  <2>1. CASE Size(s) = 0
    <3>1. Positions(s) = {}
      BY <2>1 DEF Positions
    <3>2. \A e \in D : s.sparse[e].entity = EntityMask
      BY <3>1, <1>1 DEF Sound, SparseLinked
    <3> QED BY <3>2, <2>1, <1>1
  <2>2. CASE Size(s) # 0
    BY <2>2, <1>1 DEF Null
  <2> QED BY <2>1, <2>2
<1>11. PackedLinked(t) /\ SparseLinked(t)
  BY <1>7, <1>8, <1>9, <1>10 DEF PackedLinked, SparseLinked
<1>12. ListSound(t)
  BY <1>7, <1>8 DEF ListSound, PolicyToHead
<1>13. HeadSound(t)
  BY <1>7, <1>8 DEF HeadSound, PolicyToHead
<1>14. Size(t) <= EntityMask
  BY <1>8, EntityMaskAssumption
<1>15. NullWhole(t)
  BY <1>1, <1>7, <1>9, <1>10 DEF Sound, NullWhole
<1> QED BY <1>7, <1>8, <1>9, <1>11, <1>12, <1>13, <1>14, <1>15 DEF Sound

(* A bounded nonempty set of numbers has a maximum.                        *)
LEMMA LargestExists ==
  ASSUME NEW N \in Nat, NEW T, T \subseteq 0 .. N, T # {}
  PROVE  Max(T) \in T /\ \A x \in T : x <= Max(T)
<1>1. PICK R : R = OpToRel(<, Nat)
  OBVIOUS
<1>2. IsWellFoundedOn(R, Nat)
  BY <1>1, NatLessThanWellFounded
<1>3. \A x, y \in Nat : <<y, x>> \in R <=> y < x
  BY <1>1 DEF OpToRel
<1>4. PICK U : U = {N - x : x \in T}
  OBVIOUS
<1>5. U \subseteq Nat /\ U # {}
  <2>1. \A x \in T : N - x \in Nat
    OBVIOUS
  <2> QED BY <1>4, <2>1
<1>6. PICK u \in U : \A y \in U : ~ (<<y, u>> \in R)
  BY <1>2, <1>5, WFMin
<1>7. PICK m \in T : u = N - m
  BY <1>4, <1>6
<1>8. \A y \in T : m >= y
  <2> TAKE y \in T
  <2>1. N - y \in U /\ ~ (N - y < N - m)
    BY <1>3, <1>4, <1>5, <1>6, <1>7
  <2> QED BY <2>1, <1>7
<1>9. Max(T) \in T /\ \A y \in T : Max(T) >= y
  BY <1>8 DEF Max
<1> QED BY <1>9

(* shrink_to_fit releases only pages that no element of the packed array   *)
(* selects.                                                                *)
LEMMA ShrinkSound ==
  ASSUME NEW s, Sound(s), NEW t, t = ShrinkToFit(s)
  PROVE  Sound(t) /\ t.mode = s.mode /\ t.head = s.head /\ t.packed = s.packed
<1>1. PICK D, kept, E, f, n :
        /\ D = Allocated(s)
        /\ kept = {PageOf(id.entity) : id \in Elements(s)}
        /\ E = {x \in D : PageOf(x) \in kept}
        /\ f = [e \in E |-> s.sparse[e]]
        /\ n = Max({0} \cup {page + 1 : page \in kept})
  OBVIOUS
<1>2. s \in SetsOver(D) /\ s.packed \in Seq(Identifiers)
  BY <1>1 DEF Sound, SetsOver
<1>3. t = [s EXCEPT !.extent = n, !.sparse = f]
  BY <1>1 DEF ShrinkToFit
<1>4. f \in [E -> Identifiers]
  BY <1>1, <1>2 DEF SetsOver
<1>5. Elements(s) \subseteq Identifiers
  BY <1>2 DEF Elements, ToSet
<1>6. kept \subseteq 0 .. EntityMask
  <2> SUFFICES ASSUME NEW id \in Identifiers PROVE PageOf(id.entity) \in 0 .. EntityMask
    BY <1>1, <1>5
  <2>1. id.entity \in 0 .. EntityMask
    BY DEF Identifiers, EntityParts
  <2> QED BY <2>1, EntityMaskAssumption, PageSizeAssumption DEF PageOf
<1>7. n \in Nat
  <2>1. {0} \cup {page + 1 : page \in kept} \subseteq 0 .. EntityMask + 1
    BY <1>6, EntityMaskAssumption
  <2> QED BY <2>1, <1>1, LargestExists, EntityMaskAssumption
<1>8. /\ t \in SetsOver(E) /\ t.sparse = f /\ t.packed = s.packed /\ t.mode = s.mode
      /\ t.head = s.head
  BY <1>2, <1>3, <1>4, <1>7 DEF SetsOver
<1>9. Allocated(t) = E
  BY <1>8, AllocatedIs
<1>10. Size(t) = Size(s) /\ Positions(t) = Positions(s) /\ \A pos : At(t, pos) = At(s, pos)
  BY <1>8, SamePacked
<1>11. \A e \in E : e \in D /\ t.sparse[e] = s.sparse[e]
  BY <1>1, <1>8
<1>12. PackedLinked(t)
  <2> SUFFICES ASSUME NEW pos \in Positions(s), ~ IsTombstone(At(s, pos))
               PROVE  /\ At(s, pos).entity \in E
                      /\ t.sparse[At(s, pos).entity] = [entity |-> pos, version |-> At(s, pos).version]
    BY <1>9, <1>10 DEF PackedLinked
  <2>1. /\ At(s, pos).entity \in D
        /\ s.sparse[At(s, pos).entity] = [entity |-> pos, version |-> At(s, pos).version]
    BY <1>1 DEF Sound, PackedLinked
  <2>2. At(s, pos) \in Elements(s)
    <3>1. pos + 1 \in 1 .. Len(s.packed)
      BY <1>2 DEF Positions, Size
    <3> QED BY <3>1 DEF Elements, ToSet, At
  <2>3. At(s, pos).entity \in E
    BY <2>1, <2>2, <1>1
  <2> QED BY <2>1, <2>3, <1>11
<1>13. SparseLinked(t)
  BY <1>1, <1>9, <1>10, <1>11 DEF Sound, SparseLinked
<1>14. ListSound(t) /\ HeadSound(t)
  BY <1>8, <1>10 DEF Sound, ListSound, HeadSound, Hole
<1>15. NullWhole(t)
  BY <1>1, <1>8, <1>9, <1>10 DEF Sound, NullWhole
<1> QED BY <1>8, <1>9, <1>10, <1>12, <1>13, <1>14, <1>15 DEF Sound

(* A new set, or one moved from, is sound and empty.                       *)
LEMMA EmptySound ==
  ASSUME NEW mode \in Modes, NEW t, t = EmptySet(mode)
  PROVE  Sound(t) /\ t.mode = mode /\ Size(t) = 0
<1>1. PICK h : h = PolicyToHead(mode)
  OBVIOUS
<1>2. h \in Nat
  BY <1>1, EntityMaskAssumption DEF PolicyToHead
<1>3. t = [sparse |-> NoPages, extent |-> 0, packed |-> << >>, mode |-> mode, head |-> h]
  BY <1>1 DEF EmptySet
<1>4. NoPages \in [{} -> Identifiers] /\ << >> \in Seq(Identifiers) /\ Len(<< >>) = 0
  BY DEF NoPages
<1>5. t \in SetsOver({})
  BY <1>2, <1>3, <1>4 DEF SetsOver
<1>6. Allocated(t) = {}
  BY <1>5, AllocatedIs
<1>7. Size(t) = 0 /\ Positions(t) = {}
  BY <1>3, <1>4 DEF Size, Positions
<1>8. PackedLinked(t) /\ SparseLinked(t)
  BY <1>6, <1>7 DEF PackedLinked, SparseLinked
<1>9. ListSound(t) /\ HeadSound(t)
  BY <1>1, <1>3, <1>7 DEF ListSound, HeadSound, PolicyToHead
<1>10. Size(t) <= EntityMask /\ t.mode = mode
  BY <1>3, <1>7, EntityMaskAssumption
<1>11. NullWhole(t)
  BY <1>6 DEF NullWhole
<1> QED BY <1>5, <1>6, <1>7, <1>8, <1>9, <1>10, <1>11 DEF Sound

-------------------------------------------------------------------------------
(* The elements in use.                                                    *)

(* The position holds an element that is in use.                           *)
Used(s, p) ==
  /\ p \in Positions(s)
  /\ ~ IsTombstone(At(s, p))
  /\ s.mode = "swap_only" => p < s.head

(* An identifier is in use exactly if a used position holds it.            *)
LEMMA UseIs ==
  ASSUME NEW s, Sound(s), NEW id
  PROVE  id \in InUse(s) <=> \E p \in Positions(s) : Used(s, p) /\ At(s, p) = id
<1>1. s \in SetsOver(Allocated(s)) /\ Positions(s) = 0 .. Size(s) - 1 /\ Size(s) \in Nat /\ s.head \in Nat
  BY PositionsFit
<1>2. CASE s.mode = "swap_only"
  <2>1. s.head <= Size(s) /\ \A p \in Positions(s) : ~ IsTombstone(At(s, p))
    BY <1>2 DEF Sound, HeadSound
  <2>2. \A p : Used(s, p) <=> p \in 0 .. s.head - 1
    BY <1>1, <1>2, <2>1 DEF Used
  <2>3. 0 .. s.head - 1 \subseteq Positions(s)
    BY <1>1, <2>1
  <2> QED BY <1>2, <2>2, <2>3 DEF InUse
<1>3. CASE s.mode # "swap_only"
  <2>1. InUse(s) = Elements(s)
    BY <1>3 DEF InUse
  <2>2. Size(s) = Len(s.packed) /\ s.packed \in Seq(Identifiers)
    BY <1>1 DEF Size, SetsOver
  <2>3. id \in ToSet(s.packed) <=> \E p \in Positions(s) : At(s, p) = id
    <3>1. ASSUME id \in ToSet(s.packed) PROVE \E p \in Positions(s) : At(s, p) = id
      <4>1. PICK n \in 1 .. Len(s.packed) : s.packed[n] = id
        BY <2>2, <3>1 DEF ToSet
      <4>2. n - 1 \in Positions(s) /\ (n - 1) + 1 = n
        BY <1>1, <2>2
      <4> QED BY <4>1, <4>2 DEF At
    <3>2. ASSUME NEW p \in Positions(s), At(s, p) = id PROVE id \in ToSet(s.packed)
      <4>1. p + 1 \in 1 .. Len(s.packed)
        BY <1>1, <2>2
      <4> QED BY <2>2, <3>2, <4>1 DEF At, ToSet
    <3> QED BY <3>1, <3>2
  <2> QED BY <1>3, <2>1, <2>3 DEF Elements, Used
<1> QED BY <1>2, <1>3

(* No entity has two live positions.                                       *)
LEMMA OneEach ==
  ASSUME NEW s, Sound(s), NEW p \in Positions(s), NEW q \in Positions(s),
         ~ IsTombstone(At(s, p)), ~ IsTombstone(At(s, q)), At(s, p).entity = At(s, q).entity
  PROVE  p = q
<1>1. s.sparse[At(s, p).entity] = [entity |-> p, version |-> At(s, p).version]
  BY DEF Sound, PackedLinked
<1>2. s.sparse[At(s, q).entity] = [entity |-> q, version |-> At(s, q).version]
  BY DEF Sound, PackedLinked
<1> QED BY <1>1, <1>2

(* In a sound set contains() answers whether a valid identifier is in use. *)
LEMMA ContainsIsUse ==
  ASSUME NEW s, Sound(s), NEW id \in ValidIdentifiers
  PROVE  id \in InUse(s) <=> SetContains(s, id) /\ (s.mode = "swap_only" => Index(s, id) < s.head)
<1>1. ASSUME id \in InUse(s)
      PROVE  SetContains(s, id) /\ (s.mode = "swap_only" => Index(s, id) < s.head)
  <2>1. PICK p \in Positions(s) : Used(s, p) /\ At(s, p) = id
    BY <1>1, UseIs
  <2>2. id.entity \in Allocated(s) /\ s.sparse[id.entity] = [entity |-> p, version |-> id.version]
    BY <2>1 DEF Used, Sound, PackedLinked
  <2>3. p < EntityMask
    BY PositionsFit, EntityMaskAssumption
  <2> QED BY <2>1, <2>2, <2>3 DEF SetContains, Index, Elem, Used
<1>2. ASSUME SetContains(s, id), s.mode = "swap_only" => Index(s, id) < s.head
      PROVE  id \in InUse(s)
  <2>1. PICK p : p = s.sparse[id.entity].entity
    OBVIOUS
  <2>2. /\ id.entity \in Allocated(s) /\ p # EntityMask
        /\ s.sparse[id.entity].version = id.version
        /\ s.mode = "swap_only" => p < s.head
    BY <1>2, <2>1, EntityMaskAssumption DEF SetContains, Index, Elem
  <2>3. p \in Positions(s) /\ At(s, p) = [entity |-> id.entity, version |-> id.version]
    BY <2>1, <2>2 DEF Sound, SparseLinked
  <2>4. At(s, p) = id /\ ~ IsTombstone(id)
    BY <2>3, VersionMaskAssumption DEF ValidIdentifiers, IsTombstone
  <2>5. Used(s, p)
    BY <2>2, <2>3, <2>4 DEF Used
  <2> QED BY <2>3, <2>4, <2>5, UseIs
<1> QED BY <1>1, <1>2

(* The elements in use depend on the packed array, the policy and the      *)
(* head.                                                                   *)
LEMMA SameUse ==
  ASSUME NEW s, Sound(s), NEW t, Sound(t), t.mode = s.mode, t.head = s.head, t.packed = s.packed
  PROVE  InUse(t) = InUse(s)
<1>1. Positions(t) = Positions(s) /\ \A p : At(t, p) = At(s, p)
  BY SamePacked
<1>2. \A p : Used(t, p) <=> Used(s, p)
  BY <1>1 DEF Used
<1>3. \A id : id \in InUse(t) <=> id \in InUse(s)
  BY <1>1, <1>2, UseIs
<1> QED BY <1>3

(* swap_at of two used positions keeps the elements in use.                *)
LEMMA SwapAtUse ==
  ASSUME NEW s, Sound(s), NEW lhs \in Positions(s), NEW rhs \in Positions(s),
         Used(s, lhs), Used(s, rhs),
         NEW t, t = SwapAt(s, lhs, rhs)
  PROVE  Sound(t) /\ t.mode = s.mode /\ InUse(t) = InUse(s)
<1>1. ~ IsTombstone(At(s, lhs)) /\ ~ IsTombstone(At(s, rhs))
  BY DEF Used
<1>2. /\ Sound(t)
      /\ t.mode = s.mode /\ t.head = s.head /\ Size(t) = Size(s) /\ Positions(t) = Positions(s)
      /\ \A p \in Positions(s) :
           At(t, p) = IF p = rhs THEN At(s, lhs) ELSE IF p = lhs THEN At(s, rhs) ELSE At(s, p)
  BY <1>1, SwapAtSound
<1>3. \A p \in Positions(s) : Used(t, p) <=> Used(s, p)
  BY <1>1, <1>2 DEF Used
<1>4. ASSUME NEW id PROVE id \in InUse(t) <=> id \in InUse(s)
  <2>1. ASSUME id \in InUse(t) PROVE id \in InUse(s)
    <3>1. PICK p \in Positions(s) : Used(s, p) /\ At(t, p) = id
      BY <2>1, <1>2, <1>3, UseIs
    <3>2. \E q \in Positions(s) : Used(s, q) /\ At(s, q) = id
      BY <3>1, <1>2
    <3> QED BY <3>2, UseIs
  <2>2. ASSUME id \in InUse(s) PROVE id \in InUse(t)
    <3>1. PICK p \in Positions(s) : Used(s, p) /\ At(s, p) = id
      BY <2>2, UseIs
    <3>2. \E q \in Positions(s) : Used(s, q) /\ At(t, q) = id
      <4>1. CASE p = lhs
        BY <4>1, <3>1, <1>2
      <4>2. CASE p = rhs
        BY <4>2, <3>1, <1>2
      <4>3. CASE p # lhs /\ p # rhs
        BY <4>3, <3>1, <1>2
      <4> QED BY <4>1, <4>2, <4>3
    <3> QED BY <3>2, <1>2, <1>3, UseIs
  <2> QED BY <2>1, <2>2
<1> QED BY <1>2, <1>4

(* The sparse array locates every element in use.                          *)
LEMMA WhereUsed ==
  ASSUME NEW s, Sound(s), NEW id \in InUse(s), NEW pos, pos = Elem(s, id).entity
  PROVE  /\ pos \in Positions(s) /\ At(s, pos) = id /\ Used(s, pos)
         /\ id \in Identifiers /\ ~ IsTombstone(id)
         /\ id.entity \in Allocated(s) /\ ~ IsNull(Elem(s, id))
<1>1. PICK p \in Positions(s) : Used(s, p) /\ At(s, p) = id
  BY UseIs
<1>2. id.entity \in Allocated(s) /\ s.sparse[id.entity] = [entity |-> p, version |-> id.version]
  BY <1>1 DEF Used, Sound, PackedLinked
<1>3. pos = p
  BY <1>2 DEF Elem
<1>4. p # EntityMask /\ id \in Identifiers
  BY <1>1, PositionsFit, EntityMaskAssumption
<1> QED BY <1>1, <1>2, <1>3, <1>4 DEF IsNull, Elem, Used

(* swap_elements keeps the elements in use.                                *)
LEMMA SwapElementsUse ==
  ASSUME NEW s, Sound(s), NEW lhs \in InUse(s), NEW rhs \in InUse(s),
         NEW t, t = SwapElements(s, lhs, rhs)
  PROVE  Sound(t) /\ t.mode = s.mode /\ InUse(t) = InUse(s)
<1>1. PICK p, q : p = Elem(s, lhs).entity /\ q = Elem(s, rhs).entity
  OBVIOUS
<1>2. p \in Positions(s) /\ Used(s, p)
  BY <1>1, WhereUsed
<1>3. q \in Positions(s) /\ Used(s, q)
  BY <1>1, WhereUsed
<1>4. t = SwapAt(s, p, q)
  BY <1>1 DEF SwapElements, Index
<1> QED BY <1>2, <1>3, <1>4, SwapAtUse

(* bump replaces one element in use by the same entity with the new        *)
(* version.                                                                *)
LEMMA BumpUse ==
  ASSUME NEW s, Sound(s), NEW old \in InUse(s), NEW id \in Identifiers, ~ IsTombstone(id),
         id.entity = old.entity, NEW t, t = Bump(s, id)
  PROVE  Sound(t) /\ t.mode = s.mode /\ InUse(t) = (InUse(s) \ {old}) \cup {id}
<1>1. PICK pos : pos = Elem(s, old).entity
  OBVIOUS
<1>2. /\ pos \in Positions(s) /\ At(s, pos) = old /\ Used(s, pos)
      /\ old.entity \in Allocated(s) /\ ~ IsNull(Elem(s, old)) /\ ~ IsTombstone(old)
  BY <1>1, WhereUsed
<1>3. Elem(s, id) = Elem(s, old)
  BY DEF Elem
<1>4. /\ Sound(t)
      /\ t.mode = s.mode /\ t.head = s.head /\ Size(t) = Size(s) /\ Positions(t) = Positions(s)
      /\ \A p \in Positions(s) : At(t, p) = IF p = pos THEN id ELSE At(s, p)
  BY <1>1, <1>2, <1>3, BumpSound
<1>5. \A p \in Positions(s) : Used(t, p) <=> Used(s, p)
  BY <1>2, <1>4 DEF Used
<1>6. \A p \in Positions(s) : Used(s, p) /\ p # pos => At(s, p) # old
  BY <1>2, OneEach DEF Used
<1>7. \A x : x \in InUse(t) <=> \E p \in Positions(s) : Used(s, p) /\ At(t, p) = x
  BY <1>4, <1>5, UseIs
<1>8. \A x : x \in InUse(s) <=> \E p \in Positions(s) : Used(s, p) /\ At(s, p) = x
  BY UseIs
<1>9. ASSUME NEW x PROVE x \in InUse(t) <=> (x \in InUse(s) /\ x # old) \/ x = id
  BY <1>2, <1>4, <1>6, <1>7, <1>8
<1> QED BY <1>4, <1>9

(* Appending adds one to the size.                                         *)
LEMMA PushBackGrows ==
  ASSUME NEW s, Sound(s), NEW id \in Identifiers, id.entity \in Allocated(s),
         NEW t, t = PushBack(s, id)
  PROVE  Size(t) = Size(s) + 1 /\ Size(s) \in 0 .. EntityMask
<1>1. PICK D, n : D = Allocated(s) /\ n = Size(s)
  OBVIOUS
<1>2. s \in SetsOver(Allocated(s)) /\ Size(s) \in Nat /\ Size(s) <= EntityMask
  BY PositionsFit DEF Sound
<1>3. s \in SetsOver(D) /\ n \in 0 .. EntityMask /\ id.entity \in D
  BY <1>1, <1>2, EntityMaskAssumption
<1>4. /\ Size(t) = n + 1 /\ Positions(t) = 0 .. n /\ t \in SetsOver(D)
      /\ t.sparse[id.entity] = [entity |-> n, version |-> id.version]
  BY <1>1, <1>3, PushBackFacts
<1> QED BY <1>1, <1>3, <1>4

(* Appending adds one element to those in use.                             *)
LEMMA PushBackUse ==
  ASSUME NEW s, Sound(s), NEW id \in ValidIdentifiers, s.mode # "swap_only",
         id.entity \in Allocated(s), IsNull(Elem(s, id)),
         NEW t, t = PushBack(s, id),
         NEW bound \in 0 .. EntityMask, Size(t) <= bound
  PROVE  Sound(t) /\ t.mode = s.mode /\ InUse(t) = InUse(s) \cup {id}
<1>1. id \in Identifiers /\ ~ IsTombstone(id)
  BY EntityMaskAssumption, VersionMaskAssumption
     DEF ValidIdentifiers, Identifiers, EntityParts, VersionParts, IsTombstone
<1>2. Size(s) < EntityMask
  <2>1. Size(t) = Size(s) + 1 /\ Size(s) \in 0 .. EntityMask
    BY <1>1, PushBackGrows
  <2> QED BY <2>1, EntityMaskAssumption
<1>3. PICK n : n = Size(s)
  OBVIOUS
<1>4. /\ Sound(t) /\ t.mode = s.mode /\ t.head = s.head
      /\ Size(t) = n + 1 /\ At(t, n) = id
      /\ \A p \in Positions(s) : At(t, p) = At(s, p)
  BY <1>1, <1>2, <1>3, PushBackSound
<1>5. Positions(s) = 0 .. n - 1 /\ n \in Nat /\ Positions(t) = 0 .. Size(t) - 1
  BY <1>3, <1>4, PositionsFit
<1>6. \A p : p \in Positions(t) <=> p \in Positions(s) \/ p = n
  BY <1>4, <1>5
<1>7. \A p : Used(t, p) <=> Used(s, p) \/ p = n
  BY <1>1, <1>4, <1>6 DEF Used
<1>8. \A x : x \in InUse(t) <=> \E p \in Positions(t) : Used(t, p) /\ At(t, p) = x
  BY <1>4, UseIs
<1>9. \A x : x \in InUse(s) <=> \E p \in Positions(s) : Used(s, p) /\ At(s, p) = x
  BY UseIs
<1>10. ASSUME NEW x PROVE x \in InUse(t) <=> x \in InUse(s) \/ x = id
  BY <1>4, <1>6, <1>7, <1>8, <1>9 DEF Used
<1> QED BY <1>4, <1>10

(* Emplacing in a hole adds one element to those in use.                   *)
LEMMA EmplaceInPlaceUse ==
  ASSUME NEW s, Sound(s), s.mode = "in_place", s.head # EntityMask, NEW id \in ValidIdentifiers,
         id.entity \in Allocated(s), IsNull(Elem(s, id)),
         NEW t, t = EmplaceInPlace(s, id)
  PROVE  Sound(t) /\ t.mode = s.mode /\ InUse(t) = InUse(s) \cup {id}
<1>1. id \in Identifiers /\ ~ IsTombstone(id)
  BY EntityMaskAssumption, VersionMaskAssumption
     DEF ValidIdentifiers, Identifiers, EntityParts, VersionParts, IsTombstone
<1>2. PICK h : h = s.head
  OBVIOUS
<1>3. /\ Sound(t) /\ t.mode = s.mode /\ Positions(t) = Positions(s)
      /\ Hole(s, h)
      /\ \A p \in Positions(s) : At(t, p) = IF p = h THEN id ELSE At(s, p)
  BY <1>1, <1>2, EmplaceInPlaceSound
<1>4. \A p \in Positions(s) : Used(t, p) <=> Used(s, p) \/ p = h
  BY <1>1, <1>3 DEF Used
<1>5. h \in Positions(s) /\ ~ Used(s, h)
  BY <1>3 DEF Hole, Used
<1>6. \A x : x \in InUse(t) <=> \E p \in Positions(s) : Used(t, p) /\ At(t, p) = x
  BY <1>3, UseIs
<1>7. \A x : x \in InUse(s) <=> \E p \in Positions(s) : Used(s, p) /\ At(s, p) = x
  BY UseIs
<1>8. ASSUME NEW x PROVE x \in InUse(t) <=> x \in InUse(s) \/ x = id
  BY <1>3, <1>4, <1>5, <1>6, <1>7
<1> QED BY <1>3, <1>8

(* With the swap-only policy the element at pos, at or after the head,     *)
(* becomes the last one in use.                                            *)
LEMMA PromoteUse ==
  ASSUME NEW s, Sound(s), s.mode = "swap_only", NEW pos \in Positions(s), s.head <= pos,
         NEW id, At(s, pos) = id,
         NEW t, t = SwapAt([s EXCEPT !.head = s.head + 1], pos, s.head)
  PROVE  Sound(t) /\ t.mode = s.mode /\ InUse(t) = InUse(s) \cup {id}
<1>1. PICK n, head, u :
        n = Size(s) /\ head = s.head /\ u = [s EXCEPT !.head = s.head + 1]
  OBVIOUS
<1>2. head \in Nat /\ n \in Nat /\ Positions(s) = 0 .. n - 1
  BY <1>1, PositionsFit
<1>3. head \in Positions(s) /\ head + 1 \in 0 .. n
  BY <1>1, <1>2
<1>4. \A p \in Positions(s) : ~ IsTombstone(At(s, p))
  BY DEF Sound, HeadSound
<1>5. /\ Sound(u) /\ u.mode = s.mode /\ u.head = head + 1
      /\ Positions(u) = Positions(s) /\ \A p : At(u, p) = At(s, p)
  BY <1>1, <1>3, HeadChangeSound
<1>6. /\ Sound(t) /\ t.mode = s.mode /\ t.head = head + 1 /\ Positions(t) = Positions(s)
      /\ \A p \in Positions(s) :
           At(t, p) = IF p = head THEN At(s, pos) ELSE IF p = pos THEN At(s, head) ELSE At(s, p)
  <2>1. /\ pos \in Positions(u) /\ head \in Positions(u)
        /\ ~ IsTombstone(At(u, pos)) /\ ~ IsTombstone(At(u, head))
    BY <1>3, <1>4, <1>5
  <2>2. /\ Sound(t) /\ t.mode = u.mode /\ t.head = u.head /\ Positions(t) = Positions(u)
        /\ \A p \in Positions(u) :
             At(t, p) = IF p = head THEN At(u, pos) ELSE IF p = pos THEN At(u, head) ELSE At(u, p)
    <3>1. Sound(u) /\ t = SwapAt(u, pos, head)
      BY <1>1, <1>5
    <3> QED BY SMTT(60), <2>1, <3>1, SwapAtSound
  <2> QED BY <1>5, <2>2
<1>7. \A p \in Positions(s) : Used(s, p) <=> p < head
  BY <1>1, <1>4 DEF Used
<1>8. \A p \in Positions(s) : Used(t, p) <=> p < head \/ p = head
  <2>1. \A p \in Positions(t) : ~ IsTombstone(At(t, p))
    BY <1>6 DEF Sound, HeadSound
  <2>2. \A p \in Positions(s) : p < head + 1 <=> p < head \/ p = head
    BY <1>2
  <2> QED BY <1>6, <2>1, <2>2 DEF Used
<1>9. \A p \in Positions(s) : p < head => At(t, p) = At(s, p)
  BY <1>1, <1>2, <1>6
<1>10. At(t, head) = id
  BY <1>3, <1>6
<1>11. \A x : x \in InUse(t) <=> \E p \in Positions(s) : Used(t, p) /\ At(t, p) = x
  BY <1>6, UseIs
<1>12. \A x : x \in InUse(s) <=> \E p \in Positions(s) : Used(s, p) /\ At(s, p) = x
  BY UseIs
<1>13. ASSUME NEW x PROVE x \in InUse(t) <=> x \in InUse(s) \/ x = id
  BY <1>3, <1>7, <1>8, <1>9, <1>10, <1>11, <1>12
<1> QED BY <1>6, <1>13

(* With the swap-only policy an insertion adds one element to those in     *)
(* use, whether its entity is new or recycled.                             *)
LEMMA EmplaceSwapOnlyUse ==
  ASSUME NEW s, Sound(s), s.mode = "swap_only", NEW id \in ValidIdentifiers,
         id.entity \in Allocated(s), IsNull(Elem(s, id)) \/ Elem(s, id).entity >= s.head,
         NEW t, t = EmplaceSwapOnly(s, id),
         NEW bound \in 0 .. EntityMask, Size(t) <= bound
  PROVE  Sound(t) /\ t.mode = s.mode /\ InUse(t) = InUse(s) \cup {id}
<1>1. id \in Identifiers /\ ~ IsTombstone(id)
  BY EntityMaskAssumption, VersionMaskAssumption
     DEF ValidIdentifiers, Identifiers, EntityParts, VersionParts, IsTombstone
<1>2. PICK s1 : s1 = IF IsNull(Elem(s, id)) THEN PushBack(s, id) ELSE Bump(s, id)
  OBVIOUS
<1>3. PICK head, pos : head = s.head /\ pos = Elem(s1, id).entity
  OBVIOUS
<1>4. /\ Sound(s1) /\ s1.mode = s.mode /\ s1.head = head
      /\ pos \in Positions(s1) /\ head <= pos /\ At(s1, pos) = id
      /\ InUse(s1) = InUse(s)
  <2>1. CASE IsNull(Elem(s, id))
    <3>1. PICK D, n : D = Allocated(s) /\ n = Size(s)
      OBVIOUS
    <3>2. /\ s \in SetsOver(D) /\ n \in 0 .. EntityMask /\ id.entity \in D /\ head <= n
          /\ Positions(s) = 0 .. n - 1 /\ head \in Nat
      BY <1>3, <3>1, PositionsFit, EntityMaskAssumption DEF Sound, HeadSound
    <3>3. s1 = PushBack(s, id)
      BY <1>2, <2>1
    <3>4. /\ Size(s1) = n + 1 /\ Positions(s1) = 0 .. n /\ s1 \in SetsOver(D)
          /\ s1.sparse[id.entity] = [entity |-> n, version |-> id.version]
      BY <1>1, <3>1, <3>2, <3>3, PushBackFacts
    <3>5. n < EntityMask
      <4>1. Size(t) = Size(s1)
        BY <1>2 DEF EmplaceSwapOnly, SwapAt, SetPacked, SetSparse, Size, At
      <4> QED BY <3>2, <3>4, <4>1, EntityMaskAssumption
    <3>6. /\ Sound(s1) /\ s1.mode = s.mode /\ s1.head = s.head
          /\ At(s1, n) = id /\ \A p \in Positions(s) : At(s1, p) = At(s, p)
      BY <1>1, <2>1, <3>1, <3>3, <3>5, PushBackSound
    <3>7. pos = n
      BY <1>3, <3>4 DEF Elem
    <3>8. /\ InUse(s) = {At(s, p) : p \in 0 .. head - 1}
          /\ InUse(s1) = {At(s1, p) : p \in 0 .. head - 1}
      BY <1>3, <3>6 DEF InUse
    <3>9. 0 .. head - 1 \subseteq Positions(s)
      BY <3>2
    <3>10. InUse(s1) = InUse(s)
      BY <3>6, <3>8, <3>9
    <3> QED BY <1>3, <3>2, <3>4, <3>6, <3>7, <3>10
  <2>2. CASE ~ IsNull(Elem(s, id))
    <3>1. s1 = Bump(s, id)
      BY <1>2, <2>2
    <3>2. PICK q : q = Elem(s, id).entity
      OBVIOUS
    <3>3. /\ Sound(s1) /\ q \in Positions(s)
          /\ s1.mode = s.mode /\ s1.head = s.head /\ Positions(s1) = Positions(s)
          /\ \A p \in Positions(s) : At(s1, p) = IF p = q THEN id ELSE At(s, p)
          /\ Elem(s1, id).entity = q
      BY <1>1, <2>2, <3>1, <3>2, BumpSound
    <3>4. q >= head /\ head \in Nat /\ Positions(s) = 0 .. Size(s) - 1 /\ Size(s) \in Nat
      BY <1>3, <2>2, <3>2, PositionsFit
    <3>5. /\ InUse(s) = {At(s, p) : p \in 0 .. head - 1}
          /\ InUse(s1) = {At(s1, p) : p \in 0 .. head - 1}
      BY <1>3, <3>3 DEF InUse
    <3>6. \A p \in 0 .. head - 1 : p \in Positions(s) /\ p # q
      BY <3>3, <3>4
    <3>7. InUse(s1) = InUse(s)
      BY <3>3, <3>5, <3>6
    <3>8. head <= q
      BY <3>3, <3>4
    <3> QED BY <1>3, <3>3, <3>7, <3>8
  <2> QED BY <2>1, <2>2
<1>5. t = SwapAt([s1 EXCEPT !.head = s1.head + 1], pos, s1.head)
  BY <1>2, <1>3 DEF EmplaceSwapOnly
<1>6. Sound(t) /\ t.mode = s1.mode /\ InUse(t) = InUse(s1) \cup {id}
  <2>1. s1.head <= pos /\ s1.mode = "swap_only"
    BY <1>4
  <2> QED BY <1>4, <1>5, <2>1, PromoteUse
<1> QED BY <1>4, <1>6

(* try_emplace adds exactly its identifier to the elements in use, with    *)
(* every policy and whether or not it must push back.                      *)
LEMMA TryEmplaceUse ==
  ASSUME NEW s, Sound(s), NEW id \in ValidIdentifiers, CanEmplace(s, id),
         NEW forceBack \in BOOLEAN,
         NEW t, t = TryEmplace(s, id, forceBack),
         NEW bound \in 0 .. EntityMask, Size(t) <= bound
  PROVE  Sound(t) /\ t.mode = s.mode /\ InUse(t) = InUse(s) \cup {id}
<1>1. PICK u : u = AssureAtLeast(s, id)
  OBVIOUS
<1>2. id \in Identifiers
  BY EntityMaskAssumption, VersionMaskAssumption
     DEF ValidIdentifiers, Identifiers, EntityParts, VersionParts
<1>3. /\ Sound(u) /\ id.entity \in Allocated(u)
      /\ u.mode = s.mode /\ u.head = s.head /\ u.packed = s.packed
      /\ id.entity \in Allocated(s) => Elem(u, id) = Elem(s, id)
      /\ id.entity \notin Allocated(s) => Elem(u, id) = Null
  BY <1>1, <1>2, AssureSound
<1>4. IsNull(Elem(u, id)) \/ (s.mode = "swap_only" /\ Elem(u, id).entity >= u.head)
  BY <1>3 DEF CanEmplace, IsNull, Null
<1>5. InUse(u) = InUse(s)
  BY <1>3, SameUse
<1>6. Sound(t) /\ t.mode = u.mode /\ InUse(t) = InUse(u) \cup {id}
  <2>1. CASE s.mode = "swap_only"
    <3>1. t = EmplaceSwapOnly(u, id)
      BY <2>1, <1>1 DEF TryEmplace
    <3> QED BY <2>1, <3>1, <1>3, <1>4, EmplaceSwapOnlyUse
  <2>2. CASE s.mode = "in_place" /\ s.head # EntityMask /\ ~ forceBack
    <3>1. t = EmplaceInPlace(u, id)
      BY <2>2, <1>1 DEF TryEmplace
    <3> QED BY <2>2, <3>1, <1>3, <1>4, EmplaceInPlaceUse
  <2>3. CASE s.mode # "swap_only" /\ ~ (s.mode = "in_place" /\ s.head # EntityMask /\ ~ forceBack)
    <3>1. t = PushBack(u, id)
      BY <2>3, <1>1 DEF TryEmplace
    <3> QED BY <2>3, <3>1, <1>3, <1>4, PushBackUse
  <2> QED BY <2>1, <2>2, <2>3
<1> QED BY <1>3, <1>5, <1>6

(* next() keeps the entity and never yields the tombstone version.         *)
LEMMA NextValid ==
  ASSUME NEW id \in Identifiers
  PROVE  /\ NextVersion(id) \in Identifiers /\ ~ IsTombstone(NextVersion(id))
         /\ NextVersion(id).entity = id.entity
<1>1. PICK v : v = id.version + 1 + (IF id.version + 1 = VersionMask THEN 1 ELSE 0)
  OBVIOUS
<1>2. id.version \in 0 .. VersionMask /\ id.entity \in 0 .. EntityMask
  BY DEF Identifiers, EntityParts, VersionParts
<1>3. id.entity % (EntityMask + 1) = id.entity
  BY <1>2, MaskIdentity
<1>4. v % (VersionMask + 1) \in 0 .. VersionMask - 1
  <2>1. CASE id.version + 1 = VersionMask
    <3>1. v = VersionMask + 1
      BY <2>1, <1>1, VersionMaskAssumption
    <3> QED BY <3>1, VersionMaskAssumption
  <2>2. CASE id.version = VersionMask
    <3>1. v = VersionMask + 1
      BY <2>2, <1>1, VersionMaskAssumption
    <3> QED BY <3>1, VersionMaskAssumption
  <2>3. CASE id.version + 1 # VersionMask /\ id.version # VersionMask
    <3>1. v \in 0 .. VersionMask - 1
      BY <2>3, <1>1, <1>2, VersionMaskAssumption
    <3>2. v % (VersionMask + 1) = v
      BY <3>1, VersionMaskAssumption
    <3> QED BY <3>1, <3>2
  <2> QED BY <2>1, <2>2, <2>3
<1>5. NextVersion(id) = [entity |-> id.entity, version |-> v % (VersionMask + 1)]
  BY <1>1, <1>3 DEF NextVersion, Construct
<1> QED BY <1>2, <1>4, <1>5, VersionMaskAssumption
        DEF Identifiers, EntityParts, VersionParts, IsTombstone

(* swap_and_pop removes exactly its identifier from the elements in use.   *)
LEMMA SwapAndPopUse ==
  ASSUME NEW s, Sound(s), s.mode = "swap_and_pop", NEW id \in InUse(s),
         NEW t, t = SwapAndPop(s, id)
  PROVE  Sound(t) /\ t.mode = s.mode /\ InUse(t) = InUse(s) \ {id}
<1>1. PICK pos, n : pos = Elem(s, id).entity /\ n = Size(s) - 1
  OBVIOUS
<1>2. /\ pos \in Positions(s) /\ At(s, pos) = id /\ Used(s, pos)
      /\ id \in Identifiers /\ ~ IsTombstone(id)
      /\ id.entity \in Allocated(s) /\ ~ IsNull(Elem(s, id))
  BY <1>1, WhereUsed
<1>3. /\ Sound(t) /\ t.mode = s.mode /\ Size(t) = n
      /\ \A p \in Positions(t) :
           p \in Positions(s) /\ At(t, p) = IF p = pos THEN At(s, n) ELSE At(s, p)
  BY <1>1, <1>2, SwapAndPopSound
<1>4. /\ Positions(t) = 0 .. n - 1 /\ Positions(s) = 0 .. n /\ n \in Nat
  <2>1. Positions(t) = 0 .. Size(t) - 1
    BY <1>3, PositionsFit
  <2>2. Positions(s) = 0 .. Size(s) - 1 /\ Size(s) \in Nat
    BY PositionsFit
  <2> QED BY <2>1, <2>2, <1>1, <1>2, <1>3
<1>5. \A p \in Positions(s) : ~ IsTombstone(At(s, p)) /\ Used(s, p)
  BY DEF Sound, HeadSound, Used
<1>6. \A p \in Positions(t) : ~ IsTombstone(At(t, p)) /\ Used(t, p)
  BY <1>3 DEF Sound, HeadSound, Used
<1>7. \A p \in Positions(s) : p # pos => At(s, p) # id
  BY <1>2, <1>5, OneEach
<1>8. \A x : x \in InUse(t) <=> \E p \in Positions(t) : At(t, p) = x
  BY <1>3, <1>6, UseIs
<1>9. \A x : x \in InUse(s) <=> \E p \in Positions(s) : At(s, p) = x
  BY <1>5, UseIs
<1>10. ASSUME NEW x, x \in InUse(t) PROVE x \in InUse(s) /\ x # id
  <2>1. PICK p \in Positions(t) : At(t, p) = x
    BY <1>8, <1>10
  <2>2. \E q \in Positions(s) : q # pos /\ At(s, q) = x
    <3>1. CASE p = pos
      <4>1. n \in Positions(s) /\ n # pos /\ At(s, n) = x
        BY <3>1, <2>1, <1>3, <1>4
      <4> QED BY <4>1
    <3>2. CASE p # pos
      BY <3>2, <2>1, <1>3
    <3> QED BY <3>1, <3>2
  <2> QED BY <2>2, <1>7, <1>9
<1>11. ASSUME NEW x, x \in InUse(s), x # id PROVE x \in InUse(t)
  <2>1. PICK p \in Positions(s) : At(s, p) = x
    BY <1>9, <1>11
  <2>2. p # pos
    BY <2>1, <1>2, <1>11
  <2>3. \E q \in Positions(t) : At(t, q) = x
    <3>1. CASE p = n
      <4>1. pos \in Positions(t) /\ At(t, pos) = x
        BY <3>1, <2>1, <2>2, <1>2, <1>3, <1>4
      <4> QED BY <4>1
    <3>2. CASE p # n
      <4>1. p \in Positions(t) /\ At(t, p) = x
        BY <3>2, <2>1, <2>2, <1>3, <1>4
      <4> QED BY <4>1
    <3> QED BY <3>1, <3>2
  <2> QED BY <2>3, <1>8
<1> QED BY <1>3, <1>10, <1>11

(* in_place_pop removes exactly its identifier from the elements in use.   *)
LEMMA InPlacePopUse ==
  ASSUME NEW s, Sound(s), s.mode = "in_place", NEW id \in InUse(s),
         NEW t, t = InPlacePop(s, id)
  PROVE  Sound(t) /\ t.mode = s.mode /\ InUse(t) = InUse(s) \ {id}
<1>1. PICK pos : pos = Elem(s, id).entity
  OBVIOUS
<1>2. /\ pos \in Positions(s) /\ At(s, pos) = id /\ Used(s, pos)
      /\ id \in Identifiers /\ id.entity \in Allocated(s) /\ ~ IsNull(Elem(s, id))
  BY <1>1, WhereUsed
<1>3. /\ Sound(t) /\ t.mode = s.mode /\ Positions(t) = Positions(s)
      /\ IsTombstone(At(t, pos))
      /\ \A p \in Positions(s) : p # pos => At(t, p) = At(s, p)
  BY <1>1, <1>2, InPlacePopSound
<1>4. \A p \in Positions(s) : Used(t, p) <=> Used(s, p) /\ p # pos
  BY <1>3 DEF Used
<1>5. \A p \in Positions(s) : Used(s, p) /\ p # pos => At(s, p) # id
  BY <1>2, OneEach DEF Used
<1>6. \A x : x \in InUse(t) <=> \E p \in Positions(s) : Used(t, p) /\ At(t, p) = x
  BY <1>3, UseIs
<1>7. \A x : x \in InUse(s) <=> \E p \in Positions(s) : Used(s, p) /\ At(s, p) = x
  BY UseIs
<1>8. ASSUME NEW x PROVE x \in InUse(t) <=> x \in InUse(s) /\ x # id
  BY <1>2, <1>3, <1>4, <1>5, <1>6, <1>7
<1> QED BY <1>3, <1>8

(* With the swap-only policy the element at pos, before the head, becomes  *)
(* the first one that is not in use.                                       *)
LEMMA DemoteUse ==
  ASSUME NEW s, Sound(s), s.mode = "swap_only", NEW pos \in Positions(s), pos < s.head,
         NEW id, At(s, pos) = id,
         NEW t, t = SwapAt([s EXCEPT !.head = s.head - 1], pos, s.head - 1)
  PROVE  Sound(t) /\ t.mode = s.mode /\ InUse(t) = InUse(s) \ {id}
<1>1. PICK n, head, u :
        n = Size(s) /\ head = s.head - 1 /\ u = [s EXCEPT !.head = s.head - 1]
  OBVIOUS
<1>2. /\ s.head \in Nat /\ n \in Nat /\ Positions(s) = 0 .. n - 1 /\ s.head <= n
  BY <1>1, PositionsFit DEF Sound, HeadSound
<1>3. /\ head \in Positions(s) /\ head \in 0 .. n /\ s.head = head + 1 /\ pos \in Nat
      /\ pos <= head
  BY <1>1, <1>2
<1>4. \A p \in Positions(s) : ~ IsTombstone(At(s, p))
  BY DEF Sound, HeadSound
<1>5. /\ Sound(u) /\ u.mode = s.mode /\ u.head = head
      /\ Positions(u) = Positions(s) /\ \A p : At(u, p) = At(s, p)
  BY <1>1, <1>3, HeadChangeSound
<1>6. /\ Sound(t) /\ t.mode = s.mode /\ t.head = head /\ Positions(t) = Positions(s)
      /\ \A p \in Positions(s) :
           At(t, p) = IF p = head THEN At(s, pos) ELSE IF p = pos THEN At(s, head) ELSE At(s, p)
  <2>1. /\ pos \in Positions(u) /\ head \in Positions(u)
        /\ ~ IsTombstone(At(u, pos)) /\ ~ IsTombstone(At(u, head))
    BY <1>3, <1>4, <1>5
  <2>2. /\ Sound(t) /\ t.mode = u.mode /\ t.head = u.head /\ Positions(t) = Positions(u)
        /\ \A p \in Positions(u) :
             At(t, p) = IF p = head THEN At(u, pos) ELSE IF p = pos THEN At(u, head) ELSE At(u, p)
    <3>1. Sound(u) /\ t = SwapAt(u, pos, head)
      BY <1>1, <1>5
    <3> QED BY SMTT(60), <2>1, <3>1, SwapAtSound
  <2> QED BY <1>5, <2>2
<1>7. \A p \in Positions(s) : Used(s, p) <=> p < head \/ p = head
  <2>1. \A p \in Positions(s) : p < s.head <=> p < head \/ p = head
    BY <1>2, <1>3
  <2> QED BY <1>4, <2>1 DEF Used
<1>8. \A p \in Positions(s) : Used(t, p) <=> p < head
  <2>1. \A p \in Positions(t) : ~ IsTombstone(At(t, p))
    BY <1>6 DEF Sound, HeadSound
  <2> QED BY <1>6, <2>1 DEF Used
<1>9. \A p \in Positions(s) : p < head => p # head
  BY <1>2, <1>3
<1>10. \A p \in Positions(s) : p # pos => At(s, p) # id
  BY <1>4, OneEach
<1>11. \A x : x \in InUse(t) <=> \E p \in Positions(s) : Used(t, p) /\ At(t, p) = x
  BY <1>6, UseIs
<1>12. \A x : x \in InUse(s) <=> \E p \in Positions(s) : Used(s, p) /\ At(s, p) = x
  BY UseIs
<1>13. ASSUME NEW x, x \in InUse(t) PROVE x \in InUse(s) /\ x # id
  <2>1. PICK p \in Positions(s) : p < head /\ p # head /\ At(t, p) = x
    BY <1>8, <1>9, <1>11, <1>13
  <2>2. CASE p = pos
    <3>1. At(s, head) = x /\ Used(s, head) /\ head # pos
      BY <2>1, <2>2, <1>3, <1>6, <1>7
    <3> QED BY <3>1, <1>3, <1>10, <1>12
  <2>3. CASE p # pos
    <3>1. At(s, p) = x /\ Used(s, p)
      BY <2>1, <2>3, <1>6, <1>7
    <3> QED BY <2>3, <3>1, <1>10, <1>12
  <2> QED BY <2>2, <2>3
<1>14. ASSUME NEW x, x \in InUse(s), x # id PROVE x \in InUse(t)
  <2>1. PICK p \in Positions(s) : (p < head \/ p = head) /\ At(s, p) = x /\ p # pos
    BY <1>7, <1>12, <1>14
  <2>2. CASE p = head
    <3>1. pos < head
      BY <2>1, <2>2, <1>2, <1>3
    <3>2. At(t, pos) = x /\ Used(t, pos)
      BY <3>1, <2>1, <2>2, <1>6, <1>8, <1>9
    <3> QED BY <3>2, <1>11
  <2>3. CASE p # head
    <3>1. At(t, p) = x /\ Used(t, p)
      BY <2>1, <2>3, <1>6, <1>8
    <3> QED BY <3>1, <1>11
  <2> QED BY <2>2, <2>3
<1> QED BY <1>6, <1>13, <1>14

(* swap_only removes exactly its identifier from the elements in use, the  *)
(* one with the next version staying behind the head.                      *)
LEMMA SwapOnlyUse ==
  ASSUME NEW s, Sound(s), s.mode = "swap_only", NEW id \in InUse(s),
         NEW t, t = SwapOnly(s, id)
  PROVE  Sound(t) /\ t.mode = s.mode /\ InUse(t) = InUse(s) \ {id}
<1>1. PICK pos, new : pos = Elem(s, id).entity /\ new = NextVersion(id)
  OBVIOUS
<1>2. PICK u : u = Bump(s, new)
  OBVIOUS
<1>3. /\ pos \in Positions(s) /\ At(s, pos) = id /\ Used(s, pos)
      /\ id \in Identifiers /\ id.entity \in Allocated(s) /\ ~ IsNull(Elem(s, id))
  BY <1>1, WhereUsed
<1>4. new \in Identifiers /\ ~ IsTombstone(new) /\ new.entity = id.entity
  BY <1>1, <1>3, NextValid
<1>5. Elem(s, new) = Elem(s, id)
  BY <1>4 DEF Elem
<1>6. /\ Sound(u) /\ u.mode = s.mode /\ u.head = s.head /\ Positions(u) = Positions(s)
      /\ At(u, pos) = new
  BY <1>1, <1>2, <1>3, <1>4, <1>5, BumpSound
<1>7. InUse(u) = (InUse(s) \ {id}) \cup {new}
  BY <1>2, <1>4, BumpUse
<1>8. pos < s.head
  BY <1>3 DEF Used
<1>9. t = SwapAt([u EXCEPT !.head = u.head - 1], pos, u.head - 1)
  BY <1>1, <1>2, <1>6, <1>8 DEF SwapOnly, Index
<1>10. Sound(t) /\ t.mode = u.mode /\ InUse(t) = InUse(u) \ {new}
  <2>1. u.mode = "swap_only" /\ pos \in Positions(u) /\ pos < u.head
    BY <1>3, <1>6, <1>8
  <2> QED BY <1>6, <1>9, <2>1, DemoteUse
<1>11. new \in InUse(s) => new = id
  <2>1. ASSUME new \in InUse(s) PROVE new = id
    <3>1. PICK p \in Positions(s) : Used(s, p) /\ At(s, p) = new
      BY <2>1, UseIs
    <3>2. p = pos
      BY <3>1, <1>3, <1>4, OneEach DEF Used
    <3> QED BY <3>1, <3>2, <1>3
  <2> QED BY <2>1
<1> QED BY <1>6, <1>7, <1>10, <1>11

(* Erasing an element in use removes exactly that element, with every      *)
(* policy.                                                                 *)
LEMMA EraseUse ==
  ASSUME NEW s, Sound(s), NEW id \in InUse(s), NEW t, t = Erase(s, id)
  PROVE  Sound(t) /\ t.mode = s.mode /\ InUse(t) = InUse(s) \ {id}
<1>1. s.mode \in Modes
  BY DEF Sound, SetsOver
<1>2. CASE s.mode = "swap_and_pop"
  <2>1. t = SwapAndPop(s, id)
    BY <1>2 DEF Erase
  <2> QED BY <1>2, <2>1, SwapAndPopUse
<1>3. CASE s.mode = "in_place"
  <2>1. t = InPlacePop(s, id)
    BY <1>3 DEF Erase
  <2> QED BY <1>3, <2>1, InPlacePopUse
<1>4. CASE s.mode = "swap_only"
  <2>1. t = SwapOnly(s, id)
    BY <1>4 DEF Erase
  <2> QED BY <1>4, <2>1, SwapOnlyUse
<1> QED BY <1>1, <1>2, <1>3, <1>4 DEF Modes

===============================================================================
