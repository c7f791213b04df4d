---------------------------- MODULE SparseSetProofs ----------------------------
(***************************************************************************)
(* That every operation of basic_sparse_set keeps its two arrays inverse   *)
(* to each other and its elements those the caller was promised, for every *)
(* width of identifier, page size, deletion policy and number of entities; *)
(* that the free list of an in-place set is a path that visits every hole  *)
(* once; and that the pages of the sparse array are whole.                 *)
(*                                                                         *)
(* First the operations on one element, then the loops: ranges, sort_as,   *)
(* sort_n and compact.                                                     *)
(***************************************************************************)
EXTENDS SparseSet, SparseSetFacts, FiniteSetTheorems

-------------------------------------------------------------------------------
(* The invariant.                                                          *)

(* The invariant of the specification: the set is sound and in use is what *)
(* the caller was promised.                                                *)
Inv ==
  /\ Sound(set)
  /\ set.mode \in Policies
  /\ InUse(set) = content

(* The invariant holds of a new set.                                       *)
LEMMA InitInv == Init => Inv
<1> SUFFICES ASSUME Init PROVE Inv
  OBVIOUS
<1>1. content = {}
  BY DEF Init
<1>0. PICK mode \in Policies : set = EmptySet(mode)
  BY DEF Init
<1>2. Sound(set) /\ set.mode \in Policies /\ Size(set) = 0
  BY <1>0, EmptySound, PoliciesAssumption
<1>3. Positions(set) = {}
  BY <1>2 DEF Positions
<1>4. InUse(set) = {}
  BY <1>2, <1>3, UseIs
<1> QED BY <1>1, <1>2, <1>4 DEF Inv

(* The steps on one element, or on the whole set.  With force_back, which  *)
(* the specification leaves to push of a range, they are a turn of its     *)
(* loop.                                                                   *)
ElementNext ==
  \/ \E id \in Ids, forceBack \in BOOLEAN : Emplace(id, forceBack)
  \/ \E id \in Ids : EraseOne(id)
  \/ \E id \in Ids, version \in 0 .. VersionMask - 1 : BumpOne(id, version)
  \/ \E lhs, rhs \in Ids : Swap(lhs, rhs)
  \/ Clear
  \/ \E value \in 0 .. MaxSize : FreeList(value)
  \/ Shrink
  \/ MoveOut

(* They preserve the invariant.                                            *)
LEMMA StepInv ==
  ASSUME MaxSize <= EntityMask
  PROVE  Inv /\ [ElementNext]_vars => Inv'
<1> SUFFICES ASSUME Inv, [ElementNext]_vars PROVE Inv'
  OBVIOUS
<1>0. Sound(set) /\ set.mode \in Policies /\ InUse(set) = content
  BY DEF Inv
<1>1. ASSUME NEW id \in Ids, NEW forceBack \in BOOLEAN, Emplace(id, forceBack)
      PROVE  Inv'
  <2>1. /\ CanEmplace(set, id) /\ set' = TryEmplace(set, id, forceBack)
        /\ Size(set') <= MaxSize /\ content' = content \cup {id}
    BY <1>1 DEF Emplace
  <2>2. id \in ValidIdentifiers
    BY DEF Ids
  <2>3. MaxSize \in 0 .. EntityMask
    BY MaxSizeAssumption, EntityMaskAssumption
  <2>4. Sound(set') /\ set'.mode = set.mode /\ InUse(set') = InUse(set) \cup {id}
    BY <1>0, <2>1, <2>2, <2>3, TryEmplaceUse
  <2> QED BY <1>0, <2>1, <2>4 DEF Inv
<1>2. ASSUME NEW id \in Ids, EraseOne(id)
      PROVE  Inv'
  <2>1. id \in InUse(set) /\ set' = Erase(set, id) /\ content' = content \ {id}
    BY <1>2 DEF EraseOne, Owned
  <2>2. Sound(set') /\ set'.mode = set.mode /\ InUse(set') = InUse(set) \ {id}
    BY <1>0, <2>1, EraseUse
  <2> QED BY <1>0, <2>1, <2>2 DEF Inv
<1>3. ASSUME NEW id \in Ids, NEW version \in 0 .. VersionMask - 1, BumpOne(id, version)
      PROVE  Inv'
  <2>1. PICK new : new = [id EXCEPT !.version = version]
    OBVIOUS
  <2>2. id \in InUse(set) /\ set' = Bump(set, new) /\ content' = (content \ {id}) \cup {new}
    BY <1>3, <2>1 DEF BumpOne, Owned
  <2>3. new \in Ids /\ new.entity = id.entity
    BY <2>1 DEF Ids, ValidIdentifiers
  <2>4. new \in Identifiers /\ ~ IsTombstone(new)
    BY <2>3, EntityMaskAssumption, VersionMaskAssumption
       DEF Ids, ValidIdentifiers, Identifiers, EntityParts, VersionParts, IsTombstone
  <2>5. Sound(set') /\ set'.mode = set.mode /\ InUse(set') = (InUse(set) \ {id}) \cup {new}
    BY <1>0, <2>2, <2>3, <2>4, BumpUse
  <2> QED BY <1>0, <2>2, <2>3, <2>5 DEF Inv
<1>4. ASSUME NEW lhs \in Ids, NEW rhs \in Ids, Swap(lhs, rhs)
      PROVE  Inv'
  <2>1. /\ lhs \in InUse(set) /\ rhs \in InUse(set)
        /\ set' = SwapElements(set, lhs, rhs) /\ content' = content
    BY <1>4 DEF Swap, Owned
  <2>2. Sound(set') /\ set'.mode = set.mode /\ InUse(set') = InUse(set)
    BY <1>0, <2>1, SwapElementsUse
  <2> QED BY <1>0, <2>1, <2>2 DEF Inv
<1>5. ASSUME Clear
      PROVE  Inv'
  <2>1. set' = PopAll(set) /\ content' = {}
    BY <1>5 DEF Clear
  <2>2. Sound(set') /\ set'.mode = set.mode /\ Size(set') = 0
    BY <1>0, <2>1, PopAllSound
  <2>3. Positions(set') = {}
    BY <2>2 DEF Positions
  <2>4. InUse(set') = {}
    BY <2>2, <2>3, UseIs
  <2> QED BY <1>0, <2>1, <2>2, <2>4 DEF Inv
<1>6. ASSUME NEW value \in 0 .. MaxSize, FreeList(value)
      PROVE  Inv'
  <2>1. /\ set.mode = "swap_only" /\ value <= Size(set)
        /\ set' = [set EXCEPT !.head = value]
        /\ content' = {At(set, pos) : pos \in 0 .. value - 1}
    BY <1>6 DEF FreeList
  <2>2. value \in 0 .. Size(set)
    BY <1>0, <2>1, PositionsFit, MaxSizeAssumption
  <2>3. /\ Sound(set') /\ set'.mode = set.mode /\ set'.head = value
        /\ \A p : At(set', p) = At(set, p)
    BY <1>0, <2>1, <2>2, HeadChangeSound
  <2>4. InUse(set') = content'
    BY <2>1, <2>3 DEF InUse
  <2> QED BY <1>0, <2>3, <2>4 DEF Inv
<1>7. ASSUME Shrink
      PROVE  Inv'
  <2>1. set' = ShrinkToFit(set) /\ content' = content
    BY <1>7 DEF Shrink
  <2>2. Sound(set') /\ set'.mode = set.mode /\ set'.head = set.head /\ set'.packed = set.packed
    BY <1>0, <2>1, ShrinkSound
  <2>3. InUse(set') = InUse(set)
    BY <1>0, <2>2, SameUse
  <2> QED BY <1>0, <2>1, <2>2, <2>3 DEF Inv
<1>8. ASSUME MoveOut
      PROVE  Inv'
  <2>1. set' = EmptySet(set.mode) /\ content' = {}
    BY <1>0, <1>8 DEF MoveOut, MovedFrom
  <2>0. set.mode \in Modes
    BY <1>0 DEF Sound, SetsOver
  <2>2. Sound(set') /\ set'.mode = set.mode /\ Size(set') = 0
    BY <2>0, <2>1, EmptySound
  <2>3. Positions(set') = {}
    BY <2>2 DEF Positions
  <2>4. InUse(set') = {}
    BY <2>2, <2>3, UseIs
  <2> QED BY <1>0, <2>1, <2>2, <2>4 DEF Inv
<1>9. CASE UNCHANGED vars
  BY <1>9 DEF Inv, vars
<1> QED BY <1>1, <1>2, <1>3, <1>4, <1>5, <1>6, <1>7, <1>8, <1>9 DEF ElementNext

(* The invariant implies type correctness.                                 *)
LEMMA InvTypeOK == Inv => TypeOK
<1> SUFFICES ASSUME Inv PROVE TypeOK
  OBVIOUS
<1>0. Sound(set) /\ set.mode \in Policies /\ InUse(set) = content
  BY DEF Inv
<1>1. /\ set \in SetsOver(Allocated(set)) /\ Size(set) \in Nat /\ set.head \in Nat
      /\ \A pos \in Positions(set) : At(set, pos) \in Identifiers
  BY <1>0, PositionsFit
<1>2. content \subseteq Identifiers
  <2> SUFFICES ASSUME NEW id \in content PROVE id \in Identifiers
    OBVIOUS
  <2> QED BY <1>0, <1>1, UseIs
<1>3. set.mode = "swap_and_pop" => set.head = EntityMask
  BY <1>0 DEF Sound, HeadSound
<1>4. set.mode = "in_place" => set.head \in Positions(set) \cup {EntityMask}
  BY <1>0 DEF Sound, ListSound, Hole
<1>5. set.mode = "swap_only" => set.head \in 0 .. Size(set)
  BY <1>0, <1>1 DEF Sound, HeadSound
<1>6. set.head \in CASE set.mode = "swap_and_pop" -> {EntityMask}
                     [] set.mode = "in_place" -> Positions(set) \cup {EntityMask}
                     [] set.mode = "swap_only" -> 0 .. Size(set)
  <2>1. CASE set.mode = "swap_and_pop"
    BY <2>1, <1>3
  <2>2. CASE set.mode = "in_place"
    BY <2>2, <1>4
  <2>3. CASE set.mode = "swap_only"
    BY <2>3, <1>5
  <2>4. set.mode \in Modes
    BY <1>0 DEF Sound, SetsOver
  <2> QED BY <2>1, <2>2, <2>3, <2>4 DEF Modes
<1>7. /\ set.extent \in Nat /\ set.packed \in Seq(Identifiers)
      /\ \A e \in Allocated(set) : set.sparse[e] \in Identifiers
  BY <1>1 DEF SetsOver
<1> QED BY <1>0, <1>2, <1>6, <1>7 DEF TypeOK

(* The invariant implies that the two arrays are inverse to each other.    *)
LEMMA InvBijective == Inv => Bijective
<1> SUFFICES ASSUME Inv PROVE Bijective
  OBVIOUS
<1>0. Sound(set)
  BY DEF Inv
<1>1. ASSUME NEW pos \in Positions(set), ~ IsTombstone(At(set, pos))
      PROVE  SetContains(set, At(set, pos)) /\ Index(set, At(set, pos)) = pos
  <2>1. PICK id : id = At(set, pos)
    OBVIOUS
  <2>2. id.entity \in Allocated(set) /\ set.sparse[id.entity] = [entity |-> pos, version |-> id.version]
    BY <1>0, <1>1, <2>1 DEF Sound, PackedLinked
  <2>3. pos < EntityMask
    BY <1>0, PositionsFit, EntityMaskAssumption
  <2> QED BY <2>1, <2>2, <2>3 DEF SetContains, Index, Elem
<1>2. ASSUME NEW e \in Allocated(set), ~ IsNull(set.sparse[e])
      PROVE  /\ set.sparse[e].entity \in Positions(set)
             /\ At(set, set.sparse[e].entity) = [entity |-> e, version |-> set.sparse[e].version]
  BY <1>0, <1>2 DEF Sound, SparseLinked, IsNull
<1> QED BY <1>1, <1>2 DEF Bijective

(* The invariant implies that the set contains what the caller was         *)
(* promised.                                                               *)
LEMMA InvFaithful == Inv => Faithful
<1> SUFFICES ASSUME Inv PROVE Faithful
  OBVIOUS
<1>0. Sound(set) /\ set.mode \in Policies /\ InUse(set) = content
  BY DEF Inv
<1>1. ASSUME NEW id \in Ids
      PROVE  (SetContains(set, id) /\ (set.mode = "swap_only" => Index(set, id) < set.head))
               <=> id \in content
  <2>1. id \in ValidIdentifiers
    BY DEF Ids
  <2> QED BY <1>0, <2>1, ContainsIsUse
<1> QED BY <1>0, <1>1 DEF Faithful

-------------------------------------------------------------------------------
(* Where the elements are.                                                 *)

(* An element that is in use before and after has kept its position.       *)
Stay(s, t) == \A id \in InUse(s) \cap InUse(t) : Index(t, id) = Index(s, id)

(* They stay if what the used positions hold, and goes on being in use, is *)
(* still there.                                                            *)
LEMMA StayIs ==
  ASSUME NEW s, Sound(s), NEW t, Sound(t),
         \A p \in Positions(s) : Used(s, p) /\ At(s, p) \in InUse(t)
           => p \in Positions(t) /\ At(t, p) = At(s, p)
  PROVE  Stay(s, t)
<1> SUFFICES ASSUME NEW id \in InUse(s), id \in InUse(t) PROVE Index(t, id) = Index(s, id)
  BY DEF Stay
<1>1. PICK p : p = Elem(s, id).entity
  OBVIOUS
<1>2. p \in Positions(s) /\ At(s, p) = id /\ Used(s, p) /\ ~ IsTombstone(id)
  BY <1>1, WhereUsed
<1>3. p \in Positions(t) /\ At(t, p) = id
  BY <1>2
<1>4. t.sparse[id.entity] = [entity |-> p, version |-> id.version]
  BY <1>2, <1>3 DEF Sound, PackedLinked
<1> QED BY <1>1, <1>4 DEF Index, Elem

(* Appending writes nothing but the new position.                          *)
LEMMA PushBackStays ==
  ASSUME NEW s, Sound(s), NEW id \in Identifiers, id.entity \in Allocated(s),
         NEW t, t = PushBack(s, id)
  PROVE  Positions(s) \subseteq Positions(t) /\ \A p \in Positions(s) : At(t, p) = At(s, p)
<1>1. PICK D, n : D = Allocated(s) /\ n = Size(s)
  OBVIOUS
<1>2. s \in SetsOver(Allocated(s)) /\ Size(s) \in 0 .. EntityMask /\ Positions(s) = 0 .. Size(s) - 1
  BY PushBackGrows, PositionsFit
<1>3. s \in SetsOver(D) /\ n \in 0 .. EntityMask /\ Positions(s) = 0 .. n - 1 /\ id.entity \in D
  BY <1>1, <1>2
<1>4. /\ t \in SetsOver(D) /\ t.mode = s.mode /\ t.head = s.head
      /\ Size(t) = n + 1 /\ Positions(t) = 0 .. n
      /\ \A p \in Positions(s) : At(t, p) = At(s, p)
      /\ At(t, n) = id
      /\ \A d \in D : t.sparse[d] = IF d = id.entity THEN [entity |-> n, version |-> id.version]
                                    ELSE s.sparse[d]
  BY <1>1, <1>3, PushBackFacts
<1>5. 0 .. n - 1 \subseteq 0 .. n
  BY <1>3
<1> QED BY <1>3, <1>4, <1>5

(* The in-place policy places an identifier in a hole, or at the end.      *)
LEMMA EmplaceStays ==
  ASSUME NEW s, Sound(s), s.mode = "in_place", NEW id \in ValidIdentifiers, CanEmplace(s, id),
         NEW forceBack \in BOOLEAN, NEW t, t = TryEmplace(s, id, forceBack), Sound(t)
  PROVE  Stay(s, t)
<1>1. PICK u : u = AssureAtLeast(s, id)
  OBVIOUS
<1>2. id \in Identifiers /\ ~ IsTombstone(id)
  BY EntityMaskAssumption, VersionMaskAssumption
     DEF ValidIdentifiers, Identifiers, EntityParts, VersionParts, IsTombstone
<1>3. /\ Sound(u) /\ id.entity \in Allocated(u)
      /\ u.mode = s.mode /\ u.head = s.head /\ u.packed = s.packed
      /\ id.entity \in Allocated(s) => Elem(u, id) = Elem(s, id)
      /\ id.entity \notin Allocated(s) => Elem(u, id) = Null
  BY <1>1, <1>2, AssureSound
<1>4. Positions(u) = Positions(s) /\ \A p : At(u, p) = At(s, p)
  BY <1>3, SamePacked
<1>5. \A p \in Positions(s) : Used(s, p) => p \in Positions(t) /\ At(t, p) = At(s, p)
  <2>1. CASE s.head # EntityMask /\ ~ forceBack
    <3>1. t = EmplaceInPlace(u, id)
      BY <2>1, <1>1 DEF TryEmplace
    <3>2. IsNull(Elem(u, id))
      BY <1>3 DEF CanEmplace, IsNull, Null
    <3>3. /\ Positions(t) = Positions(u) /\ Hole(u, u.head)
          /\ \A p \in Positions(u) : At(t, p) = IF p = u.head THEN id ELSE At(u, p)
      BY <2>1, <3>1, <3>2, <1>2, <1>3, EmplaceInPlaceSound
    <3>4. ~ Used(s, u.head)
      BY <3>3, <1>4 DEF Hole, Used
    <3> QED BY <3>3, <3>4, <1>4
  <2>2. CASE ~ (s.head # EntityMask /\ ~ forceBack)
    <3>1. t = PushBack(u, id)
      BY <2>2, <1>1 DEF TryEmplace
    <3>2. Positions(u) \subseteq Positions(t) /\ \A p \in Positions(u) : At(t, p) = At(u, p)
      BY <3>1, <1>2, <1>3, PushBackStays
    <3> QED BY <3>2, <1>4
  <2> QED BY <2>1, <2>2
<1> QED BY <1>5, StayIs

(* It leaves a hole where an identifier was.                               *)
LEMMA EraseStays ==
  ASSUME NEW s, Sound(s), s.mode = "in_place", NEW id \in InUse(s), NEW t, t = Erase(s, id)
  PROVE  Stay(s, t)
<1>1. t = InPlacePop(s, id)
  BY DEF Erase
<1>2. PICK pos : pos = Elem(s, id).entity
  OBVIOUS
<1>3. /\ pos \in Positions(s) /\ At(s, pos) = id
      /\ id \in Identifiers /\ id.entity \in Allocated(s) /\ ~ IsNull(Elem(s, id))
  BY <1>2, WhereUsed
<1>4. /\ Sound(t) /\ Positions(t) = Positions(s)
      /\ \A p \in Positions(s) : p # pos => At(t, p) = At(s, p)
  BY <1>1, <1>2, <1>3, InPlacePopSound
<1>5. id \notin InUse(t)
  BY EraseUse
<1> QED BY <1>3, <1>4, <1>5, StayIs

(* bump writes where the entity is.                                        *)
LEMMA BumpStays ==
  ASSUME NEW s, Sound(s), NEW old \in InUse(s), NEW id \in Identifiers, ~ IsTombstone(id),
         id.entity = old.entity, NEW t, t = Bump(s, id)
  PROVE  Stay(s, t)
<1>1. PICK pos : pos = Elem(s, old).entity
  OBVIOUS
<1>2. /\ pos \in Positions(s) /\ At(s, pos) = old
      /\ old.entity \in Allocated(s) /\ ~ IsNull(Elem(s, old))
  BY <1>1, WhereUsed
<1>3. Elem(s, id) = Elem(s, old)
  BY DEF Elem
<1>4. /\ Sound(t) /\ Positions(t) = Positions(s)
      /\ \A p \in Positions(s) : At(t, p) = IF p = pos THEN id ELSE At(s, p)
  BY <1>1, <1>2, <1>3, BumpSound
<1>5. InUse(t) = (InUse(s) \ {old}) \cup {id}
  BY BumpUse
<1> QED BY <1>2, <1>4, <1>5, StayIs

(* Every step of an in-place set that changes its elements leaves those in *)
(* place that stay.                                                        *)
LEMMA StepStays ==
  ASSUME MaxSize <= EntityMask, Inv, Inv', ElementNext, set.mode = "in_place", content' # content
  PROVE  Stay(set, set')
<1>0. Sound(set) /\ Sound(set') /\ InUse(set) = content /\ InUse(set') = content'
  BY DEF Inv
<1>1. ASSUME NEW id \in Ids, NEW forceBack \in BOOLEAN, Emplace(id, forceBack)
      PROVE  Stay(set, set')
  <2>1. CanEmplace(set, id) /\ set' = TryEmplace(set, id, forceBack) /\ id \in ValidIdentifiers
    BY <1>1 DEF Emplace, Ids
  <2> QED BY <1>0, <2>1, EmplaceStays
<1>2. ASSUME NEW id \in Ids, EraseOne(id)
      PROVE  Stay(set, set')
  <2>1. id \in InUse(set) /\ set' = Erase(set, id)
    BY <1>2 DEF EraseOne, Owned
  <2> QED BY <1>0, <2>1, EraseStays
<1>3. ASSUME NEW id \in Ids, NEW version \in 0 .. VersionMask - 1, BumpOne(id, version)
      PROVE  Stay(set, set')
  <2>1. PICK new : new = [id EXCEPT !.version = version]
    OBVIOUS
  <2>2. id \in InUse(set) /\ set' = Bump(set, new)
    BY <1>3, <2>1 DEF BumpOne, Owned
  <2>3. new \in Ids /\ new.entity = id.entity
    BY <2>1 DEF Ids, ValidIdentifiers
  <2>4. new \in Identifiers /\ ~ IsTombstone(new)
    BY <2>3, EntityMaskAssumption, VersionMaskAssumption
       DEF Ids, ValidIdentifiers, Identifiers, EntityParts, VersionParts, IsTombstone
  <2> QED BY <1>0, <2>2, <2>3, <2>4, BumpStays
<1>4. ASSUME NEW lhs \in Ids, NEW rhs \in Ids, Swap(lhs, rhs)
      PROVE  FALSE
  BY <1>4 DEF Swap
<1>5. CASE Clear \/ MoveOut
  <2>1. content' = {}
    BY <1>5 DEF Clear, MoveOut
  <2> QED BY <1>0, <2>1 DEF Stay
<1>6. ASSUME NEW value \in 0 .. MaxSize, FreeList(value)
      PROVE  FALSE
  BY <1>6 DEF FreeList
<1>7. CASE Shrink
  BY <1>7 DEF Shrink
<1> QED BY <1>1, <1>2, <1>3, <1>4, <1>5, <1>6, <1>7 DEF ElementNext

-------------------------------------------------------------------------------
(* The pages.                                                              *)

(* The sparse array of s is allocated on D, and its vector of pages has    *)
(* length n.                                                               *)
PagesAre(s, D, n) ==
  {"sparse", "extent"} \subseteq DOMAIN s /\ Allocated(s) = D /\ s.extent = n

(* Pages are whole, and the vector of pages ends with an allocated one.    *)
Paged(D, n) ==
  /\ D \subseteq Nat
  /\ \A e \in D : PageItems(PageOf(e)) \subseteq D
  /\ n \in {0} \cup {PageOf(e) + 1 : e \in D}
  /\ \A e \in D : PageOf(e) + 1 <= n

(* The entities of a page are those whose number selects it.               *)
LEMMA PageItemsAre ==
  ASSUME NEW p \in Nat, NEW x \in PageItems(p)
  PROVE  x \in Nat /\ PageOf(x) = p
<1>1. x \in p * PageSize .. (p + 1) * PageSize - 1
  BY DEF PageItems
<1>2. PageSize \in Nat /\ PageSize > 0
  BY PageSizeAssumption
<1>3. p * PageSize \in Nat /\ (p + 1) * PageSize = p * PageSize + PageSize
  BY <1>2
<1>4. x \in Nat
  BY <1>1, <1>2, <1>3
<1>5. x = p * PageSize + (x - p * PageSize) /\ x - p * PageSize \in 0 .. PageSize - 1
  BY <1>1, <1>2, <1>3, <1>4
<1>6. x \div PageSize = p
  BY <1>2, <1>4, <1>5
<1> QED BY <1>4, <1>6 DEF PageOf

(* That is what the property says.                                         *)
LEMMA PagedWhole ==
  ASSUME Paged(Allocated(set), set.extent)
  PROVE  PagesWhole
<1>1. PICK D, n : D = Allocated(set) /\ n = set.extent
  OBVIOUS
<1>2. /\ D \subseteq Nat
      /\ \A e \in D : PageItems(PageOf(e)) \subseteq D
      /\ n \in {0} \cup {PageOf(e) + 1 : e \in D}
      /\ \A e \in D : PageOf(e) + 1 <= n
  BY <1>1 DEF Paged
<1>3. D = UNION {PageItems(p) : p \in {PageOf(e) : e \in D}}
  <2>1. ASSUME NEW e \in D PROVE e \in PageItems(PageOf(e))
    BY <1>2, OnItsPage
  <2> QED BY <2>1, <1>2
<1>4. \A e \in D : PageOf(e) + 1 \in Nat
  BY <1>2, OnItsPage
<1>5. n = Max({0} \cup {PageOf(e) + 1 : e \in D})
  <2>1. PICK S : S = {0} \cup {PageOf(e) + 1 : e \in D}
    OBVIOUS
  <2>2. S \subseteq Nat /\ n \in S /\ \A y \in S : n >= y
    BY <1>2, <1>4, <2>1
  <2>3. Max(S) \in S /\ \A y \in S : Max(S) >= y
    <3> SUFFICES \E m \in S : \A y \in S : m >= y
      BY DEF Max
    <3> QED BY <2>2
  <2>4. PICK m : m = Max(S)
    OBVIOUS
  <2>5. m \in Nat /\ n \in Nat /\ m >= n /\ n >= m
    BY <2>2, <2>3, <2>4
  <2>6. Max(S) = n
    BY <2>4, <2>5
  <2> QED BY <2>1, <2>6
<1> QED BY <1>1, <1>3, <1>5 DEF PagesWhole

(* No write to an element changes the pages.                               *)
LEMMA WritePages ==
  ASSUME NEW D, NEW n, NEW s, PagesAre(s, D, n), NEW id, NEW x, NEW pos
  PROVE  PagesAre(SetSparse(s, id, x), D, n) /\ PagesAre(SetPacked(s, pos, x), D, n)
<1>1. PICK f : f = [s.sparse EXCEPT ![id.entity] = x]
  OBVIOUS
<1>2. DOMAIN f = D
  BY <1>1 DEF PagesAre, Allocated
<1>3. SetSparse(s, id, x) = [s EXCEPT !.sparse = f]
  BY <1>1 DEF SetSparse
<1>4. PagesAre(SetSparse(s, id, x), D, n)
  BY <1>2, <1>3 DEF PagesAre, Allocated
<1>5. PagesAre(SetPacked(s, pos, x), D, n)
  BY DEF PagesAre, Allocated, SetPacked
<1> QED BY <1>4, <1>5

(* Nor does a write to head.                                               *)
LEMMA HeadPages ==
  ASSUME NEW D, NEW n, NEW s, PagesAre(s, D, n), NEW x, NEW t, t = [s EXCEPT !.head = x]
  PROVE  PagesAre(t, D, n)
BY DEF PagesAre, Allocated

(* Nor does a new packed array.                                            *)
LEMMA PackedPages ==
  ASSUME NEW D, NEW n, NEW s, PagesAre(s, D, n), NEW x, NEW t, t = [s EXCEPT !.packed = x]
  PROVE  PagesAre(t, D, n)
BY DEF PagesAre, Allocated

(* Hence neither swap_at,                                                  *)
LEMMA SwapAtPages ==
  ASSUME NEW D, NEW n, NEW s, PagesAre(s, D, n), NEW lhs, NEW rhs
  PROVE  PagesAre(SwapAt(s, lhs, rhs), D, n)
<1>1. PICK from, to, s1, s2, s3 :
        /\ from = At(s, lhs) /\ to = At(s, rhs)
        /\ s1 = SetSparse(s, from, Combine(rhs, from))
        /\ s2 = SetSparse(s1, to, Combine(lhs, to))
        /\ s3 = SetPacked(s2, lhs, to)
  OBVIOUS
<1>2. SwapAt(s, lhs, rhs) = SetPacked(s3, rhs, from)
  BY <1>1 DEF SwapAt
<1>3. PagesAre(s1, D, n)
  BY <1>1, WritePages
<1>4. PagesAre(s2, D, n)
  BY <1>1, <1>3, WritePages
<1>5. PagesAre(s3, D, n)
  BY <1>1, <1>4, WritePages
<1> QED BY <1>2, <1>5, WritePages

(* nor appending,                                                          *)
LEMMA PushBackPages ==
  ASSUME NEW D, NEW n, NEW s, PagesAre(s, D, n), NEW id
  PROVE  PagesAre(PushBack(s, id), D, n)
<1>1. PICK q, s1 : q = Append(s.packed, id) /\ s1 = [s EXCEPT !.packed = q]
  OBVIOUS
<1>2. PushBack(s, id) = SetSparse(s1, id, Combine(Size(s1) - 1, id))
  BY <1>1 DEF PushBack
<1>3. PagesAre(s1, D, n)
  BY <1>1, PackedPages
<1> QED BY <1>2, <1>3, WritePages

(* nor bump,                                                               *)
LEMMA BumpPages ==
  ASSUME NEW D, NEW n, NEW s, PagesAre(s, D, n), NEW id
  PROVE  PagesAre(Bump(s, id), D, n)
<1>1. PICK elem, s1 : elem = Combine(Elem(s, id).entity, id) /\ s1 = SetSparse(s, id, elem)
  OBVIOUS
<1>2. Bump(s, id) = SetPacked(s1, elem.entity, id)
  BY <1>1 DEF Bump
<1>3. PagesAre(s1, D, n)
  BY <1>1, WritePages
<1> QED BY <1>2, <1>3, WritePages

(* nor emplacing, once the page is allocated,                              *)
LEMMA TryEmplacePages ==
  ASSUME NEW s, NEW id, NEW forceBack, NEW D, NEW n, PagesAre(AssureAtLeast(s, id), D, n)
  PROVE  PagesAre(TryEmplace(s, id, forceBack), D, n)
<1>1. PICK u : u = AssureAtLeast(s, id) /\ PagesAre(u, D, n)
  OBVIOUS
<1>2. PagesAre(EmplaceSwapOnly(u, id), D, n)
  <2>1. PICK s1, s2 : /\ s1 = IF IsNull(Elem(u, id)) THEN PushBack(u, id) ELSE Bump(u, id)
                      /\ s2 = [s1 EXCEPT !.head = @ + 1]
    OBVIOUS
  <2>2. EmplaceSwapOnly(u, id) = SwapAt(s2, Elem(s1, id).entity, s1.head)
    BY <2>1 DEF EmplaceSwapOnly
  <2>3. PagesAre(s1, D, n)
    BY <1>1, <2>1, PushBackPages, BumpPages
  <2>4. PagesAre(s2, D, n)
    BY <2>1, <2>3, HeadPages
  <2> QED BY <2>2, <2>4, SwapAtPages
<1>3. PagesAre(EmplaceInPlace(u, id), D, n)
  <2>1. PICK s1, s2 : s1 = SetSparse(u, id, Combine(u.head, id)) /\ s2 = SetPacked(s1, u.head, id)
    OBVIOUS
  <2>2. EmplaceInPlace(u, id) = [s2 EXCEPT !.head = At(u, u.head).entity]
    BY <2>1 DEF EmplaceInPlace
  <2>3. PagesAre(s1, D, n)
    BY <1>1, <2>1, WritePages
  <2>4. PagesAre(s2, D, n)
    BY <2>1, <2>3, WritePages
  <2> QED BY <2>2, <2>4, HeadPages
<1>4. PagesAre(PushBack(u, id), D, n)
  BY <1>1, PushBackPages
<1>5. \/ TryEmplace(s, id, forceBack) = EmplaceSwapOnly(u, id)
      \/ TryEmplace(s, id, forceBack) = EmplaceInPlace(u, id)
      \/ TryEmplace(s, id, forceBack) = PushBack(u, id)
  BY <1>1 DEF TryEmplace
<1> QED BY <1>2, <1>3, <1>4, <1>5

(* nor erasing.                                                            *)
LEMMA ErasePages ==
  ASSUME NEW s, NEW D, NEW n, PagesAre(s, D, n), s.mode \in Modes, NEW id
  PROVE  PagesAre(Erase(s, id), D, n)
<1>1. PICK pos : pos = Elem(s, id).entity
  OBVIOUS
<1>2. PagesAre(SwapAndPop(s, id), D, n)
  <2>1. PICK s1, s2, s3, q :
          /\ s1 = SetSparse(s, Back(s), Combine(pos, Back(s)))
          /\ s2 = SetPacked(s1, pos, Back(s))
          /\ s3 = SetSparse(s2, id, Null)
          /\ q = Front(s3.packed)
    OBVIOUS
  <2>2. SwapAndPop(s, id) = [s3 EXCEPT !.packed = q]
    BY <1>1, <2>1 DEF SwapAndPop
  <2>3. PagesAre(s1, D, n)
    BY <2>1, WritePages
  <2>4. PagesAre(s2, D, n)
    BY <2>1, <2>3, WritePages
  <2>5. PagesAre(s3, D, n)
    BY <2>1, <2>4, WritePages
  <2> QED BY <2>2, <2>5, PackedPages
<1>3. PagesAre(InPlacePop(s, id), D, n)
  <2>1. PICK s1, s2 : s1 = SetSparse(s, id, Null) /\ s2 = SetPacked(s1, pos, Combine(s.head, Null))
    OBVIOUS
  <2>2. InPlacePop(s, id) = [s2 EXCEPT !.head = pos]
    BY <1>1, <2>1 DEF InPlacePop
  <2>3. PagesAre(s1, D, n)
    BY <2>1, WritePages
  <2>4. PagesAre(s2, D, n)
    BY <2>1, <2>3, WritePages
  <2> QED BY <2>2, <2>4, HeadPages
<1>4. PagesAre(SwapOnly(s, id), D, n)
  <2>1. PICK s1, head, s2 :
          /\ s1 = Bump(s, NextVersion(id))
          /\ head = IF Index(s, id) < s.head THEN s.head - 1 ELSE s.head
          /\ s2 = [s1 EXCEPT !.head = head]
    OBVIOUS
  <2>2. SwapOnly(s, id) = SwapAt(s2, Index(s, id), head)
    BY <2>1 DEF SwapOnly
  <2>3. PagesAre(s1, D, n)
    BY <2>1, BumpPages
  <2>4. PagesAre(s2, D, n)
    BY <2>1, <2>3, HeadPages
  <2> QED BY <2>2, <2>4, SwapAtPages
<1> QED BY <1>2, <1>3, <1>4 DEF Erase, Modes

(* Allocating a page allocates a whole one, and the vector grows to it.    *)
LEMMA AssurePages ==
  ASSUME NEW s, Sound(s), Paged(Allocated(s), s.extent), NEW id \in Identifiers,
         NEW t, t = AssureAtLeast(s, id)
  PROVE  Paged(Allocated(t), t.extent) /\ PagesAre(t, Allocated(t), t.extent)
<1>1. PICK D, n, p : D = Allocated(s) /\ n = s.extent /\ p = PageOf(id.entity)
  OBVIOUS
<1>2. {"sparse", "extent"} \subseteq DOMAIN s /\ n \in Nat
  BY <1>1 DEF Sound, SetsOver
<1>3. id.entity \in Nat
  BY EntityMaskAssumption DEF Identifiers, EntityParts
<1>4. id.entity \in PageItems(p) /\ p \in Nat
  BY <1>1, <1>3, OnItsPage
<1>5. CASE id.entity \in D
  <2>1. t = s
    BY <1>1, <1>5 DEF AssureAtLeast
  <2> QED BY <2>1, <1>1, <1>2 DEF PagesAre
<1>6. CASE id.entity \notin D
  <2>1. PICK E, m, f : /\ E = D \cup PageItems(p)
                       /\ m = IF p < n THEN n ELSE p + 1
                       /\ f = [e \in E |-> IF e \in D THEN s.sparse[e] ELSE Null]
    OBVIOUS
  <2>2. t = [s EXCEPT !.extent = m, !.sparse = f]
    BY <1>1, <1>6, <2>1 DEF AssureAtLeast
  <2>3. DOMAIN f = E
    BY <2>1
  <2>4. {"sparse", "extent"} \subseteq DOMAIN t /\ t.sparse = f /\ t.extent = m
    BY <1>2, <2>2
  <2>5. Allocated(t) = E
    BY <2>3, <2>4 DEF Allocated
  <2>6. \A x \in PageItems(p) : x \in Nat /\ PageOf(x) = p
    BY <1>4, PageItemsAre
  <2>7. Paged(D, n)
    BY <1>1
  <2>8. \A e \in E : PageItems(PageOf(e)) \subseteq E /\ e \in Nat
    BY <2>1, <2>6, <2>7 DEF Paged
  <2>9. \A e \in E : PageOf(e) + 1 <= m
    <3> SUFFICES ASSUME NEW e \in E PROVE PageOf(e) + 1 <= m
      OBVIOUS
    <3>1. CASE e \in D
      <4>1. PageOf(e) \in Nat /\ PageOf(e) + 1 <= n
        BY <3>1, <2>7, <2>8, OnItsPage DEF Paged
      <4>2. n <= m
        BY <1>2, <1>4, <2>1
      <4> QED BY <4>1, <4>2, <1>2, <1>4, <2>1
    <3>2. CASE e \in PageItems(p)
      BY <3>2, <1>2, <1>4, <2>1, <2>6
    <3> QED BY <3>1, <3>2, <2>1
  <2>10. m \in {0} \cup {PageOf(e) + 1 : e \in E}
    <3>1. CASE p < n
      <4>1. m = n /\ n \in {0} \cup {PageOf(e) + 1 : e \in D} /\ D \subseteq E
        BY <3>1, <2>1, <2>7 DEF Paged
      <4> QED BY <4>1
    <3>2. CASE ~ (p < n)
      BY <3>2, <1>1, <1>4, <2>1
    <3> QED BY <3>1, <3>2
  <2>11. Paged(E, m)
    BY <2>8, <2>9, <2>10 DEF Paged
  <2> QED BY <2>4, <2>5, <2>11 DEF PagesAre
<1> QED BY <1>5, <1>6

(* Shrinking keeps the pages that an element is on, as a whole.            *)
LEMMA ShrinkPages ==
  ASSUME NEW s, Sound(s), Paged(Allocated(s), s.extent), NEW t, t = ShrinkToFit(s)
  PROVE  Paged(Allocated(t), t.extent)
<1>1. PICK D, kept, E, f, n :
        /\ D = Allocated(s)
        /\ kept = {PageOf(id.entity) : id \in Elements(s)}
        /\ E = {x \in D : PageOf(x) \in kept}
        /\ f = [e \in E |-> s.sparse[e]]
        /\ n = Max({0} \cup {page + 1 : page \in kept})
  OBVIOUS
<1>2. s \in SetsOver(D) /\ s.packed \in Seq(Identifiers) /\ Paged(D, s.extent)
  BY <1>1 DEF Sound, SetsOver
<1>3. t = [s EXCEPT !.extent = n, !.sparse = f]
  BY <1>1 DEF ShrinkToFit
<1>4. t.sparse = f /\ t.extent = n /\ DOMAIN f = E
  BY <1>1, <1>2, <1>3 DEF SetsOver
<1>5. Allocated(t) = E
  BY <1>4 DEF Allocated
<1>6. \A page \in kept : \E e \in E : PageOf(e) = page
  <2> SUFFICES ASSUME NEW id \in Elements(s) PROVE id.entity \in E
    BY <1>1
  <2>1. PICK n0 \in 1 .. Len(s.packed) : s.packed[n0] = id
    BY <1>2 DEF Elements, ToSet
  <2>2. PICK pos : pos = n0 - 1
    OBVIOUS
  <2>3. pos \in Positions(s) /\ At(s, pos) = id
    BY <1>2, <2>1, <2>2 DEF Positions, Size, At
  <2>4. ~ IsTombstone(id)
    BY DEF Elements
  <2>5. id.entity \in D
    BY <1>1, <2>3, <2>4 DEF Sound, PackedLinked
  <2> QED BY <1>1, <2>5
<1>7. \A e \in E : e \in D /\ PageOf(e) \in kept /\ e \in Nat /\ PageOf(e) \in Nat
  <2>1. \A e \in E : e \in D /\ PageOf(e) \in kept /\ e \in Nat
    BY <1>1, <1>2 DEF Paged
  <2> QED BY <2>1, OnItsPage
<1>8. kept = {PageOf(e) : e \in E} /\ kept \subseteq Nat
  BY <1>6, <1>7
<1>9. \A e \in E : PageItems(PageOf(e)) \subseteq E
  <2> SUFFICES ASSUME NEW e \in E, NEW x \in PageItems(PageOf(e)) PROVE x \in E
    OBVIOUS
  <2>1. x \in D
    BY <1>2, <1>7 DEF Paged
  <2>2. PageOf(x) = PageOf(e)
    BY <1>7, PageItemsAre
  <2> QED BY <1>1, <1>7, <2>1, <2>2
<1>10. PICK S : S = {0} \cup {page + 1 : page \in kept}
  OBVIOUS
<1>11. n \in S /\ \A x \in S : x <= n
  <2>1. PICK m : m = s.extent
    OBVIOUS
  <2>2. m \in Nat /\ \A e \in D : PageOf(e) + 1 <= m
    BY <1>2, <2>1 DEF Paged, SetsOver
  <2>3. \A page \in kept : page \in Nat /\ page + 1 <= m
    BY <2>2, <1>7, <1>8
  <2>4. S \subseteq 0 .. m /\ 0 \in S
    BY <1>10, <2>2, <2>3
  <2> QED BY <1>1, <1>10, <2>2, <2>4, LargestExists
<1>12. n \in {0} \cup {PageOf(e) + 1 : e \in E} /\ \A e \in E : PageOf(e) + 1 <= n
  BY <1>8, <1>10, <1>11
<1>13. Paged(E, n)
  BY <1>7, <1>9, <1>12 DEF Paged
<1> QED BY <1>4, <1>5, <1>13

(* Every operation on one element, or on the whole set, keeps the pages    *)
(* whole.                                                                  *)
LEMMA StepPages ==
  ASSUME Inv, Paged(Allocated(set), set.extent), [ElementNext]_vars
  PROVE  Paged(Allocated(set'), set'.extent)
<1>1. Sound(set) /\ set.mode \in Policies
  BY DEF Inv
<1>2. PICK D, n : D = Allocated(set) /\ n = set.extent
  OBVIOUS
<1>3. PagesAre(set, D, n) /\ Paged(D, n) /\ set.mode \in Modes
  BY <1>1, <1>2 DEF Sound, SetsOver, PagesAre
<1>4. ASSUME PagesAre(set', D, n) PROVE Paged(Allocated(set'), set'.extent)
  BY <1>3, <1>4 DEF PagesAre
<1>5. ASSUME NEW id \in Ids, NEW forceBack \in BOOLEAN, Emplace(id, forceBack)
      PROVE  Paged(Allocated(set'), set'.extent)
  <2>1. set' = TryEmplace(set, id, forceBack) /\ id \in Identifiers
    BY <1>5, EntityMaskAssumption, VersionMaskAssumption
       DEF Emplace, Ids, ValidIdentifiers, Identifiers, EntityParts, VersionParts
  <2>2. PICK u : u = AssureAtLeast(set, id)
    OBVIOUS
  <2>3. Paged(Allocated(u), u.extent) /\ PagesAre(u, Allocated(u), u.extent)
    BY <1>1, <2>1, <2>2, AssurePages
  <2>4. PagesAre(set', Allocated(u), u.extent)
    BY <2>1, <2>2, <2>3, TryEmplacePages
  <2> QED BY <2>3, <2>4 DEF PagesAre
<1>6. ASSUME NEW id \in Ids, EraseOne(id)
      PROVE  PagesAre(set', D, n)
  BY <1>3, <1>6, ErasePages DEF EraseOne
<1>7. ASSUME NEW id \in Ids, NEW version \in 0 .. VersionMask - 1, BumpOne(id, version)
      PROVE  PagesAre(set', D, n)
  <2>1. PICK new : new = [id EXCEPT !.version = version]
    OBVIOUS
  <2>2. set' = Bump(set, new)
    BY <1>7, <2>1 DEF BumpOne
  <2> QED BY <1>3, <2>2, BumpPages
<1>8. ASSUME NEW lhs \in Ids, NEW rhs \in Ids, Swap(lhs, rhs)
      PROVE  PagesAre(set', D, n)
  <2>1. set' = SwapAt(set, Index(set, lhs), Index(set, rhs))
    BY <1>8 DEF Swap, SwapElements
  <2> QED BY <1>3, <2>1, SwapAtPages
<1>9. ASSUME Clear
      PROVE  PagesAre(set', D, n)
  <2>1. PICK f, h : /\ f = [e \in D |-> IF Size(set) = 0 THEN set.sparse[e] ELSE Null]
                    /\ h = PolicyToHead(set.mode)
    OBVIOUS
  <2>2. set' = [set EXCEPT !.sparse = f, !.head = h, !.packed = << >>]
    BY <1>9, <1>2, <2>1 DEF Clear, PopAll
  <2>3. DOMAIN f = D
    BY <2>1
  <2> QED BY <1>3, <2>2, <2>3 DEF PagesAre, Allocated
<1>10. ASSUME NEW value \in 0 .. MaxSize, FreeList(value)
       PROVE  PagesAre(set', D, n)
  BY <1>3, <1>10, HeadPages DEF FreeList
<1>11. ASSUME Shrink
       PROVE  Paged(Allocated(set'), set'.extent)
  BY <1>1, <1>11, ShrinkPages DEF Shrink
<1>12. ASSUME MoveOut
       PROVE  Paged(Allocated(set'), set'.extent)
  <2>1. set' = EmptySet(set.mode)
    BY <1>12 DEF MoveOut, MovedFrom
  <2>2. Allocated(set') = {} /\ set'.extent = 0
    BY <2>1 DEF EmptySet, Allocated, NoPages
  <2> QED BY <2>2 DEF Paged
<1>13. CASE UNCHANGED vars
  BY <1>13 DEF vars
<1> QED BY <1>4, <1>5, <1>6, <1>7, <1>8, <1>9, <1>10, <1>11, <1>12, <1>13 DEF ElementNext

-------------------------------------------------------------------------------
(* The free list.                                                          *)

(* path visits every hole once, from the head on.                          *)
Threads(s, path) ==
  /\ path \in Seq(Positions(s))
  /\ \A i, j \in 1 .. Len(path) : path[i] = path[j] => i = j
  /\ \A p : Hole(s, p) <=> \E i \in 1 .. Len(path) : path[i] = p
  /\ s.head = IF Len(path) = 0 THEN EntityMask ELSE path[1]
  /\ \A i \in 1 .. Len(path) :
       At(s, path[i]).entity = IF i < Len(path) THEN path[i + 1] ELSE EntityMask

(* An in-place set has such a path.                                        *)
Threaded(s) == s.mode = "in_place" => \E path : Threads(s, path)

(* The list does not notice what happens to other positions.               *)
LEMMA SameThread ==
  ASSUME NEW s, Threaded(s), NEW t, t.mode = s.mode, t.head = s.head,
         Positions(s) \subseteq Positions(t),
         \A p : Hole(s, p) => At(t, p) = At(s, p),
         \A p : Hole(t, p) => Hole(s, p)
  PROVE  Threaded(t)
<1> SUFFICES ASSUME t.mode = "in_place" PROVE \E path : Threads(t, path)
  BY DEF Threaded
<1>1. PICK path : Threads(s, path)
  BY DEF Threaded
<1>2. path \in Seq(Positions(s)) /\ path \in Seq(Positions(t))
  BY <1>1 DEF Threads
<1>3. \A p : Hole(t, p) <=> Hole(s, p)
  BY DEF Hole
<1>4. \A i \in 1 .. Len(path) : At(t, path[i]) = At(s, path[i])
  BY <1>1 DEF Threads
<1>5. Threads(t, path)
  BY <1>1, <1>2, <1>3, <1>4 DEF Threads
<1> QED BY <1>5

(* A set without positions has no holes.                                   *)
LEMMA EmptyThread ==
  ASSUME NEW s, Positions(s) = {}, s.mode = "in_place" => s.head = EntityMask
  PROVE  Threaded(s)
<1> SUFFICES ASSUME s.mode = "in_place" PROVE Threads(s, << >>)
  BY DEF Threaded
<1>1. Len(<< >>) = 0 /\ << >> \in Seq(Positions(s)) /\ 1 .. 0 = {}
  OBVIOUS
<1>2. \A p : ~ Hole(s, p)
  BY DEF Hole
<1> QED BY <1>1, <1>2 DEF Threads

(* Emplacing in the head takes it off the list.                            *)
LEMMA UnlinkThread ==
  ASSUME NEW s, Sound(s), Threaded(s), s.mode = "in_place", s.head # EntityMask,
         NEW id \in Identifiers, ~ IsTombstone(id), id.entity \in Allocated(s), IsNull(Elem(s, id)),
         NEW t, t = EmplaceInPlace(s, id)
  PROVE  Threaded(t)
<1>1. PICK path : Threads(s, path)
  BY DEF Threaded
<1>2. /\ t.mode = s.mode /\ Positions(t) = Positions(s)
      /\ \A p \in Positions(s) : At(t, p) = IF p = s.head THEN id ELSE At(s, p)
  BY EmplaceInPlaceSound
<1>3. PICK D : D = Allocated(s)
  OBVIOUS
<1>4. s \in SetsOver(D) /\ s.head \in Positions(s) /\ s.head \in 0 .. EntityMask /\ id.entity \in D
  <2>1. Hole(s, s.head)
    BY DEF Sound, ListSound
  <2>2. Positions(s) \subseteq 0 .. EntityMask - 1 /\ s \in SetsOver(D)
    BY <1>3, PositionsFit
  <2> QED BY <1>3, <2>1, <2>2, EntityMaskAssumption DEF Hole
<1>5. t.head = At(s, s.head).entity
  <2>1. PICK h : h = s.head
    OBVIOUS
  <2>2. /\ t \in SetsOver(D) /\ t.mode = s.mode /\ t.head = At(s, h).entity
        /\ Size(t) = Size(s) /\ Positions(t) = Positions(s)
        /\ \A p \in Positions(s) : At(t, p) = IF p = h THEN id ELSE At(s, p)
        /\ \A d \in D : t.sparse[d] = IF d = id.entity THEN [entity |-> h, version |-> id.version]
                                      ELSE s.sparse[d]
    BY <1>4, <2>1, EmplaceInPlaceFacts
  <2> QED BY <2>1, <2>2
<1>6. PICK n : n = Len(path)
  OBVIOUS
<1>7. /\ path \in Seq(Positions(s)) /\ n \in Nat /\ n > 0 /\ s.head = path[1]
      /\ \A i \in 1 .. n : path[i] \in Positions(s)
      /\ \A i, j \in 1 .. n : path[i] = path[j] => i = j
      /\ \A p : Hole(s, p) <=> \E i \in 1 .. n : path[i] = p
      /\ \A i \in 1 .. n : At(s, path[i]).entity = IF i < n THEN path[i + 1] ELSE EntityMask
  BY <1>1, <1>6 DEF Threads
<1>8. PICK rest : rest = [i \in 1 .. n - 1 |-> path[i + 1]]
  OBVIOUS
<1>9. /\ rest \in Seq(Positions(s)) /\ Len(rest) = n - 1
      /\ \A i \in 1 .. n - 1 : rest[i] = path[i + 1] /\ i + 1 \in 1 .. n
  <2>1. PICK m \in Nat : m = n - 1
    BY <1>7
  <2>2. PICK P : P = Positions(s)
    OBVIOUS
  <2>3. \A i \in 1 .. m : i + 1 \in 1 .. n
    BY <1>7, <2>1
  <2>4. \A i \in 1 .. m : path[i + 1] \in P
    BY <1>7, <2>2, <2>3
  <2>5. rest = [i \in 1 .. m |-> path[i + 1]]
    BY <1>8, <2>1
  <2>6. rest \in Seq(P) /\ Len(rest) = m
    BY <2>1, <2>4, <2>5
  <2> QED BY <2>1, <2>2, <2>3, <2>5, <2>6
<1>10. \A i, j \in 1 .. n - 1 : rest[i] = rest[j] => i = j
  BY <1>7, <1>9
<1>11. ASSUME NEW p PROVE Hole(t, p) <=> \E i \in 1 .. n - 1 : rest[i] = p
  <2>1. Hole(t, p) <=> Hole(s, p) /\ p # path[1]
    BY <1>2, <1>7 DEF Hole
  <2>2. ASSUME NEW i \in 1 .. n, path[i] = p, p # path[1] PROVE \E j \in 1 .. n - 1 : rest[j] = p
    <3>1. i - 1 \in 1 .. n - 1 /\ (i - 1) + 1 = i
      BY <2>2, <1>7
    <3> QED BY <3>1, <2>2, <1>9
  <2>3. ASSUME NEW j \in 1 .. n - 1, rest[j] = p PROVE Hole(s, p) /\ p # path[1]
    <3>1. path[j + 1] = p /\ j + 1 \in 1 .. n /\ j + 1 # 1 /\ 1 \in 1 .. n
      BY <2>3, <1>7, <1>9
    <3> QED BY <3>1, <1>7
  <2> QED BY <2>1, <2>2, <2>3, <1>7
<1>12. t.head = IF n - 1 = 0 THEN EntityMask ELSE rest[1]
  <2>1. 1 \in 1 .. n /\ At(s, path[1]).entity = IF 1 < n THEN path[1 + 1] ELSE EntityMask
    BY <1>7
  <2> QED BY <2>1, <1>5, <1>7, <1>9
<1>13. ASSUME NEW i \in 1 .. n - 1
       PROVE  At(t, rest[i]).entity = IF i < n - 1 THEN rest[i + 1] ELSE EntityMask
  <2>1. rest[i] = path[i + 1] /\ i + 1 \in 1 .. n /\ i + 1 # 1 /\ 1 \in 1 .. n
    BY <1>7, <1>9
  <2>2. rest[i] \in Positions(s) /\ rest[i] # s.head
    BY <2>1, <1>7
  <2>3. At(t, rest[i]) = At(s, path[i + 1])
    BY <2>1, <2>2, <1>2
  <2>4. At(s, path[i + 1]).entity = IF i + 1 < n THEN path[(i + 1) + 1] ELSE EntityMask
    BY <2>1, <1>7
  <2>5. i < n - 1 => i + 1 \in 1 .. n - 1
    BY <1>7
  <2> QED BY <2>3, <2>4, <2>5, <1>7, <1>9
<1>14. Threads(t, rest)
  <2>1. rest \in Seq(Positions(t)) /\ Len(rest) = n - 1
    BY <1>2, <1>9
  <2> QED BY <2>1, <1>10, <1>11, <1>12, <1>13 DEF Threads
<1> QED BY <1>14 DEF Threaded

(* Erasing puts the hole before the list.                                  *)
LEMMA LinkThread ==
  ASSUME NEW s, Sound(s), Threaded(s), s.mode = "in_place", NEW id \in InUse(s),
         NEW t, t = InPlacePop(s, id)
  PROVE  Threaded(t)
<1>1. PICK path : Threads(s, path)
  BY DEF Threaded
<1>2. PICK D, pos : D = Allocated(s) /\ pos = Elem(s, id).entity
  OBVIOUS
<1>3. /\ pos \in Positions(s) /\ At(s, pos) = id /\ id \in Identifiers /\ ~ IsTombstone(id)
      /\ id.entity \in D
  BY <1>2, WhereUsed
<1>4. s \in SetsOver(D) /\ s.head \in 0 .. EntityMask
  BY <1>2, PositionsFit, EntityMaskAssumption DEF Sound, ListSound, Hole
<1>5. pos = s.sparse[id.entity].entity
  BY <1>2 DEF Elem
<1>6. /\ t.mode = s.mode /\ t.head = pos /\ Positions(t) = Positions(s)
      /\ \A p \in Positions(s) :
           At(t, p) = IF p = pos THEN [entity |-> s.head, version |-> VersionMask] ELSE At(s, p)
  BY <1>3, <1>4, <1>5, InPlacePopFacts
<1>7. PICK n : n = Len(path)
  OBVIOUS
<1>8. /\ path \in Seq(Positions(s)) /\ n \in Nat
      /\ s.head = IF n = 0 THEN EntityMask ELSE path[1]
      /\ \A i \in 1 .. n : path[i] \in Positions(s)
      /\ \A i, j \in 1 .. n : path[i] = path[j] => i = j
      /\ \A p : Hole(s, p) <=> \E i \in 1 .. n : path[i] = p
      /\ \A i \in 1 .. n : At(s, path[i]).entity = IF i < n THEN path[i + 1] ELSE EntityMask
  BY <1>1, <1>7 DEF Threads
<1>9. PICK longer : longer = [i \in 1 .. n + 1 |-> IF i = 1 THEN pos ELSE path[i - 1]]
  OBVIOUS
<1>10. \A i \in 1 .. n + 1 : i # 1 => i - 1 \in 1 .. n
  BY <1>8
<1>11. /\ longer \in Seq(Positions(s)) /\ Len(longer) = n + 1
       /\ longer[1] = pos /\ \A i \in 1 .. n : longer[i + 1] = path[i] /\ i + 1 \in 1 .. n + 1
       /\ \A i \in 1 .. n + 1 : i # 1 => longer[i] = path[i - 1]
  BY <1>3, <1>8, <1>9, <1>10
<1>12. \A i \in 1 .. n : path[i] # pos
  BY <1>3, <1>8 DEF Hole
<1>13. \A i, j \in 1 .. n + 1 : longer[i] = longer[j] => i = j
  <2> SUFFICES ASSUME NEW i \in 1 .. n + 1, NEW j \in 1 .. n + 1, longer[i] = longer[j]
               PROVE  i = j
    OBVIOUS
  <2>1. CASE i = 1 \/ j = 1
    BY <2>1, <1>10, <1>11, <1>12
  <2>2. CASE i # 1 /\ j # 1
    <3>1. i - 1 \in 1 .. n /\ j - 1 \in 1 .. n /\ path[i - 1] = path[j - 1]
      BY <2>2, <1>10, <1>11
    <3>2. i - 1 = j - 1
      BY <3>1, <1>8
    <3> QED BY <3>2, <1>8
  <2> QED BY <2>1, <2>2
<1>14. ASSUME NEW p PROVE Hole(t, p) <=> \E i \in 1 .. n + 1 : longer[i] = p
  <2>1. Hole(t, p) <=> Hole(s, p) \/ p = pos
    BY <1>3, <1>6 DEF Hole, IsTombstone
  <2>2. ASSUME NEW i \in 1 .. n + 1, longer[i] = p PROVE Hole(s, p) \/ p = pos
    BY <2>2, <1>8, <1>10, <1>11
  <2>3. ASSUME Hole(s, p) \/ p = pos PROVE \E i \in 1 .. n + 1 : longer[i] = p
    <3>1. 1 \in 1 .. n + 1
      BY <1>8
    <3> QED BY <2>3, <3>1, <1>8, <1>11
  <2> QED BY <2>1, <2>2, <2>3
<1>15. ASSUME NEW i \in 1 .. n + 1
       PROVE  At(t, longer[i]).entity = IF i < n + 1 THEN longer[i + 1] ELSE EntityMask
  <2>1. CASE i = 1
    <3>1. At(t, pos).entity = s.head
      BY <1>3, <1>6
    <3>2. n # 0 => 1 \in 1 .. n /\ longer[1 + 1] = path[1]
      BY <1>8, <1>11
    <3>3. 1 < n + 1 <=> n # 0
      BY <1>8
    <3> QED BY <2>1, <3>1, <3>2, <3>3, <1>8, <1>11
  <2>2. CASE i # 1
    <3>1. PICK j \in 1 .. n : j = i - 1
      BY <2>2, <1>10
    <3>2. longer[i] = path[j] /\ path[j] \in Positions(s) /\ path[j] # pos
      BY <2>2, <3>1, <1>8, <1>11, <1>12
    <3>3. At(t, longer[i]).entity = IF j < n THEN path[j + 1] ELSE EntityMask
      BY <3>1, <3>2, <1>6, <1>8
    <3>4. j < n => j + 1 \in 1 .. n /\ longer[(j + 1) + 1] = path[j + 1]
      BY <3>1, <1>8, <1>11
    <3>5. i = j + 1 /\ (j < n <=> i < n + 1)
      BY <3>1, <1>8
    <3> QED BY <3>3, <3>4, <3>5
  <2> QED BY <2>1, <2>2
<1>16. Threads(t, longer)
  <2>1. longer \in Seq(Positions(t)) /\ Len(longer) = n + 1 /\ n + 1 # 0 /\ t.head = longer[1]
    BY <1>6, <1>8, <1>11
  <2> QED BY <2>1, <1>13, <1>14, <1>15 DEF Threads
<1> QED BY <1>16 DEF Threaded

(* Emplacing, with the in-place policy.                                    *)
LEMMA EmplaceThread ==
  ASSUME NEW s, Sound(s), Threaded(s), s.mode = "in_place", NEW id \in ValidIdentifiers,
         CanEmplace(s, id), NEW forceBack \in BOOLEAN,
         NEW t, t = TryEmplace(s, id, forceBack), Size(t) <= EntityMask
  PROVE  Threaded(t)
<1>1. PICK u : u = AssureAtLeast(s, id)
  OBVIOUS
<1>2. id \in Identifiers /\ ~ IsTombstone(id)
  BY EntityMaskAssumption, VersionMaskAssumption
     DEF ValidIdentifiers, Identifiers, EntityParts, VersionParts, IsTombstone
<1>3. /\ Sound(u) /\ id.entity \in Allocated(u)
      /\ u.mode = s.mode /\ u.head = s.head /\ u.packed = s.packed
      /\ id.entity \in Allocated(s) => Elem(u, id) = Elem(s, id)
      /\ id.entity \notin Allocated(s) => Elem(u, id) = Null
  BY <1>1, <1>2, AssureSound
<1>4. IsNull(Elem(u, id))
  BY <1>3 DEF CanEmplace, IsNull, Null
<1>5. Positions(u) = Positions(s) /\ \A p : At(u, p) = At(s, p)
  BY <1>3, SamePacked
<1>6. Threaded(u)
  <2>1. \A p : Hole(u, p) <=> Hole(s, p)
    BY <1>5 DEF Hole
  <2> QED BY <2>1, <1>3, <1>5, SameThread
<1>7. CASE s.head # EntityMask /\ ~ forceBack
  <2>1. t = EmplaceInPlace(u, id)
    BY <1>1, <1>7 DEF TryEmplace
  <2> QED BY <2>1, <1>2, <1>3, <1>4, <1>6, <1>7, UnlinkThread
<1>8. CASE ~ (s.head # EntityMask /\ ~ forceBack)
  <2>1. t = PushBack(u, id)
    BY <1>1, <1>8 DEF TryEmplace
  <2>2. Size(t) = Size(u) + 1 /\ Size(u) \in Nat
    BY <2>1, <1>2, <1>3, PushBackGrows, PositionsFit
  <2>3. Size(u) < EntityMask
    BY <2>2, EntityMaskAssumption
  <2>4. /\ Sound(t) /\ t.mode = u.mode /\ t.head = u.head /\ At(t, Size(u)) = id
        /\ \A p \in Positions(u) : At(t, p) = At(u, p)
    BY <2>1, <2>3, <1>2, <1>3, <1>4, PushBackSound
  <2>5. Positions(u) = 0 .. Size(u) - 1 /\ Positions(t) = 0 .. Size(u)
    BY <2>2 DEF Positions
  <2>6. Positions(u) \subseteq Positions(t)
        /\ \A p \in Positions(t) : p \in Positions(u) \/ p = Size(u)
    BY <2>2, <2>5
  <2>7. \A p : Hole(t, p) => Hole(u, p)
    BY <2>4, <2>6, <1>2 DEF Hole
  <2>8. \A p : Hole(u, p) => At(t, p) = At(u, p)
    BY <2>4 DEF Hole
  <2> QED BY <2>4, <2>6, <2>7, <2>8, <1>6, SameThread
<1> QED BY <1>7, <1>8

(* Every operation on one element, or on the whole set, keeps every hole   *)
(* on the list.                                                            *)
LEMMA StepThreads ==
  ASSUME MaxSize <= EntityMask, Inv, Threaded(set), [ElementNext]_vars
  PROVE  Threaded(set')
<1>0. Sound(set) /\ set.mode \in Policies /\ InUse(set) = content
  BY DEF Inv
<1>1. ASSUME NEW id \in Ids, NEW forceBack \in BOOLEAN, Emplace(id, forceBack)
      PROVE  Threaded(set')
  <2>1. /\ CanEmplace(set, id) /\ set' = TryEmplace(set, id, forceBack)
        /\ Size(set') <= MaxSize
    BY <1>1 DEF Emplace
  <2>2. id \in ValidIdentifiers
    BY DEF Ids
  <2>3. MaxSize \in 0 .. EntityMask
    BY MaxSizeAssumption, EntityMaskAssumption
  <2>4. Sound(set') /\ set'.mode = set.mode
    BY <1>0, <2>1, <2>2, <2>3, TryEmplaceUse
  <2>5. CASE set.mode = "in_place"
    <3>1. Size(set') <= EntityMask
      BY <2>4 DEF Sound
    <3> QED BY <1>0, <2>1, <2>2, <2>5, <3>1, EmplaceThread
  <2>6. CASE set.mode # "in_place"
    BY <2>4, <2>6 DEF Threaded
  <2> QED BY <2>5, <2>6
<1>2. ASSUME NEW id \in Ids, EraseOne(id)
      PROVE  Threaded(set')
  <2>1. id \in InUse(set) /\ set' = Erase(set, id)
    BY <1>2 DEF EraseOne, Owned
  <2>2. set'.mode = set.mode
    BY <1>0, <2>1, EraseUse
  <2>3. CASE set.mode = "in_place"
    <3>1. set' = InPlacePop(set, id)
      BY <2>1, <2>3 DEF Erase
    <3> QED BY <1>0, <2>1, <2>3, <3>1, LinkThread
  <2>4. CASE set.mode # "in_place"
    BY <2>2, <2>4 DEF Threaded
  <2> QED BY <2>3, <2>4
<1>3. ASSUME NEW id \in Ids, NEW version \in 0 .. VersionMask - 1, BumpOne(id, version)
      PROVE  Threaded(set')
  <2>1. PICK new : new = [id EXCEPT !.version = version]
    OBVIOUS
  <2>2. id \in InUse(set) /\ set' = Bump(set, new)
    BY <1>3, <2>1 DEF BumpOne, Owned
  <2>3. new \in Ids /\ new.entity = id.entity
    BY <2>1 DEF Ids, ValidIdentifiers
  <2>4. new \in Identifiers /\ ~ IsTombstone(new)
    BY <2>3, EntityMaskAssumption, VersionMaskAssumption
       DEF Ids, ValidIdentifiers, Identifiers, EntityParts, VersionParts, IsTombstone
  <2>5. PICK pos : pos = Elem(set, id).entity
    OBVIOUS
  <2>6. /\ pos \in Positions(set) /\ At(set, pos) = id /\ ~ IsTombstone(id)
        /\ id.entity \in Allocated(set) /\ ~ IsNull(Elem(set, id))
    BY <1>0, <2>2, <2>5, WhereUsed
  <2>7. Elem(set, new) = Elem(set, id)
    BY <2>3 DEF Elem
  <2>8. /\ set'.mode = set.mode /\ set'.head = set.head /\ Positions(set') = Positions(set)
        /\ \A p \in Positions(set) : At(set', p) = IF p = pos THEN new ELSE At(set, p)
    BY <1>0, <2>2, <2>3, <2>4, <2>5, <2>6, <2>7, BumpSound
  <2>9. (\A p : Hole(set, p) => At(set', p) = At(set, p)) /\ (\A p : Hole(set', p) => Hole(set, p))
    BY <2>4, <2>6, <2>8 DEF Hole
  <2> QED BY <2>8, <2>9, SameThread
<1>4. ASSUME NEW lhs \in Ids, NEW rhs \in Ids, Swap(lhs, rhs)
      PROVE  Threaded(set')
  <2>1. PICK p1, p2 : p1 = Elem(set, lhs).entity /\ p2 = Elem(set, rhs).entity
    OBVIOUS
  <2>2. lhs \in InUse(set) /\ rhs \in InUse(set) /\ set' = SwapAt(set, p1, p2)
    BY <1>4, <2>1 DEF Swap, Owned, SwapElements, Index
  <2>3. p1 \in Positions(set) /\ At(set, p1) = lhs /\ ~ IsTombstone(lhs)
    BY <1>0, <2>1, <2>2, WhereUsed
  <2>4. p2 \in Positions(set) /\ At(set, p2) = rhs /\ ~ IsTombstone(rhs)
    BY <1>0, <2>1, <2>2, WhereUsed
  <2>5. /\ set'.mode = set.mode /\ set'.head = set.head /\ Positions(set') = Positions(set)
        /\ \A p \in Positions(set) :
             At(set', p) = IF p = p2 THEN At(set, p1) ELSE IF p = p1 THEN At(set, p2) ELSE At(set, p)
    BY <1>0, <2>2, <2>3, <2>4, SwapAtSound
  <2>6. (\A p : Hole(set, p) => At(set', p) = At(set, p)) /\ (\A p : Hole(set', p) => Hole(set, p))
    BY <2>3, <2>4, <2>5 DEF Hole
  <2> QED BY <2>5, <2>6, SameThread
<1>5. ASSUME Clear
      PROVE  Threaded(set')
  <2>1. set' = PopAll(set)
    BY <1>5 DEF Clear
  <2>2. Sound(set') /\ Size(set') = 0
    BY <1>0, <2>1, PopAllSound
  <2>3. Positions(set') = {}
    BY <2>2 DEF Positions
  <2>4. set'.mode = "in_place" => set'.head = EntityMask
    BY <2>2, <2>3 DEF Sound, ListSound, Hole
  <2> QED BY <2>3, <2>4, EmptyThread
<1>6. ASSUME NEW value \in 0 .. MaxSize, FreeList(value)
      PROVE  Threaded(set')
  <2>1. set.mode = "swap_only" /\ value <= Size(set) /\ set' = [set EXCEPT !.head = value]
    BY <1>6 DEF FreeList
  <2>2. value \in 0 .. Size(set)
    BY <1>0, <2>1, PositionsFit, MaxSizeAssumption
  <2>3. set'.mode = set.mode
    BY <1>0, <2>1, <2>2, HeadChangeSound
  <2> QED BY <2>1, <2>3 DEF Threaded
<1>7. ASSUME Shrink
      PROVE  Threaded(set')
  <2>1. set' = ShrinkToFit(set)
    BY <1>7 DEF Shrink
  <2>2. set'.mode = set.mode /\ set'.head = set.head /\ set'.packed = set.packed
    BY <1>0, <2>1, ShrinkSound
  <2>3. Positions(set') = Positions(set) /\ \A p : At(set', p) = At(set, p)
    BY <2>2, SamePacked
  <2>4. \A p : Hole(set', p) <=> Hole(set, p)
    BY <2>3 DEF Hole
  <2> QED BY <2>2, <2>3, <2>4, SameThread
<1>8. ASSUME MoveOut
      PROVE  Threaded(set')
  <2>1. set' = EmptySet(set.mode) /\ set.mode \in Modes
    BY <1>0, <1>8 DEF MoveOut, MovedFrom, Sound, SetsOver
  <2>2. Sound(set') /\ Size(set') = 0
    BY <2>1, EmptySound
  <2>3. Positions(set') = {}
    BY <2>2 DEF Positions
  <2>4. set'.mode = "in_place" => set'.head = EntityMask
    BY <2>2, <2>3 DEF Sound, ListSound, Hole
  <2> QED BY <2>3, <2>4, EmptyThread
<1>9. CASE UNCHANGED vars
  BY <1>9 DEF vars
<1> QED BY <1>1, <1>2, <1>3, <1>4, <1>5, <1>6, <1>7, <1>8, <1>9 DEF ElementNext

(* One step of the walk that FreePositions takes along the list.           *)
Further(q, n) ==
  LET pos == IF q = << >> THEN set.head ELSE At(set, Last(q)).entity
  IN  IF pos = EntityMask \/ Len(q) < n - 1 THEN q ELSE Append(q, pos)

(* The first k positions of the list.                                      *)
Start(path, k) == [i \in 1 .. k |-> path[i]]

(* A start is a sequence of positions, longer by one than the start before.*)
LEMMA StartFacts ==
  ASSUME NEW S, NEW path \in Seq(S), NEW k \in 0 .. Len(path), NEW q, q = Start(path, k)
  PROVE  /\ q \in Seq(S) /\ Len(q) = k /\ \A i \in 1 .. k : q[i] = path[i]
         /\ k = 0 => q = << >>
         /\ k = Len(path) => q = path
         /\ k < Len(path) => Append(q, path[k + 1]) = Start(path, k + 1)
<1>1. PICK n : n = Len(path)
  OBVIOUS
<1>2. n \in Nat /\ k \in 0 .. n /\ \A i \in 1 .. n : path[i] \in S
  BY <1>1, SeqFacts
<1>3. q \in Seq(S) /\ Len(q) = k /\ \A i \in 1 .. k : q[i] = path[i]
  BY <1>2 DEF Start
<1>4. ASSUME k = 0 PROVE q = << >>
  BY <1>3, <1>4, SeqFacts
<1>5. ASSUME k = n PROVE q = path
  BY <1>1, <1>3, <1>5, SeqEqual
<1>6. ASSUME k < n PROVE Append(q, path[k + 1]) = Start(path, k + 1)
  <2>1. PICK r, x : r = Start(path, k + 1) /\ x = path[k + 1]
    OBVIOUS
  <2>2. r \in Seq(S) /\ Len(r) = k + 1 /\ (\A i \in 1 .. k + 1 : r[i] = path[i]) /\ x \in S
    BY <1>2, <1>6, <2>1 DEF Start
  <2>3. PICK t : t = Append(q, x)
    OBVIOUS
  <2>4. /\ t \in Seq(S) /\ Len(t) = k + 1 /\ t[k + 1] = x /\ \A i \in 1 .. k : t[i] = path[i]
    BY <1>3, <2>2, <2>3, AppendProperties
  <2>5. \A i \in 1 .. k + 1 : t[i] = r[i]
    <3>1. \A i \in 1 .. k + 1 : i \in 1 .. k \/ i = k + 1
      BY <1>2
    <3> QED BY <3>1, <2>1, <2>2, <2>4
  <2>6. t = r
    BY <2>2, <2>4, <2>5, SeqEqual
  <2> QED BY <2>1, <2>3, <2>6
<1> QED BY <1>1, <1>3, <1>4, <1>5, <1>6

(* The walk is the list: it goes on to the end, and stops there.           *)
LEMMA FurtherIs ==
  ASSUME Sound(set), NEW path, Threads(set, path), NEW k \in 0 .. Len(path), NEW n \in Nat,
         IF k < Len(path) THEN n = k + 1 ELSE n > k
  PROVE  Further(Start(path, k), n) = Start(path, IF k < Len(path) THEN k + 1 ELSE k)
<1>1. PICK q, pos, l : /\ q = Start(path, k) /\ l = Len(path)
                       /\ pos = IF q = << >> THEN set.head ELSE At(set, Last(q)).entity
  OBVIOUS
<1>2. Further(q, n) = IF pos = EntityMask \/ Len(q) < n - 1 THEN q ELSE Append(q, pos)
  BY <1>1 DEF Further
<1>3. /\ path \in Seq(Positions(set)) /\ l \in Nat
      /\ set.head = IF l = 0 THEN EntityMask ELSE path[1]
      /\ \A i \in 1 .. l : path[i] \in Positions(set)
      /\ \A i \in 1 .. l : At(set, path[i]).entity = IF i < l THEN path[i + 1] ELSE EntityMask
  BY <1>1 DEF Threads
<1>4. /\ q \in Seq(Positions(set)) /\ Len(q) = k /\ \A i \in 1 .. k : q[i] = path[i]
      /\ k = 0 => q = << >>
      /\ k < l => Append(q, path[k + 1]) = Start(path, k + 1)
  BY <1>1, <1>3, StartFacts
<1>5. k > 0 => q # << >> /\ Last(q) = path[k]
  <2>1. q # << >> <=> k > 0
    BY <1>4, SeqFacts
  <2> QED BY <2>1, <1>1, <1>4 DEF Last
<1>6. pos = IF k < l THEN path[k + 1] ELSE EntityMask
  <2>1. CASE k = 0
    BY <2>1, <1>1, <1>3, <1>4
  <2>2. CASE k > 0
    <3>1. k \in 1 .. l
      BY <2>2, <1>1
    <3> QED BY <2>2, <3>1, <1>1, <1>3, <1>5
  <2> QED BY <2>1, <2>2
<1>7. CASE k < l
  <2>1. k + 1 \in 1 .. l /\ n - 1 = k
    BY <1>1, <1>3, <1>7
  <2>2. pos \in Positions(set) /\ pos = path[k + 1]
    BY <2>1, <1>3, <1>6, <1>7
  <2>3. pos # EntityMask
    BY <2>2, PositionsFit, EntityMaskAssumption
  <2>4. Further(q, n) = Append(q, path[k + 1])
    BY <2>1, <2>2, <2>3, <1>2, <1>4
  <2> QED BY <2>4, <1>1, <1>4, <1>7
<1>8. CASE ~ (k < l)
  <2>1. Further(q, n) = q
    BY <1>2, <1>6, <1>8
  <2> QED BY <2>1, <1>1, <1>8
<1> QED BY <1>7, <1>8

(* Hence FreePositions is the list.                                        *)
LEMMA WalkIs ==
  ASSUME Sound(set), NEW path, Threads(set, path), Len(path) <= Size(set)
  PROVE  FreePositions = path
<1>1. PICK l : l = Len(path)
  OBVIOUS
<1>2. l \in Nat /\ path \in Seq(Positions(set)) /\ Size(set) \in Nat /\ l <= Size(set)
  BY <1>1, PositionsFit DEF Threads
<1>3. PICK w : w = [n \in Nat |-> Start(path, IF n <= l THEN n ELSE l)]
  OBVIOUS
<1>4. Start(path, 0) = << >>
  <2>1. 0 \in 0 .. Len(path)
    BY <1>1, <1>2
  <2> QED BY <2>1, <1>2, StartFacts
<1>5. w[0] = << >>
  BY <1>2, <1>3, <1>4
<1>6. ASSUME NEW n \in Nat, n # 0 PROVE w[n] = Further(w[n - 1], n)
  <2>1. PICK k : k = IF n - 1 <= l THEN n - 1 ELSE l
    OBVIOUS
  <2>2. k \in 0 .. Len(path) /\ IF k < Len(path) THEN n = k + 1 ELSE n > k
    BY <2>1, <1>1, <1>2, <1>6
  <2>3. Further(Start(path, k), n) = Start(path, IF k < Len(path) THEN k + 1 ELSE k)
    BY <2>2, FurtherIs
  <2>4. w[n - 1] = Start(path, k) /\ n - 1 \in Nat
    BY <2>1, <1>3, <1>6
  <2>5. (IF k < Len(path) THEN k + 1 ELSE k) = IF n <= l THEN n ELSE l
    BY <2>1, <1>1, <1>2, <1>6
  <2>6. w[n] = Start(path, IF n <= l THEN n ELSE l)
    BY <1>3
  <2> QED BY <2>3, <2>4, <2>5, <2>6
<1>7. w = [n \in Nat |-> IF n = 0 THEN << >> ELSE Further(w[n - 1], n)]
  <2>1. \A n \in Nat : w[n] = IF n = 0 THEN << >> ELSE Further(w[n - 1], n)
    BY <1>5, <1>6
  <2> QED BY <2>1, <1>3
<1>8. \E h : h = [n \in Nat |-> IF n = 0 THEN << >> ELSE Further(h[n - 1], n)]
  BY <1>7
<1>9. PICK h : /\ h = [n \in Nat |-> IF n = 0 THEN << >> ELSE Further(h[n - 1], n)]
               /\ FreePositions = h[Size(set) + 1]
  BY ZenonT(60), <1>8 DEF FreePositions, Further
<1>10. PICK T : T = {n \in Nat : h[n] = w[n]}
  OBVIOUS
<1>11. 0 \in T
  BY <1>5, <1>9, <1>10
<1>12. ASSUME NEW n \in 1 .. Size(set) + 1, n - 1 \in T PROVE n \in T
  <2>1. n \in Nat /\ n # 0 /\ h[n - 1] = w[n - 1]
    BY <1>10, <1>12
  <2>2. h[n] = Further(h[n - 1], n)
    BY <2>1, <1>9
  <2>3. w[n] = Further(w[n - 1], n)
    BY <2>1, <1>6
  <2> QED BY <2>1, <2>2, <2>3, <1>10
<1>13. h[Size(set) + 1] = w[Size(set) + 1]
  <2>1. Size(set) + 1 \in Nat /\ Size(set) + 1 \in 0 .. Size(set) + 1
    BY <1>2
  <2>2. Size(set) + 1 \in T
    BY <2>1, <1>11, <1>12, CountUp
  <2> QED BY <2>2, <1>10
<1>14. w[Size(set) + 1] = Start(path, l)
  BY <1>2, <1>3
<1>15. Start(path, l) = path
  <2>1. l \in 0 .. Len(path)
    BY <1>1, <1>2
  <2> QED BY <2>1, <1>1, <1>2, StartFacts
<1> QED BY <1>9, <1>13, <1>14, <1>15

(* The list of the holes is no longer than the packed array.               *)
LEMMA ThreadShort ==
  ASSUME NEW s, Sound(s), NEW path, Threads(s, path)
  PROVE  Len(path) \in Nat /\ Len(path) <= Size(s)
<1>1. PICK l : l = Len(path)
  OBVIOUS
<1>2. /\ path \in Seq(Positions(s)) /\ l \in Nat /\ path \in [1 .. l -> Positions(s)]
      /\ \A i, j \in 1 .. l : path[i] = path[j] => i = j
  BY <1>1 DEF Threads
<1>3. Positions(s) = 0 .. Size(s) - 1 /\ Size(s) \in Nat
  BY PositionsFit
<1>4. path \in Injection(1 .. l, Positions(s))
  BY <1>2 DEF Injection, IsInjective
<1>5. IsFiniteSet(Positions(s)) /\ Cardinality(Positions(s)) = Size(s)
  BY <1>3, FS_Interval
<1>6. Cardinality(1 .. l) = l
  BY <1>2, FS_Interval
<1>7. Cardinality(1 .. l) <= Cardinality(Positions(s))
  BY <1>4, <1>5, FS_Injection
<1> QED BY <1>1, <1>2, <1>5, <1>6, <1>7

(* The list visits the holes, and is no longer than the packed array.      *)
LEMMA ThreadExact ==
  ASSUME Sound(set), Threaded(set)
  PROVE  FreeListExact
<1> SUFFICES ASSUME set.mode = "in_place"
             PROVE  /\ Len(FreePositions) <= Size(set)
                    /\ IsInjective(FreePositions)
                    /\ ToSet(FreePositions) = {pos \in Positions(set) : IsTombstone(At(set, pos))}
  BY DEF FreeListExact
<1>1. PICK path : Threads(set, path)
  BY DEF Threaded
<1>2. PICK l : l = Len(path)
  OBVIOUS
<1>3. /\ path \in Seq(Positions(set)) /\ l \in Nat /\ path \in [1 .. l -> Positions(set)]
      /\ \A i, j \in 1 .. l : path[i] = path[j] => i = j
      /\ \A p : Hole(set, p) <=> \E i \in 1 .. l : path[i] = p
  BY <1>1, <1>2 DEF Threads
<1>4. Positions(set) = 0 .. Size(set) - 1 /\ Size(set) \in Nat
  BY PositionsFit
<1>5. IsInjective(path) /\ ToSet(path) = {path[i] : i \in 1 .. l}
  BY <1>2, <1>3, ElementsIs
<1>6. l <= Size(set)
  BY <1>1, <1>2, ThreadShort
<1>7. FreePositions = path
  BY <1>1, <1>2, <1>6, WalkIs
<1>8. \A p : p \in ToSet(path) <=> p \in Positions(set) /\ IsTombstone(At(set, p))
  BY <1>3, <1>5 DEF Hole
<1> QED BY <1>2, <1>5, <1>6, <1>7, <1>8

(* The inductive invariant of both structures.                             *)
Structured == Inv /\ Threaded(set) /\ Paged(Allocated(set), set.extent)

(* A new set has neither holes nor pages.                                  *)
LEMMA InitStructured == Init => Structured
<1> SUFFICES ASSUME Init PROVE Structured
  OBVIOUS
<1>1. PICK mode \in Policies : set = EmptySet(mode)
  BY DEF Init
<1>2. Inv
  BY InitInv
<1>3. Sound(set) /\ Size(set) = 0
  BY <1>1, EmptySound, PoliciesAssumption
<1>4. Positions(set) = {}
  BY <1>3 DEF Positions
<1>5. set.mode = "in_place" => set.head = EntityMask
  BY <1>3, <1>4 DEF Sound, ListSound, Hole
<1>6. Threaded(set)
  BY <1>4, <1>5, EmptyThread
<1>7. Allocated(set) = {} /\ set.extent = 0
  BY <1>1 DEF EmptySet, Allocated, NoPages
<1>8. Paged(Allocated(set), set.extent)
  BY <1>7 DEF Paged
<1> QED BY <1>2, <1>6, <1>8 DEF Structured

(* Every step keeps it.                                                    *)
LEMMA StepStructured ==
  ASSUME MaxSize <= EntityMask
  PROVE  Structured /\ [ElementNext]_vars => Structured'
<1> SUFFICES ASSUME Structured, [ElementNext]_vars PROVE Structured'
  OBVIOUS
<1>1. Inv'
  BY StepInv DEF Structured
<1>2. Threaded(set')
  BY StepThreads DEF Structured
<1>3. Paged(Allocated(set'), set'.extent)
  BY StepPages DEF Structured
<1> QED BY <1>1, <1>2, <1>3 DEF Structured

(* It implies the property.                                                *)
LEMMA StructuredWhole == Structured => StructureWhole
<1> SUFFICES ASSUME Structured PROVE StructureWhole
  OBVIOUS
<1>1. FreeListExact
  BY ThreadExact DEF Structured, Inv
<1>2. PagesWhole
  BY PagedWhole DEF Structured
<1> QED BY <1>1, <1>2 DEF StructureWhole

-------------------------------------------------------------------------------
(* Whole sets.                                                             *)

(* A sound set whose free list and pages are whole.                        *)
Whole(s) == Sound(s) /\ Threaded(s) /\ Paged(Allocated(s), s.extent)

(* Emplacing keeps a set whole and adds its identifier; in place, nothing  *)
(* moves.                                                                  *)
LEMMA PlaceWhole ==
  ASSUME NEW s, Whole(s), NEW id \in ValidIdentifiers, CanEmplace(s, id), NEW forceBack \in BOOLEAN,
         NEW t, t = TryEmplace(s, id, forceBack), Size(t) <= EntityMask
  PROVE  /\ Whole(t) /\ t.mode = s.mode /\ InUse(t) = InUse(s) \cup {id}
         /\ s.mode = "in_place" => Stay(s, t)
<1>1. Sound(s) /\ Threaded(s) /\ Paged(Allocated(s), s.extent)
  BY DEF Whole
<1>2. EntityMask \in 0 .. EntityMask
  BY EntityMaskAssumption
<1>3. Sound(t) /\ t.mode = s.mode /\ InUse(t) = InUse(s) \cup {id}
  BY <1>1, <1>2, TryEmplaceUse
<1>4. Threaded(t)
  <2>1. CASE s.mode = "in_place"
    BY <2>1, <1>1, EmplaceThread
  <2>2. CASE s.mode # "in_place"
    BY <2>2, <1>3 DEF Threaded
  <2> QED BY <2>1, <2>2
<1>5. Paged(Allocated(t), t.extent)
  <2>1. id \in Identifiers
    BY EntityMaskAssumption, VersionMaskAssumption
       DEF ValidIdentifiers, Identifiers, EntityParts, VersionParts
  <2>2. PICK u : u = AssureAtLeast(s, id)
    OBVIOUS
  <2>3. Paged(Allocated(u), u.extent) /\ PagesAre(u, Allocated(u), u.extent)
    BY <1>1, <2>1, <2>2, AssurePages
  <2>4. PagesAre(t, Allocated(u), u.extent)
    BY <2>2, <2>3, TryEmplacePages
  <2> QED BY <2>3, <2>4 DEF PagesAre
<1>6. s.mode = "in_place" => Stay(s, t)
  BY <1>1, <1>3, EmplaceStays
<1> QED BY <1>3, <1>4, <1>5, <1>6 DEF Whole

(* It adds one position, or none.                                          *)
LEMMA PlaceSize ==
  ASSUME NEW s, Sound(s), NEW id \in ValidIdentifiers, NEW forceBack \in BOOLEAN,
         CanEmplace(s, id), NEW t, t = TryEmplace(s, id, forceBack)
  PROVE  Size(s) \in Nat /\ Size(t) \in Nat /\ Size(t) <= Size(s) + 1
<1>1. PICK u : u = AssureAtLeast(s, id)
  OBVIOUS
<1>2. id \in Identifiers /\ ~ IsTombstone(id)
  BY EntityMaskAssumption, VersionMaskAssumption
     DEF ValidIdentifiers, Identifiers, EntityParts, VersionParts, IsTombstone
<1>3. /\ Sound(u) /\ id.entity \in Allocated(u)
      /\ u.mode = s.mode /\ u.head = s.head /\ u.packed = s.packed
      /\ id.entity \in Allocated(s) => Elem(u, id) = Elem(s, id)
      /\ id.entity \notin Allocated(s) => Elem(u, id) = Null
  BY <1>1, <1>2, AssureSound
<1>4. Size(u) = Size(s) /\ Size(u) \in Nat
  BY <1>3, SamePacked, PositionsFit
<1>5. Size(PushBack(u, id)) = Size(u) + 1
  BY <1>2, <1>3, PushBackGrows
<1>6. CASE s.mode = "swap_only"
  <2>1. t = EmplaceSwapOnly(u, id)
    BY <1>1, <1>6 DEF TryEmplace
  <2>2. PICK s1 : s1 = IF IsNull(Elem(u, id)) THEN PushBack(u, id) ELSE Bump(u, id)
    OBVIOUS
  <2>3. Size(t) = Size(s1)
    <3>1. PICK s2 : s2 = [s1 EXCEPT !.head = @ + 1]
      OBVIOUS
    <3>2. t = SwapAt(s2, Elem(s1, id).entity, s1.head)
      BY <2>1, <2>2, <3>1 DEF EmplaceSwapOnly
    <3>3. Size(s2) = Size(s1)
      BY <3>1 DEF Size
    <3>4. Size(t) = Size(s2)
      BY <3>2 DEF SwapAt, SetPacked, SetSparse, Size
    <3> QED BY <3>3, <3>4
  <2>4. Size(Bump(u, id)) = Size(u)
    BY DEF Bump, SetPacked, SetSparse, Size
  <2> QED BY <2>2, <2>3, <2>4, <1>4, <1>5
<1>7. CASE s.mode = "in_place" /\ s.head # EntityMask /\ ~ forceBack
  <2>1. t = EmplaceInPlace(u, id)
    BY <1>1, <1>7 DEF TryEmplace
  <2>2. Size(t) = Size(u)
    BY <2>1 DEF EmplaceInPlace, SetPacked, SetSparse, Size
  <2> QED BY <2>2, <1>4
<1>8. CASE s.mode # "swap_only" /\ ~ (s.mode = "in_place" /\ s.head # EntityMask /\ ~ forceBack)
  <2>1. t = PushBack(u, id)
    BY <1>1, <1>8 DEF TryEmplace
  <2> QED BY <2>1, <1>4, <1>5
<1> QED BY <1>6, <1>7, <1>8

(* The assertions of try_emplace hold of an identifier exactly if no       *)
(* element in use is of its entity.                                        *)
LEMMA FreeToPlace ==
  ASSUME NEW s, Sound(s), NEW id \in ValidIdentifiers
  PROVE  CanEmplace(s, id) <=> \A x \in InUse(s) : x.entity # id.entity
<1>1. ~ IsNull(id) /\ ~ IsTombstone(id)
  BY EntityMaskAssumption, VersionMaskAssumption DEF ValidIdentifiers, IsNull, IsTombstone
<1>2. ASSUME CanEmplace(s, id), NEW x \in InUse(s), x.entity = id.entity PROVE FALSE
  <2>1. PICK pos : pos = Elem(s, x).entity
    OBVIOUS
  <2>2. pos \in Positions(s) /\ Used(s, pos) /\ x.entity \in Allocated(s) /\ ~ IsNull(Elem(s, x))
    BY <2>1, WhereUsed
  <2>3. Elem(s, id) = Elem(s, x)
    BY <1>2 DEF Elem
  <2>4. s.mode = "swap_only" /\ pos >= s.head
    BY <1>2, <2>1, <2>2, <2>3 DEF CanEmplace
  <2>5. pos < s.head /\ pos \in Nat /\ s.head \in Nat
    BY <2>2, <2>4, PositionsFit DEF Used
  <2> QED BY <2>4, <2>5
<1>3. ASSUME \A x \in InUse(s) : x.entity # id.entity, id.entity \in Allocated(s),
             ~ IsNull(Elem(s, id))
      PROVE  s.mode = "swap_only" /\ Elem(s, id).entity >= s.head
  <2>1. PICK pos : pos = s.sparse[id.entity].entity
    OBVIOUS
  <2>2. /\ pos \in Positions(s) /\ At(s, pos).entity = id.entity /\ ~ IsTombstone(At(s, pos))
    <3>1. id.entity \in Allocated(s) /\ pos # EntityMask
      BY <1>3, <2>1 DEF Elem, IsNull
    <3>2. /\ pos \in Positions(s)
          /\ At(s, pos) = [entity |-> id.entity, version |-> s.sparse[id.entity].version]
          /\ s.sparse[id.entity].version # VersionMask
      BY <2>1, <3>1 DEF Sound, SparseLinked
    <3> QED BY <3>2 DEF IsTombstone
  <2>3. ~ Used(s, pos)
    BY <1>3, <2>2, UseIs
  <2>4. pos \in Nat /\ s.head \in Nat
    BY <2>2, PositionsFit
  <2> QED BY <2>1, <2>2, <2>3, <2>4 DEF Used, Elem
<1> QED BY <1>1, <1>2, <1>3 DEF CanEmplace

(* Erasing keeps a set whole and removes its identifier; in place, nothing *)
(* moves.                                                                  *)
LEMMA EraseWhole ==
  ASSUME NEW s, Whole(s), NEW id \in InUse(s), NEW t, t = Erase(s, id)
  PROVE  /\ Whole(t) /\ t.mode = s.mode /\ InUse(t) = InUse(s) \ {id}
         /\ s.mode = "in_place" => Stay(s, t)
<1>1. Sound(s) /\ Threaded(s) /\ Paged(Allocated(s), s.extent)
  BY DEF Whole
<1>2. Sound(t) /\ t.mode = s.mode /\ InUse(t) = InUse(s) \ {id}
  BY <1>1, EraseUse
<1>3. Threaded(t)
  <2>1. CASE s.mode = "in_place"
    <3>1. t = InPlacePop(s, id)
      BY <2>1 DEF Erase
    <3> QED BY <2>1, <3>1, <1>1, LinkThread
  <2>2. CASE s.mode # "in_place"
    BY <2>2, <1>2 DEF Threaded
  <2> QED BY <2>1, <2>2
<1>4. Paged(Allocated(t), t.extent)
  <2>1. PagesAre(s, Allocated(s), s.extent) /\ s.mode \in Modes
    BY <1>1 DEF Sound, SetsOver, PagesAre
  <2>2. PagesAre(t, Allocated(s), s.extent)
    BY <2>1, ErasePages
  <2> QED BY <2>2, <1>1 DEF PagesAre
<1>5. s.mode = "in_place" => Stay(s, t)
  BY <1>1, EraseStays
<1> QED BY <1>2, <1>3, <1>4, <1>5 DEF Whole

(* What swap_only leaves at every position.                                *)
LEMMA SwapOnlyAt ==
  ASSUME NEW s, Sound(s), s.mode = "swap_only", NEW id \in InUse(s),
         NEW pos, pos = Elem(s, id).entity, NEW last, last = s.head - 1,
         NEW t, t = SwapOnly(s, id)
  PROVE  /\ last \in Positions(s) /\ pos \in Positions(s) /\ pos <= last /\ At(s, pos) = id
         /\ t.mode = s.mode /\ t.head = last /\ Positions(t) = Positions(s)
         /\ \A p \in Positions(s) :
              At(t, p) = IF p = last THEN NextVersion(id)
                         ELSE IF p = pos THEN At(s, last) ELSE At(s, p)
<1>1. PICK new, u, v : /\ new = NextVersion(id) /\ u = Bump(s, new)
                       /\ v = [u EXCEPT !.head = last]
  OBVIOUS
<1>3. /\ pos \in Positions(s) /\ At(s, pos) = id /\ Used(s, pos)
      /\ id \in Identifiers /\ id.entity \in Allocated(s) /\ ~ IsNull(Elem(s, id))
  BY WhereUsed
<1>4. new \in Identifiers /\ ~ IsTombstone(new) /\ new.entity = id.entity
  BY <1>1, <1>3, NextValid
<1>5. Elem(s, new) = Elem(s, id)
  BY <1>4 DEF Elem
<1>6. /\ Sound(u) /\ u.mode = s.mode /\ u.head = s.head
      /\ Size(u) = Size(s) /\ Positions(u) = Positions(s)
      /\ \A p \in Positions(s) : At(u, p) = IF p = pos THEN new ELSE At(s, p)
  BY <1>1, <1>3, <1>4, <1>5, BumpSound
<1>7. /\ s.head \in Nat /\ Size(s) \in Nat /\ s.head <= Size(s) /\ Positions(s) = 0 .. Size(s) - 1
      /\ pos \in Nat /\ pos < s.head
  BY <1>3, PositionsFit DEF Sound, HeadSound, Used
<1>8. last \in Positions(s) /\ last \in 0 .. Size(s) /\ pos <= last
  BY <1>7
<1>9. /\ Sound(v) /\ v.mode = u.mode /\ v.head = last /\ Positions(v) = Positions(u)
      /\ \A p : At(v, p) = At(u, p)
  <2>1. u.mode = "swap_only" /\ last \in 0 .. Size(u)
    BY <1>6, <1>8
  <2> QED BY <2>1, <1>1, <1>6, HeadChangeSound
<1>10. t = SwapAt(v, pos, last)
  BY <1>1, <1>7 DEF SwapOnly, Index
<1>11. ~ IsTombstone(At(v, pos)) /\ ~ IsTombstone(At(v, last))
  BY <1>3, <1>6, <1>8, <1>9 DEF Sound, HeadSound
<1>12. pos \in Positions(v) /\ last \in Positions(v)
  BY <1>3, <1>6, <1>8, <1>9
<1>13. /\ t.mode = v.mode /\ t.head = v.head /\ Positions(t) = Positions(v)
       /\ \A p \in Positions(v) :
            At(t, p) = IF p = last THEN At(v, pos) ELSE IF p = pos THEN At(v, last) ELSE At(v, p)
  BY ONLY <1>9, <1>10, <1>11, <1>12, SwapAtSound
<1>14. ASSUME NEW p \in Positions(s)
       PROVE  At(t, p) = IF p = last THEN new ELSE IF p = pos THEN At(s, last) ELSE At(s, p)
  <2>1. At(v, pos) = new /\ (last # pos => At(v, last) = At(s, last)) /\ (p # pos => At(v, p) = At(s, p))
    BY <1>3, <1>6, <1>8, <1>9
  <2> QED BY <2>1, <1>6, <1>9, <1>13
<1> QED BY <1>1, <1>3, <1>6, <1>8, <1>9, <1>13, <1>14

(* Erasing writes no position below that of the element, with any policy.  *)
LEMMA EraseBelow ==
  ASSUME NEW s, Sound(s), NEW id \in InUse(s), NEW pos, pos = Elem(s, id).entity,
         NEW t, t = Erase(s, id)
  PROVE  \A p \in Positions(s) : p < pos => p \in Positions(t) /\ At(t, p) = At(s, p)
<1>1. s.mode \in Modes
  BY DEF Sound, SetsOver
<1>2. /\ pos \in Positions(s) /\ At(s, pos) = id
      /\ id \in Identifiers /\ id.entity \in Allocated(s) /\ ~ IsNull(Elem(s, id))
  BY WhereUsed
<1>3. Positions(s) = 0 .. Size(s) - 1 /\ Size(s) \in Nat
  BY PositionsFit
<1>4. CASE s.mode = "swap_and_pop"
  <2>1. t = SwapAndPop(s, id)
    BY <1>4 DEF Erase
  <2>2. /\ Size(t) = Size(s) - 1
        /\ \A p \in Positions(t) :
              p \in Positions(s) /\ At(t, p) = IF p = pos THEN At(s, Size(s) - 1) ELSE At(s, p)
    BY <1>2, <1>4, <2>1, SwapAndPopSound
  <2>3. Positions(t) = 0 .. Size(s) - 2
    BY <1>3, <2>2 DEF Positions
  <2>4. \A p \in Positions(s) : p < pos => p \in Positions(t) /\ p # pos
    BY <1>2, <1>3, <2>3
  <2> QED BY <2>2, <2>4
<1>5. CASE s.mode = "in_place"
  <2>1. t = InPlacePop(s, id)
    BY <1>5 DEF Erase
  <2>2. /\ Positions(t) = Positions(s)
        /\ \A p \in Positions(s) : p # pos => At(t, p) = At(s, p)
    BY <1>2, <1>5, <2>1, InPlacePopSound
  <2>3. \A p \in Positions(s) : p < pos => p # pos
    BY <1>2, <1>3
  <2> QED BY <2>2, <2>3
<1>6. CASE s.mode = "swap_only"
  <2>1. t = SwapOnly(s, id)
    BY <1>6 DEF Erase
  <2>2. PICK last : last = s.head - 1
    OBVIOUS
  <2>3. /\ last \in Positions(s) /\ pos <= last /\ Positions(t) = Positions(s)
        /\ \A p \in Positions(s) :
              At(t, p) = IF p = last THEN NextVersion(id)
                         ELSE IF p = pos THEN At(s, last) ELSE At(s, p)
    BY <1>6, <2>1, <2>2, SwapOnlyAt
  <2>4. \A p \in Positions(s) : p < pos => p # pos /\ p # last
    BY <1>2, <1>3, <2>3
  <2> QED BY <2>3, <2>4
<1> QED BY <1>1, <1>4, <1>5, <1>6 DEF Modes

(* In a sound set contains() answers whether the packed array has a valid  *)
(* identifier, in use or not.                                              *)
LEMMA ContainsIsThere ==
  ASSUME NEW s, Sound(s), NEW id \in ValidIdentifiers
  PROVE  SetContains(s, id) <=> \E p \in Positions(s) : At(s, p) = id
<1>1. ~ IsTombstone(id)
  BY VersionMaskAssumption DEF ValidIdentifiers, IsTombstone
<1>2. ASSUME NEW p \in Positions(s), At(s, p) = id PROVE SetContains(s, id)
  <2>1. id.entity \in Allocated(s) /\ s.sparse[id.entity] = [entity |-> p, version |-> id.version]
    BY <1>1, <1>2 DEF Sound, PackedLinked
  <2>2. p < EntityMask
    BY PositionsFit, EntityMaskAssumption
  <2> QED BY <2>1, <2>2 DEF SetContains, Elem
<1>3. ASSUME SetContains(s, id) PROVE \E p \in Positions(s) : At(s, p) = id
  <2>1. PICK p : p = s.sparse[id.entity].entity
    OBVIOUS
  <2>2. id.entity \in Allocated(s) /\ p # EntityMask /\ s.sparse[id.entity].version = id.version
    BY <1>3, <2>1, EntityMaskAssumption DEF SetContains, Elem
  <2>3. p \in Positions(s) /\ At(s, p) = [entity |-> id.entity, version |-> id.version]
    BY <2>1, <2>2 DEF Sound, SparseLinked
  <2>4. At(s, p) = id
    BY <2>3 DEF ValidIdentifiers
  <2> QED BY <2>3, <2>4
<1> QED BY <1>2, <1>3

(* Erasing makes a set contain no identifier of another entity that it did *)
(* not contain before.                                                     *)
LEMMA EraseContains ==
  ASSUME NEW s, Sound(s), NEW id \in InUse(s), NEW t, t = Erase(s, id),
         NEW x \in ValidIdentifiers, x.entity # id.entity, SetContains(t, x)
  PROVE  SetContains(s, x)
<1>1. Sound(t) /\ t.mode = s.mode /\ InUse(t) = InUse(s) \ {id}
  BY EraseUse
<1>2. CASE s.mode # "swap_only"
  BY <1>1, <1>2, ContainsIsUse
<1>3. CASE s.mode = "swap_only"
  <2>1. t = SwapOnly(s, id)
    BY <1>3 DEF Erase
  <2>2. PICK last, pos : last = s.head - 1 /\ pos = Elem(s, id).entity
    OBVIOUS
  <2>3. /\ last \in Positions(s) /\ Positions(t) = Positions(s)
        /\ \A p \in Positions(s) :
              At(t, p) = IF p = last THEN NextVersion(id)
                         ELSE IF p = pos THEN At(s, last) ELSE At(s, p)
    BY <1>3, <2>1, <2>2, SwapOnlyAt
  <2>4. NextVersion(id).entity = id.entity
    BY WhereUsed, NextValid
  <2>5. PICK p \in Positions(s) : At(t, p) = x
    BY <1>1, <2>3, ContainsIsThere
  <2>6. \E q \in Positions(s) : At(s, q) = x
    BY <2>3, <2>4, <2>5
  <2> QED BY <2>6, ContainsIsThere
<1> QED BY <1>2, <1>3

-------------------------------------------------------------------------------
(* Loops.  FoldLeft is a recursion over sets of positions; one lemma gives *)
(* the states a loop passes through, for every loop of the module.         *)

(* Turn number k of the loop what, from x.                                 *)
SetStep(what, x, k) ==
  CASE what.step = "place"   -> TryEmplace(x, what.ids[k], TRUE)
    [] what.step = "erase"   -> Erase(x, At(x, what.first - k))
    [] what.step = "remove"  -> SetRemove(x, what.ids[k])
    [] what.step = "sort_as" -> SortAsStep(x, what.ids[k])
    [] what.step = "follow"  -> SortStep(x)
    [] what.step = "cycle"   -> SortCycle(x, k - 1, what.length)
    [] what.step = "compact" -> CompactStep(x)

(* h is that fold over the sets of the first n positions.                  *)
IsLoop(h, what, n, b) ==
  h = [u \in SUBSET (1 .. n) |->
         IF u = {} THEN b ELSE SetStep(what, h[u \ {Max(u)}], Max(u))]

(* c are the states before the first turn and after each of n turns.       *)
IsRun(c, what, n, b) ==
  c[0] = b /\ \A k \in 1 .. n : c[k] = SetStep(what, c[k - 1], k)

(* There is such a function: recursion over the number of positions.       *)
LEMMA LoopExists ==
  ASSUME NEW n \in Nat, NEW what, NEW b
  PROVE  \E h : IsLoop(h, what, n, b)
<1> DEFINE T == {k \in Nat : \E h : IsLoop(h, what, k, b)}
<1>1. 0 \in T
  <2>1. PICK h : h = [u \in SUBSET (1 .. 0) |-> b]
    OBVIOUS
  <2>2. \A u \in SUBSET (1 .. 0) : u = {}
    OBVIOUS
  <2>3. h = [u \in SUBSET (1 .. 0) |->
               IF u = {} THEN b ELSE SetStep(what, h[u \ {Max(u)}], Max(u))]
    BY <2>1, <2>2
  <2> QED BY <2>3 DEF IsLoop
<1>2. ASSUME NEW k \in 1 .. n, k - 1 \in T PROVE k \in T
  <2>1. PICK g : IsLoop(g, what, k - 1, b)
    BY <1>2
  <2>2. \A u \in SUBSET (1 .. k - 1) :
          g[u] = IF u = {} THEN b ELSE SetStep(what, g[u \ {Max(u)}], Max(u))
    BY <2>1 DEF IsLoop
  <2>3. PICK h : h = [u \in SUBSET (1 .. k) |->
                        IF k \in u THEN SetStep(what, g[u \ {k}], k) ELSE g[u]]
    OBVIOUS
  <2>4. ASSUME NEW u \in SUBSET (1 .. k)
        PROVE  (IF k \in u THEN SetStep(what, g[u \ {k}], k) ELSE g[u])
                 = IF u = {} THEN b ELSE SetStep(what, h[u \ {Max(u)}], Max(u))
    <3>1. CASE k \in u
      <4>1. u # {} /\ u \subseteq 1 .. k /\ k \in Nat
        BY <3>1
      <4>2. Max(u) \in u /\ \A x \in u : x <= Max(u)
        BY <4>1, LastExists
      <4>3. Max(u) = k
        <5>1. PICK m : m = Max(u)
          OBVIOUS
        <5>2. m \in 1 .. k /\ k <= m
          BY <3>1, <4>2, <5>1
        <5> QED BY <5>1, <5>2
      <4>4. u \ {k} \in SUBSET (1 .. k) /\ k \notin u \ {k}
        OBVIOUS
      <4>5. h[u \ {k}] = g[u \ {k}]
        BY <4>4, <2>3
      <4> QED BY <3>1, <4>1, <4>3, <4>5
    <3>2. CASE k \notin u
      <4>1. u \in SUBSET (1 .. k - 1)
        BY <3>2
      <4>2. u \ {Max(u)} \in SUBSET (1 .. k) /\ k \notin u \ {Max(u)}
        BY <3>2
      <4>3. h[u \ {Max(u)}] = g[u \ {Max(u)}]
        BY <4>2, <2>3
      <4>4. g[u] = IF u = {} THEN b ELSE SetStep(what, g[u \ {Max(u)}], Max(u))
        BY <4>1, <2>2
      <4> QED BY <3>2, <4>3, <4>4
    <3> QED BY <3>1, <3>2
  <2>5. h = [u \in SUBSET (1 .. k) |->
               IF u = {} THEN b ELSE SetStep(what, h[u \ {Max(u)}], Max(u))]
    BY <2>3, <2>4
  <2>6. IsLoop(h, what, k, b)
    BY ONLY <2>5 DEF IsLoop
  <2> QED BY <2>6
<1>3. \A k \in 0 .. n : k \in T
  <2> HIDE DEF T
  <2> QED BY <1>1, <1>2, CountUp
<1>4. n \in 0 .. n
  OBVIOUS
<1> QED BY <1>3, <1>4

(* Its values on the first positions are its steps.                        *)
LEMMA LoopChain ==
  ASSUME NEW n \in Nat, NEW what, NEW b, NEW h, IsLoop(h, what, n, b)
  PROVE  /\ h[1 .. 0] = b
         /\ \A k \in 1 .. n : h[1 .. k] = SetStep(what, h[1 .. k - 1], k)
<1>1. \A u \in SUBSET (1 .. n) :
        h[u] = IF u = {} THEN b ELSE SetStep(what, h[u \ {Max(u)}], Max(u))
  BY DEF IsLoop
<1>2. h[1 .. 0] = b
  <2>1. 1 .. 0 = {} /\ 1 .. 0 \in SUBSET (1 .. n)
    OBVIOUS
  <2> QED BY <2>1, <1>1
<1>3. ASSUME NEW k \in 1 .. n PROVE h[1 .. k] = SetStep(what, h[1 .. k - 1], k)
  <2>1. k \in Nat /\ 1 .. k \subseteq 1 .. n /\ 1 .. k # {} /\ 1 .. k \subseteq 1 .. k
    OBVIOUS
  <2>2. Max(1 .. k) \in 1 .. k /\ \A x \in 1 .. k : x <= Max(1 .. k)
    BY <2>1, LastExists
  <2>3. Max(1 .. k) = k
    <3>1. PICK m : m = Max(1 .. k)
      OBVIOUS
    <3>2. m \in 1 .. k /\ k <= m
      BY <2>1, <2>2, <3>1
    <3> QED BY <3>1, <3>2
  <2>4. (1 .. k) \ {k} = 1 .. k - 1
    OBVIOUS
  <2> QED BY <1>1, <2>1, <2>3, <2>4
<1> QED BY <1>2, <1>3

(* So there is a run that ends with the value of the fold.                 *)
LEMMA LoopRuns ==
  ASSUME NEW n \in Nat, NEW what, NEW b, NEW h, IsLoop(h, what, n, b)
  PROVE  \E c : IsRun(c, what, n, b) /\ c[n] = h[1 .. n]
<1>1. /\ h[1 .. 0] = b
      /\ \A k \in 1 .. n : h[1 .. k] = SetStep(what, h[1 .. k - 1], k)
  BY LoopChain
<1>2. PICK c : c = [k \in 0 .. n |-> h[1 .. k]]
  OBVIOUS
<1>3. 0 \in 0 .. n /\ n \in 0 .. n /\ \A k \in 1 .. n : k \in 0 .. n /\ k - 1 \in 0 .. n
  OBVIOUS
<1>4. \A k \in 0 .. n : c[k] = h[1 .. k]
  BY <1>2
<1> QED BY <1>1, <1>3, <1>4 DEF IsRun

(* push(first, last) emplaces one identifier after the other.              *)
LEMMA PushRuns ==
  ASSUME NEW s, NEW S, NEW ids \in Seq(S), NEW n, n = Len(ids),
         NEW what, what = [step |-> "place", ids |-> ids]
  PROVE  \E c : IsRun(c, what, n, s) /\ PushRange(s, ids) = c[n]
<1>2. DOMAIN ids = 1 .. n /\ n \in Nat
  OBVIOUS
<1>3. \A x, k : SetStep(what, x, k) = TryEmplace(x, ids[k], TRUE)
  BY DEF SetStep
<1>4. PICK f : IsLoop(f, what, n, s)
  BY <1>2, LoopExists
<1>5. f = [u \in SUBSET (1 .. n) |->
             IF u = {} THEN s ELSE TryEmplace(f[u \ {Max(u)}], ids[Max(u)], TRUE)]
  BY ZenonT(60), <1>3, <1>4 DEF IsLoop
<1>6. PICK h :
        /\ h = [u \in SUBSET (1 .. n) |->
             IF u = {} THEN s ELSE TryEmplace(h[u \ {Max(u)}], ids[Max(u)], TRUE)]
        /\ PushRange(s, ids) = h[1 .. n]
  BY <1>2, <1>5 DEF PushRange, FoldLeft, MapThenFoldSet
<1>7. IsLoop(h, what, n, s)
  <2>1. ASSUME NEW u \in SUBSET (1 .. n)
        PROVE  (IF u = {} THEN s ELSE TryEmplace(h[u \ {Max(u)}], ids[Max(u)], TRUE))
                 = IF u = {} THEN s ELSE SetStep(what, h[u \ {Max(u)}], Max(u))
    BY <1>3
  <2> QED BY <2>1, <1>6 DEF IsLoop
<1>8. PICK c : IsRun(c, what, n, s) /\ c[n] = h[1 .. n]
  BY ONLY <1>2, <1>7, LoopRuns
<1> QED BY <1>6, <1>8

(* remove(first, last) removes one identifier after the other.             *)
LEMMA RemoveRuns ==
  ASSUME NEW s, NEW S, NEW ids \in Seq(S), NEW n, n = Len(ids),
         NEW what, what = [step |-> "remove", ids |-> ids]
  PROVE  \E c : IsRun(c, what, n, s) /\ RemoveRange(s, ids) = c[n]
<1>2. DOMAIN ids = 1 .. n /\ n \in Nat
  OBVIOUS
<1>3. \A x, k : SetStep(what, x, k) = SetRemove(x, ids[k])
  BY DEF SetStep
<1>4. PICK f : IsLoop(f, what, n, s)
  BY <1>2, LoopExists
<1>5. f = [u \in SUBSET (1 .. n) |->
             IF u = {} THEN s ELSE SetRemove(f[u \ {Max(u)}], ids[Max(u)])]
  BY ZenonT(60), <1>3, <1>4 DEF IsLoop
<1>6. PICK h :
        /\ h = [u \in SUBSET (1 .. n) |->
             IF u = {} THEN s ELSE SetRemove(h[u \ {Max(u)}], ids[Max(u)])]
        /\ RemoveRange(s, ids) = h[1 .. n]
  BY <1>2, <1>5 DEF RemoveRange, FoldLeft, MapThenFoldSet
<1>7. IsLoop(h, what, n, s)
  <2>1. ASSUME NEW u \in SUBSET (1 .. n)
        PROVE  (IF u = {} THEN s ELSE SetRemove(h[u \ {Max(u)}], ids[Max(u)]))
                 = IF u = {} THEN s ELSE SetStep(what, h[u \ {Max(u)}], Max(u))
    BY <1>3
  <2> QED BY <2>1, <1>6 DEF IsLoop
<1>8. PICK c : IsRun(c, what, n, s) /\ c[n] = h[1 .. n]
  BY ONLY <1>2, <1>7, LoopRuns
<1> QED BY <1>6, <1>8

(* pop(first, last) erases from position first - 1 down to last.           *)
LEMMA PopRuns ==
  ASSUME NEW s, NEW first \in Nat, NEW last \in Nat, last < first, NEW n, n = first - last,
         NEW what, what = [step |-> "erase", first |-> first]
  PROVE  \E c : IsRun(c, what, n, s) /\ PopRange(s, first, last) = c[n]
<1>1. n \in Nat
  OBVIOUS
<1>2. PICK q : q = [k \in 1 .. n |-> k]
  OBVIOUS
<1>3. DOMAIN q = 1 .. n /\ \A k \in 1 .. n : q[k] = k
  BY <1>2
<1>4. \A x, k : SetStep(what, x, k) = Erase(x, At(x, first - k))
  BY DEF SetStep
<1>5. PICK f : IsLoop(f, what, n, s)
  BY <1>1, LoopExists
<1>6. \A u \in SUBSET (1 .. n) : u # {} => q[Max(u)] = Max(u)
  <2> SUFFICES ASSUME NEW u \in SUBSET (1 .. n), u # {} PROVE q[Max(u)] = Max(u)
    OBVIOUS
  <2>1. Max(u) \in 1 .. n
    BY <1>1, LastExists
  <2> QED BY <2>1, <1>3
<1>7. f = [u \in SUBSET (1 .. n) |->
             IF u = {} THEN s
             ELSE Erase(f[u \ {Max(u)}], At(f[u \ {Max(u)}], first - q[Max(u)]))]
  <2>1. ASSUME NEW u \in SUBSET (1 .. n)
        PROVE  (IF u = {} THEN s
                ELSE Erase(f[u \ {Max(u)}], At(f[u \ {Max(u)}], first - q[Max(u)])))
                 = IF u = {} THEN s ELSE SetStep(what, f[u \ {Max(u)}], Max(u))
    BY <1>4, <1>6
  <2> QED BY <2>1, <1>5 DEF IsLoop
<1>8. PICK h :
        /\ h = [u \in SUBSET (1 .. n) |->
             IF u = {} THEN s
             ELSE Erase(h[u \ {Max(u)}], At(h[u \ {Max(u)}], first - q[Max(u)]))]
        /\ PopRange(s, first, last) = h[1 .. n]
  <2>1. PopRange(s, first, last) = FoldLeft(LAMBDA t, k : Erase(t, At(t, first - k)), s, q)
    BY <1>2 DEF PopRange
  <2> QED BY ZenonT(60), <2>1, <1>3, <1>7 DEF FoldLeft, MapThenFoldSet
<1>9. IsLoop(h, what, n, s)
  <2>1. ASSUME NEW u \in SUBSET (1 .. n)
        PROVE  (IF u = {} THEN s
                ELSE Erase(h[u \ {Max(u)}], At(h[u \ {Max(u)}], first - q[Max(u)])))
                 = IF u = {} THEN s ELSE SetStep(what, h[u \ {Max(u)}], Max(u))
    BY <1>4, <1>6
  <2> QED BY <2>1, <1>8 DEF IsLoop
<1> QED BY <1>1, <1>8, <1>9, LoopRuns

(* sort_as takes one identifier of the range after the other.              *)
LEMMA SortAsRuns ==
  ASSUME NEW s, NEW S, NEW ids \in Seq(S), NEW n, n = Len(ids),
         NEW b, b = [set |-> s, it |-> SortLength(s)],
         NEW what, what = [step |-> "sort_as", ids |-> ids]
  PROVE  \E c : IsRun(c, what, n, b) /\ SortAsRun(s, ids) = c[n]
<1>2. DOMAIN ids = 1 .. n /\ n \in Nat
  OBVIOUS
<1>3. \A x, k : SetStep(what, x, k) = SortAsStep(x, ids[k])
  BY DEF SetStep
<1>4. PICK f : IsLoop(f, what, n, b)
  BY <1>2, LoopExists
<1>5. f = [u \in SUBSET (1 .. n) |->
             IF u = {} THEN b ELSE SortAsStep(f[u \ {Max(u)}], ids[Max(u)])]
  BY ZenonT(60), <1>3, <1>4 DEF IsLoop
<1>6. PICK h :
        /\ h = [u \in SUBSET (1 .. n) |->
             IF u = {} THEN b ELSE SortAsStep(h[u \ {Max(u)}], ids[Max(u)])]
        /\ SortAsRun(s, ids) = h[1 .. n]
  <2>1. SortAsRun(s, ids) = FoldLeft(SortAsStep, b, ids)
    BY DEF SortAsRun
  <2> QED BY ZenonT(60), <1>2, <1>5, <2>1 DEF FoldLeft, MapThenFoldSet
<1>7. IsLoop(h, what, n, b)
  <2>1. ASSUME NEW u \in SUBSET (1 .. n)
        PROVE  (IF u = {} THEN b ELSE SortAsStep(h[u \ {Max(u)}], ids[Max(u)]))
                 = IF u = {} THEN b ELSE SetStep(what, h[u \ {Max(u)}], Max(u))
    BY <1>3
  <2> QED BY <2>1, <1>6 DEF IsLoop
<1>8. PICK c : IsRun(c, what, n, b) /\ c[n] = h[1 .. n]
  BY ONLY <1>2, <1>7, LoopRuns
<1> QED BY <1>6, <1>8

-------------------------------------------------------------------------------
(* Ranges.                                                                 *)

(* What push of a range has done after k turns.                            *)
PushedAll(s, ids, t, k) ==
  /\ Whole(t) /\ t.mode = s.mode
  /\ InUse(t) = InUse(s) \cup {ids[i] : i \in 1 .. k}
  /\ Size(t) \in Nat /\ Size(t) <= Size(s) + k
  /\ s.mode = "in_place" => \A x \in InUse(s) : Index(t, x) = Index(s, x)

(* push(first, last) adds the identifiers of the range, if none of their   *)
(* entities is in use and no two are of the same.                          *)
LEMMA PushRangeWhole ==
  ASSUME NEW s, Whole(s), NEW n \in Nat, NEW ids \in [1 .. n -> ValidIdentifiers],
         \A i, j \in 1 .. n : i # j => ids[i].entity # ids[j].entity,
         \A i \in 1 .. n : CanEmplace(s, ids[i]),
         Size(s) + n <= EntityMask, NEW t, t = PushRange(s, ids)
  PROVE  PushedAll(s, ids, t, n)
<1>1. ids \in Seq(ValidIdentifiers) /\ Len(ids) = n
  OBVIOUS
<1>2. PICK what : what = [step |-> "place", ids |-> ids]
  OBVIOUS
<1>3. PICK c : IsRun(c, what, n, s) /\ PushRange(s, ids) = c[n]
  BY ONLY <1>1, <1>2, PushRuns
<1>4. c[0] = s /\ \A k \in 1 .. n : c[k] = TryEmplace(c[k - 1], ids[k], TRUE)
  BY <1>2, <1>3 DEF IsRun, SetStep
<1>5. Sound(s) /\ Size(s) \in Nat
  BY PositionsFit DEF Whole
<1> DEFINE T == {k \in 0 .. n : PushedAll(s, ids, c[k], k)}
<1>6. 0 \in T
  <2>1. {ids[i] : i \in 1 .. 0} = {}
    OBVIOUS
  <2> QED BY <2>1, <1>4, <1>5 DEF PushedAll
<1>7. ASSUME NEW k \in 1 .. n, k - 1 \in T PROVE k \in T
  <2>1. PICK a, b, id : a = c[k - 1] /\ b = c[k] /\ id = ids[k]
    OBVIOUS
  <2>2. /\ Whole(a) /\ a.mode = s.mode
        /\ InUse(a) = InUse(s) \cup {ids[i] : i \in 1 .. k - 1}
        /\ Size(a) \in Nat /\ Size(a) <= Size(s) + (k - 1)
        /\ s.mode = "in_place" => \A x \in InUse(s) : Index(a, x) = Index(s, x)
    BY <1>7, <2>1 DEF PushedAll
  <2>3. b = TryEmplace(a, id, TRUE) /\ id \in ValidIdentifiers /\ Sound(a)
    BY <1>4, <2>1, <2>2 DEF Whole
  <2>4. \A x \in InUse(a) : x.entity # id.entity
    <3>1. \A x \in InUse(s) : x.entity # id.entity
      BY <1>5, <2>1, <2>3, FreeToPlace
    <3>2. \A i \in 1 .. k - 1 : i \in 1 .. n /\ i # k
      OBVIOUS
    <3> QED BY <2>1, <2>2, <3>1, <3>2
  <2>5. CanEmplace(a, id)
    BY <2>3, <2>4, FreeToPlace
  <2>6. Size(b) \in Nat /\ Size(b) <= Size(a) + 1
    BY <2>3, <2>5, PlaceSize
  <2>7. Size(b) <= Size(s) + k /\ Size(b) <= EntityMask
    BY <1>5, <2>2, <2>6, EntityMaskAssumption
  <2>8. /\ Whole(b) /\ b.mode = a.mode /\ InUse(b) = InUse(a) \cup {id}
        /\ a.mode = "in_place" => Stay(a, b)
    <3>1. PICK back \in BOOLEAN : back = TRUE
      OBVIOUS
    <3>2. b = TryEmplace(a, id, back)
      BY <2>3, <3>1
    <3> QED BY ONLY <2>2, <2>3, <2>5, <2>7, <3>2, PlaceWhole
  <2>9. InUse(b) = InUse(s) \cup {ids[i] : i \in 1 .. k}
    <3>1. \A i : i \in 1 .. k <=> i \in 1 .. k - 1 \/ i = k
      OBVIOUS
    <3> QED BY <2>1, <2>2, <2>8, <3>1
  <2>10. s.mode = "in_place" => \A x \in InUse(s) : Index(b, x) = Index(s, x)
    BY <2>2, <2>8 DEF Stay
  <2>11. PushedAll(s, ids, b, k)
    BY <2>2, <2>6, <2>7, <2>8, <2>9, <2>10 DEF PushedAll
  <2> QED BY <2>1, <2>11
<1>8. n \in T
  <2>1. \A k \in 0 .. n : k \in T
    <3> HIDE DEF T
    <3> QED BY <1>6, <1>7, CountUp
  <2> HIDE DEF T
  <2> QED BY <2>1
<1> QED BY <1>3, <1>8

(* What a removal has done that began with s and has taken out R.          *)
Taken(s, R, t) ==
  /\ Whole(t) /\ t.mode = s.mode
  /\ InUse(t) = InUse(s) \ R
  /\ s.mode = "in_place" => \A x \in InUse(t) : Index(t, x) = Index(s, x)

(* One more element is taken out.                                          *)
LEMMA OneMoreTaken ==
  ASSUME NEW s, NEW R, NEW a, Taken(s, R, a), NEW id \in InUse(a), NEW b, b = Erase(a, id)
  PROVE  Taken(s, R \cup {id}, b)
<1>1. /\ Whole(a) /\ a.mode = s.mode /\ InUse(a) = InUse(s) \ R
      /\ s.mode = "in_place" => \A x \in InUse(a) : Index(a, x) = Index(s, x)
  BY DEF Taken
<1>2. /\ Whole(b) /\ b.mode = a.mode /\ InUse(b) = InUse(a) \ {id}
      /\ a.mode = "in_place" => Stay(a, b)
  BY <1>1, EraseWhole
<1>3. InUse(b) = InUse(s) \ (R \cup {id})
  BY <1>1, <1>2
<1>4. s.mode = "in_place" => \A x \in InUse(b) : Index(b, x) = Index(s, x)
  BY <1>1, <1>2 DEF Stay
<1> QED BY <1>1, <1>2, <1>3, <1>4 DEF Taken

(* erase of a range of iterators takes out what it passes: the positions   *)
(* still to come are not written.                                          *)
LEMMA PopRangeWhole ==
  ASSUME NEW s, Whole(s), NEW first \in Nat, NEW last \in Nat, last < first,
         \A p \in last .. first - 1 : Used(s, p),
         NEW t, t = PopRange(s, first, last)
  PROVE  Taken(s, {At(s, p) : p \in last .. first - 1}, t)
<1>1. PICK n : n = first - last
  OBVIOUS
<1>2. PICK what : what = [step |-> "erase", first |-> first]
  OBVIOUS
<1>3. PICK c : IsRun(c, what, n, s) /\ PopRange(s, first, last) = c[n]
  BY <1>1, <1>2, PopRuns
<1>4. c[0] = s /\ \A k \in 1 .. n : c[k] = Erase(c[k - 1], At(c[k - 1], first - k))
  BY <1>2, <1>3 DEF IsRun, SetStep
<1>5. Sound(s) /\ n \in Nat /\ Positions(s) = 0 .. Size(s) - 1 /\ Size(s) \in Nat
  BY <1>1, PositionsFit DEF Whole
<1>6. \A p \in last .. first - 1 : p \in Positions(s) /\ ~ IsTombstone(At(s, p)) /\ At(s, p) \in InUse(s)
  BY <1>5, UseIs DEF Used
<1> DEFINE Gone(k) == {At(s, p) : p \in first - k .. first - 1}
           Kept(a, k) == \A p \in last .. first - k - 1 : p \in Positions(a) /\ At(a, p) = At(s, p)
           T == {k \in 0 .. n : Taken(s, Gone(k), c[k]) /\ Kept(c[k], k)}
<1>7. 0 \in T
  <2>1. Gone(0) = {}
    OBVIOUS
  <2>2. Taken(s, Gone(0), c[0])
    BY <2>1, <1>4 DEF Taken
  <2>3. Kept(c[0], 0)
    BY <1>4, <1>6
  <2> QED BY <1>5, <2>2, <2>3
<1>8. ASSUME NEW k \in 1 .. n, k - 1 \in T PROVE k \in T
  <2>1. PICK a, b, q : a = c[k - 1] /\ b = c[k] /\ q = first - k
    OBVIOUS
  <2>2. /\ q \in last .. first - 1 /\ k \in 0 .. n /\ first - (k - 1) = q + 1 /\ first - k = q
        /\ first - (k - 1) - 1 = q /\ first - k - 1 = q - 1 /\ q \in Nat
    BY <1>1, <2>1
  <2>3. Taken(s, {At(s, p) : p \in q + 1 .. first - 1}, a)
    BY <1>8, <2>1, <2>2
  <2>4. \A p \in last .. q : p \in Positions(a) /\ At(a, p) = At(s, p)
    BY <1>8, <2>1, <2>2
  <2>5. PICK id : id = At(s, q)
    OBVIOUS
  <2>6. At(a, q) = id /\ q \in Positions(a)
    BY <2>2, <2>4, <2>5
  <2>7. id \in InUse(a)
    <3>1. \A p \in q + 1 .. first - 1 : At(s, p) # id
      <4> SUFFICES ASSUME NEW p \in q + 1 .. first - 1, At(s, p) = At(s, q) PROVE FALSE
        BY <2>5
      <4>1. p \in last .. first - 1 /\ p # q
        BY <2>2
      <4> QED BY <4>1, <1>5, <1>6, <2>2, OneEach
    <3> QED BY <3>1, <2>3, <2>5, <2>2, <1>6 DEF Taken
  <2>8. b = Erase(a, id)
    BY <1>4, <2>1, <2>2, <2>6
  <2>9. Taken(s, {At(s, p) : p \in q + 1 .. first - 1} \cup {id}, b)
    BY ONLY <2>3, <2>7, <2>8, OneMoreTaken
  <2>10. {At(s, p) : p \in q + 1 .. first - 1} \cup {id} = {At(s, p) : p \in q .. first - 1}
    <3>1. \A p : p \in q .. first - 1 <=> p \in q + 1 .. first - 1 \/ p = q
      BY <2>2
    <3> QED BY <3>1, <2>5
  <2>11. Sound(a) /\ Elem(a, id).entity = q
    <3>1. Sound(a)
      BY <2>3 DEF Taken, Whole
    <3>2. a.sparse[id.entity] = [entity |-> q, version |-> id.version]
      BY <2>2, <2>5, <2>6, <3>1, <1>6 DEF Sound, PackedLinked
    <3> QED BY <3>1, <3>2 DEF Elem
  <2>12. \A p \in Positions(a) : p < q => p \in Positions(b) /\ At(b, p) = At(a, p)
    BY <2>7, <2>8, <2>11, EraseBelow
  <2>13. \A p \in last .. q - 1 : p \in last .. q /\ p < q
    BY <2>2
  <2>14. \A p \in last .. q - 1 : p \in Positions(b) /\ At(b, p) = At(s, p)
    BY <2>4, <2>12, <2>13
  <2>15. Taken(s, Gone(k), c[k]) /\ Kept(c[k], k)
    BY <2>1, <2>2, <2>9, <2>10, <2>14
  <2> QED BY <2>2, <2>15
<1>9. n \in T
  <2>1. \A k \in 0 .. n : k \in T
    <3> HIDE DEF T
    <3> QED BY <1>5, <1>7, <1>8, CountUp
  <2> HIDE DEF T
  <2> QED BY <2>1, <1>5
<1>10. first - n = last
  BY <1>1
<1> QED BY <1>3, <1>9, <1>10

(* remove(first, last) takes out the identifiers of the range that the set *)
(* contains, if those are in use.                                          *)
LEMMA RemoveRangeWhole ==
  ASSUME NEW s, Whole(s), NEW n \in Nat, NEW ids \in [1 .. n -> ValidIdentifiers],
         \A i, j \in 1 .. n : i # j => ids[i].entity # ids[j].entity,
         \A i \in 1 .. n : SetContains(s, ids[i]) => ids[i] \in InUse(s),
         NEW t, t = RemoveRange(s, ids)
  PROVE  Taken(s, {ids[i] : i \in 1 .. n}, t)
<1>1. ids \in Seq(ValidIdentifiers) /\ Len(ids) = n
  OBVIOUS
<1>2. PICK what : what = [step |-> "remove", ids |-> ids]
  OBVIOUS
<1>3. PICK c : IsRun(c, what, n, s) /\ RemoveRange(s, ids) = c[n]
  BY ONLY <1>1, <1>2, RemoveRuns
<1>4. c[0] = s /\ \A k \in 1 .. n : c[k] = SetRemove(c[k - 1], ids[k])
  BY <1>2, <1>3 DEF IsRun, SetStep
<1>5. Sound(s)
  BY DEF Whole
<1> DEFINE Gone(k) == {ids[i] : i \in 1 .. k}
           Same(a, k) == \A j \in k + 1 .. n : SetContains(a, ids[j]) => SetContains(s, ids[j])
           T == {k \in 0 .. n : Taken(s, Gone(k), c[k]) /\ Same(c[k], k)}
<1>6. 0 \in T
  <2>1. Gone(0) = {}
    OBVIOUS
  <2>2. Taken(s, Gone(0), c[0])
    BY <2>1, <1>4 DEF Taken
  <2> QED BY <1>4, <2>2
<1>7. ASSUME NEW k \in 1 .. n, k - 1 \in T PROVE k \in T
  <2>1. PICK a, b, id : a = c[k - 1] /\ b = c[k] /\ id = ids[k]
    OBVIOUS
  <2>2. PICK R : R = {ids[i] : i \in 1 .. k - 1}
    OBVIOUS
  <2>3. Taken(s, R, a)
    BY <1>7, <2>1, <2>2
  <2>4. \A j \in k .. n : SetContains(a, ids[j]) => SetContains(s, ids[j])
    BY <1>7, <2>1
  <2>5. Gone(k) = R \cup {id}
    <3>1. \A i : i \in 1 .. k <=> i \in 1 .. k - 1 \/ i = k
      OBVIOUS
    <3> QED BY <2>1, <2>2, <3>1
  <2>6. id \in ValidIdentifiers /\ Sound(a) /\ InUse(a) = InUse(s) \ R
    BY <2>1, <2>3 DEF Taken, Whole
  <2>7. id \notin R
    <3>1. \A i \in 1 .. k - 1 : i \in 1 .. n /\ i # k
      OBVIOUS
    <3> QED BY <3>1, <2>1, <2>2
  <2>8. \A j \in k + 1 .. n : j \in k .. n /\ j \in 1 .. n /\ j # k
    OBVIOUS
  <2>9. CASE SetContains(a, id)
    <3>1. b = Erase(a, id)
      BY <1>4, <2>1, <2>9 DEF SetRemove
    <3>2. id \in InUse(a)
      <4>1. k \in k .. n
        OBVIOUS
      <4> QED BY <4>1, <2>1, <2>4, <2>6, <2>7, <2>9
    <3>3. Taken(s, R \cup {id}, b)
      BY ONLY <2>3, <3>1, <3>2, OneMoreTaken
    <3>4. ASSUME NEW j \in k + 1 .. n, SetContains(b, ids[j]) PROVE SetContains(s, ids[j])
      <4>1. SetContains(a, ids[j])
        <5>1. PICK x : x = ids[j]
          OBVIOUS
        <5>2. x \in ValidIdentifiers /\ x.entity # id.entity /\ SetContains(b, x)
          BY <2>1, <2>8, <3>4, <5>1
        <5> QED BY <5>1, <5>2, <2>6, <3>1, <3>2, EraseContains
      <4> QED BY <4>1, <2>4, <2>8
    <3>5. Taken(s, Gone(k), c[k])
      BY <2>1, <2>5, <3>3
    <3>6. Same(c[k], k)
      BY <2>1, <3>4
    <3> QED BY <3>5, <3>6
  <2>10. CASE ~ SetContains(a, id)
    <3>1. b = a
      BY <1>4, <2>1, <2>10 DEF SetRemove
    <3>2. id \notin InUse(a)
      BY <2>6, <2>10, ContainsIsUse
    <3>3. InUse(s) \ R = InUse(s) \ (R \cup {id})
      BY <2>6, <3>2
    <3>4. Taken(s, R \cup {id}, b)
      BY <2>3, <3>1, <3>3 DEF Taken
    <3>5. Taken(s, Gone(k), c[k])
      BY <2>1, <2>5, <3>4
    <3>6. Same(c[k], k)
      BY <2>1, <2>4, <2>8, <3>1
    <3> QED BY <3>5, <3>6
  <2> QED BY <2>9, <2>10
<1>8. n \in T
  <2>1. \A k \in 0 .. n : k \in T
    <3> HIDE DEF T
    <3> QED BY <1>6, <1>7, CountUp
  <2> HIDE DEF T
  <2> QED BY <2>1
<1> QED BY <1>3, <1>8

-------------------------------------------------------------------------------
(* Sorting.                                                                *)

(* t has the elements of s, on the same positions but in another order.    *)
Rearranged(s, t) ==
  /\ Whole(t) /\ t.mode = s.mode /\ t.head = s.head /\ InUse(t) = InUse(s)
  /\ Positions(t) = Positions(s)
  /\ \A p : Used(t, p) <=> Used(s, p)
  /\ \A x \in ValidIdentifiers : SetContains(t, x) => SetContains(s, x)

(* swap_elements does that.                                                *)
LEMMA SwapRearranges ==
  ASSUME NEW s, Whole(s), NEW lhs \in InUse(s), NEW rhs \in InUse(s),
         NEW t, t = SwapElements(s, lhs, rhs)
  PROVE  Rearranged(s, t)
<1>0. Sound(s) /\ Threaded(s) /\ Paged(Allocated(s), s.extent)
  BY DEF Whole
<1>1. PICK p1, p2 : p1 = Elem(s, lhs).entity /\ p2 = Elem(s, rhs).entity
  OBVIOUS
<1>2. t = SwapAt(s, p1, p2)
  BY <1>1 DEF SwapElements, Index
<1>3. p1 \in Positions(s) /\ At(s, p1) = lhs /\ ~ IsTombstone(lhs) /\ Used(s, p1)
  BY <1>0, <1>1, WhereUsed
<1>4. p2 \in Positions(s) /\ At(s, p2) = rhs /\ ~ IsTombstone(rhs) /\ Used(s, p2)
  BY <1>0, <1>1, WhereUsed
<1>5. /\ Sound(t) /\ t.mode = s.mode /\ t.head = s.head /\ Positions(t) = Positions(s)
      /\ \A p \in Positions(s) :
           At(t, p) = IF p = p2 THEN At(s, p1) ELSE IF p = p1 THEN At(s, p2) ELSE At(s, p)
  BY <1>0, <1>2, <1>3, <1>4, SwapAtSound
<1>6. InUse(t) = InUse(s)
  BY <1>0, SwapElementsUse
<1>7. (\A p : Hole(s, p) => At(t, p) = At(s, p)) /\ (\A p : Hole(t, p) => Hole(s, p))
  BY <1>3, <1>4, <1>5 DEF Hole
<1>8. Threaded(t)
  BY <1>0, <1>5, <1>7, SameThread
<1>9. Paged(Allocated(t), t.extent)
  <2>1. PagesAre(s, Allocated(s), s.extent)
    BY <1>0 DEF Sound, SetsOver, PagesAre
  <2>2. PagesAre(t, Allocated(s), s.extent)
    BY <1>2, <2>1, SwapAtPages
  <2> QED BY <2>2, <1>0 DEF PagesAre
<1>10. \A p : Used(t, p) <=> Used(s, p)
  BY <1>3, <1>4, <1>5 DEF Used
<1>11. ASSUME NEW x \in ValidIdentifiers, SetContains(t, x) PROVE SetContains(s, x)
  <2>1. PICK p \in Positions(s) : At(t, p) = x
    BY <1>5, <1>11, ContainsIsThere
  <2>2. \E q \in Positions(s) : At(s, q) = x
    BY <2>1, <1>3, <1>4, <1>5
  <2> QED BY <2>2, <1>0, ContainsIsThere
<1> QED BY <1>5, <1>6, <1>8, <1>9, <1>10, <1>11 DEF Rearranged, Whole

(* An in-place set whose head is null has no holes.                        *)
LEMMA NoHoles ==
  ASSUME NEW s, Sound(s), Threaded(s), s.mode = "in_place", s.head = EntityMask
  PROVE  \A p \in Positions(s) : ~ IsTombstone(At(s, p))
<1>1. PICK path : Threads(s, path)
  BY DEF Threaded
<1>2. PICK n : n = Len(path)
  OBVIOUS
<1>3. path \in Seq(Positions(s)) /\ n \in Nat
  BY <1>1, <1>2 DEF Threads
<1>4. n # 0 => path[1] \in Positions(s)
  BY <1>2, <1>3
<1>5. n = 0
  BY <1>1, <1>2, <1>4, PositionsFit, EntityMaskAssumption DEF Threads
<1>6. \A p : ~ Hole(s, p)
  BY <1>1, <1>2, <1>5 DEF Threads
<1> QED BY <1>6 DEF Hole

(* What sorting may touch is in use, if the set is contiguous.             *)
LEMMA SortedAreUsed ==
  ASSUME NEW s, Whole(s), Contiguous(s)
  PROVE  /\ SortLength(s) \in Nat /\ SortLength(s) <= Size(s)
         /\ \A p \in 0 .. SortLength(s) - 1 : Used(s, p)
<1>1. Sound(s) /\ Threaded(s)
  BY DEF Whole
<1>2. Size(s) \in Nat /\ s.head \in Nat /\ Positions(s) = 0 .. Size(s) - 1 /\ s.mode \in Modes
  BY <1>1, PositionsFit DEF Sound, SetsOver
<1>3. CASE s.mode = "swap_only"
  <2>1. SortLength(s) = s.head /\ s.head <= Size(s)
    BY <1>1, <1>3 DEF SortLength, Sound, HeadSound
  <2>2. \A p \in 0 .. s.head - 1 : p \in Positions(s) /\ p < s.head
    BY <1>2, <2>1
  <2> QED BY <2>1, <2>2, <1>1, <1>2, <1>3 DEF Used, Sound, HeadSound
<1>4. CASE s.mode # "swap_only"
  <2>1. SortLength(s) = Size(s)
    BY <1>4 DEF SortLength
  <2>2. \A p \in Positions(s) : ~ IsTombstone(At(s, p))
    <3>1. CASE s.mode = "in_place"
      BY <3>1, <1>1, NoHoles DEF Contiguous
    <3>2. CASE s.mode # "in_place"
      BY <3>2, <1>1 DEF Sound, HeadSound
    <3> QED BY <3>1, <3>2
  <2> QED BY <2>1, <2>2, <1>2, <1>4 DEF Used
<1> QED BY <1>3, <1>4

(* sort_as exchanges elements in use only.                                 *)
LEMMA SortAsWhole ==
  ASSUME NEW s, Whole(s), Contiguous(s), NEW n \in Nat, NEW ids \in [1 .. n -> ValidIdentifiers],
         \A i \in 1 .. n : SetContains(s, ids[i]) => ids[i] \in InUse(s),
         NEW t, t = SortAs(s, ids)
  PROVE  Rearranged(s, t)
<1>1. ids \in Seq(ValidIdentifiers) /\ Len(ids) = n
  OBVIOUS
<1>2. PICK what, b : /\ what = [step |-> "sort_as", ids |-> ids]
                     /\ b = [set |-> s, it |-> SortLength(s)]
  OBVIOUS
<1>3. PICK c : IsRun(c, what, n, b) /\ SortAsRun(s, ids) = c[n]
  BY ONLY <1>1, <1>2, SortAsRuns
<1>4. c[0] = b /\ \A k \in 1 .. n : c[k] = SortAsStep(c[k - 1], ids[k])
  BY <1>2, <1>3 DEF IsRun, SetStep
<1>5. /\ SortLength(s) \in Nat
      /\ \A p \in 0 .. SortLength(s) - 1 : Used(s, p)
  BY SortedAreUsed
<1> DEFINE T == {k \in 0 .. n : Rearranged(s, c[k].set) /\ c[k].it \in 0 .. SortLength(s)}
<1>6. 0 \in T
  <2>1. c[0].set = s /\ c[0].it = SortLength(s)
    BY <1>2, <1>4
  <2> QED BY <2>1, <1>5 DEF Rearranged
<1>7. ASSUME NEW k \in 1 .. n, k - 1 \in T PROVE k \in T
  <2>1. PICK a, id, u : a = c[k - 1] /\ id = ids[k] /\ u = a.set
    OBVIOUS
  <2>2. Rearranged(s, u) /\ a.it \in 0 .. SortLength(s) /\ id \in ValidIdentifiers
    BY <1>7, <2>1
  <2>3. CASE a.it = 0 \/ ~ SetContains(u, id)
    <3>1. c[k] = a
      BY <1>4, <2>1, <2>3 DEF SortAsStep
    <3> QED BY <3>1, <2>1, <2>2
  <2>4. CASE a.it # 0 /\ SetContains(u, id)
    <3>1. PICK p, entt : p = a.it - 1 /\ entt = At(u, p)
      OBVIOUS
    <3>2. p \in 0 .. SortLength(s) - 1 /\ p \in 0 .. SortLength(s)
      BY <1>5, <2>2, <2>4, <3>1
    <3>3. Sound(u) /\ Used(u, p)
      BY <1>5, <2>2, <3>2 DEF Rearranged, Whole
    <3>4. entt \in InUse(u)
      BY <3>1, <3>3, UseIs DEF Used
    <3>5. id \in InUse(u)
      BY <2>1, <2>2, <2>4 DEF Rearranged
    <3>6. PICK v : v = IF entt = id THEN u ELSE SwapElements(u, entt, id)
      OBVIOUS
    <3>7. c[k] = [set |-> v, it |-> p]
      BY <1>4, <2>1, <2>4, <3>1, <3>6 DEF SortAsStep
    <3>8. Rearranged(s, v)
      <4>1. CASE entt = id
        BY <4>1, <2>2, <3>6
      <4>2. CASE entt # id
        <5>1. Rearranged(u, v)
          BY <4>2, <2>2, <3>4, <3>5, <3>6, SwapRearranges DEF Rearranged
        <5> QED BY <5>1, <2>2 DEF Rearranged
      <4> QED BY <4>1, <4>2
    <3> QED BY <3>2, <3>7, <3>8
  <2> QED BY <2>3, <2>4
<1>8. n \in T
  <2>1. \A k \in 0 .. n : k \in T
    <3> HIDE DEF T
    <3> QED BY <1>6, <1>7, CountUp
  <2> HIDE DEF T
  <2> QED BY <2>1
<1> QED BY <1>3, <1>8 DEF SortAs

(* The walk of sort_n, from a position on.                                 *)
CycleAt(a, pos) == [a EXCEPT !.curr = pos, !.next = Index(a.set, At(a.set, pos))]

(* The inner loop of sort_n, for a position.                               *)
LEMMA FollowRuns ==
  ASSUME NEW a, NEW pos, NEW n \in Nat,
         NEW what, what = [step |-> "follow"],
         NEW b, b = CycleAt(a, pos)
  PROVE  \E c : IsRun(c, what, n, b) /\ SortCycle(a, pos, n) = c[n]
<1>1. PICK q : q = [k \in 1 .. n |-> k]
  OBVIOUS
<1>2. DOMAIN q = 1 .. n /\ \A k \in 1 .. n : q[k] = k
  BY <1>1
<1>3. \A x, k : SetStep(what, x, k) = SortStep(x)
  BY DEF SetStep
<1>4. PICK f : IsLoop(f, what, n, b)
  BY LoopExists
<1>5. \A u \in SUBSET (1 .. n) : u # {} => q[Max(u)] = Max(u)
  <2> SUFFICES ASSUME NEW u \in SUBSET (1 .. n), u # {} PROVE q[Max(u)] = Max(u)
    OBVIOUS
  <2>1. Max(u) \in 1 .. n
    BY LastExists
  <2> QED BY <2>1, <1>2
<1>6. f = [u \in SUBSET (1 .. n) |->
             IF u = {} THEN b ELSE SortStep(f[u \ {Max(u)}])]
  <2>1. ASSUME NEW u \in SUBSET (1 .. n)
        PROVE  (IF u = {} THEN b ELSE SortStep(f[u \ {Max(u)}]))
                 = IF u = {} THEN b ELSE SetStep(what, f[u \ {Max(u)}], Max(u))
    BY <1>3, <1>5
  <2> QED BY <2>1, <1>4 DEF IsLoop
<1>7. PICK h :
        /\ h = [u \in SUBSET (1 .. n) |->
             IF u = {} THEN b ELSE SortStep(h[u \ {Max(u)}])]
        /\ SortCycle(a, pos, n) = h[1 .. n]
  <2>1. SortCycle(a, pos, n) = FoldLeft(LAMBDA d, k : SortStep(d), b, q)
    BY <1>1 DEF SortCycle, CycleAt
  <2> QED BY ZenonT(60), <2>1, <1>2, <1>6 DEF FoldLeft, MapThenFoldSet
<1>8. IsLoop(h, what, n, b)
  <2>1. ASSUME NEW u \in SUBSET (1 .. n)
        PROVE  (IF u = {} THEN b ELSE SortStep(h[u \ {Max(u)}]))
                 = IF u = {} THEN b ELSE SetStep(what, h[u \ {Max(u)}], Max(u))
    BY <1>3, <1>5
  <2> QED BY <2>1, <1>7 DEF IsLoop
<1>9. PICK c : IsRun(c, what, n, b) /\ c[n] = h[1 .. n]
  BY ONLY <1>8, n \in Nat, LoopRuns
<1> QED BY <1>7, <1>9

(* The array that the algorithm has permuted.                              *)
Permuted(s, length, perm) ==
  [s EXCEPT !.packed = [n \in 1 .. Size(s) |-> IF n <= length THEN @[perm[n]] ELSE @[n]]]

(* The outer loop goes from one position to the next.                      *)
LEMMA CycleRuns ==
  ASSUME NEW s, NEW perm, NEW n \in Nat,
         NEW what, what = [step |-> "cycle", length |-> n],
         NEW b, b = [set |-> Permuted(s, n, perm), curr |-> 0, next |-> 0, moves |-> << >>]
  PROVE  \E c : IsRun(c, what, n, b) /\ SortRun(s, n, perm) = c[n]
<1>1. PICK q : q = [k \in 1 .. n |-> k]
  OBVIOUS
<1>2. DOMAIN q = 1 .. n /\ \A k \in 1 .. n : q[k] = k
  BY <1>1
<1>3. \A x, k : SetStep(what, x, k) = SortCycle(x, k - 1, n)
  BY DEF SetStep
<1>4. PICK f : IsLoop(f, what, n, b)
  BY LoopExists
<1>5. \A u \in SUBSET (1 .. n) : u # {} => q[Max(u)] = Max(u)
  <2> SUFFICES ASSUME NEW u \in SUBSET (1 .. n), u # {} PROVE q[Max(u)] = Max(u)
    OBVIOUS
  <2>1. Max(u) \in 1 .. n
    BY LastExists
  <2> QED BY <2>1, <1>2
<1>6. f = [u \in SUBSET (1 .. n) |->
             IF u = {} THEN b ELSE SortCycle(f[u \ {Max(u)}], q[Max(u)] - 1, n)]
  <2>1. ASSUME NEW u \in SUBSET (1 .. n)
        PROVE  (IF u = {} THEN b ELSE SortCycle(f[u \ {Max(u)}], q[Max(u)] - 1, n))
                 = IF u = {} THEN b ELSE SetStep(what, f[u \ {Max(u)}], Max(u))
    BY <1>3, <1>5
  <2> QED BY <2>1, <1>4 DEF IsLoop
<1>7. PICK h :
        /\ h = [u \in SUBSET (1 .. n) |->
             IF u = {} THEN b ELSE SortCycle(h[u \ {Max(u)}], q[Max(u)] - 1, n)]
        /\ SortRun(s, n, perm) = h[1 .. n]
  <2>1. SortRun(s, n, perm) = FoldLeft(LAMBDA d, k : SortCycle(d, k - 1, n), b, q)
    <3>1. SortRun(s, n, perm) = FoldLeft(LAMBDA d, k : SortCycle(d, k - 1, n), b, [k \in 1 .. n |-> k])
      BY DEF SortRun, Permuted
    <3> QED BY <3>1, <1>1
  <2> QED BY ZenonT(60), <2>1, <1>2, <1>6 DEF FoldLeft, MapThenFoldSet
<1>8. IsLoop(h, what, n, b)
  <2>1. ASSUME NEW u \in SUBSET (1 .. n)
        PROVE  (IF u = {} THEN b ELSE SortCycle(h[u \ {Max(u)}], q[Max(u)] - 1, n))
                 = IF u = {} THEN b ELSE SetStep(what, h[u \ {Max(u)}], Max(u))
    BY <1>3, <1>5
  <2> QED BY <2>1, <1>7 DEF IsLoop
<1>9. PICK c : IsRun(c, what, n, b) /\ c[n] = h[1 .. n]
  BY ONLY <1>8, n \in Nat, LoopRuns
<1> QED BY <1>7, <1>9

(* The first n positions of m hold identifiers of different entities that  *)
(* the sparse array knows.                                                 *)
Sortable(m, n) ==
  /\ m \in SetsOver(Allocated(m)) /\ n \in Nat /\ n <= EntityMask
  /\ \A p \in 0 .. n - 1 :
       p \in Positions(m) /\ At(m, p) \in Identifiers /\ At(m, p).entity \in Allocated(m)
  /\ \A p, q \in 0 .. n - 1 : At(m, p).entity = At(m, q).entity => p = q

(* The sparse array of x finds what m has at position p there.             *)
Found(m, x, p) ==
  x.sparse[At(m, p).entity] = [entity |-> p, version |-> At(m, p).version]

(* x is m, but that the sparse array may have the first n positions in     *)
(* another order.                                                          *)
Repairing(m, n, x) ==
  /\ x \in SetsOver(Allocated(m)) /\ PagesAre(x, Allocated(m), m.extent)
  /\ x.packed = m.packed /\ x.mode = m.mode /\ x.head = m.head
  /\ \A p \in 0 .. n - 1 : \E i \in 0 .. n - 1 :
       x.sparse[At(m, p).entity] = [entity |-> i, version |-> At(m, p).version]
  /\ \A e \in Allocated(m) :
       (\A p \in 0 .. n - 1 : At(m, p).entity # e) => x.sparse[e] = m.sparse[e]

(* One turn of the inner loop finds curr, unless the cycle is closed, and  *)
(* loses nothing.                                                          *)
LEMMA FollowStep ==
  ASSUME NEW m, NEW n, Sortable(m, n), NEW a, Repairing(m, n, a.set),
         a.curr \in 0 .. n - 1, a.next \in 0 .. n - 1, NEW b, b = SortStep(a)
  PROVE  /\ Repairing(m, n, b.set) /\ b.curr \in 0 .. n - 1 /\ b.next \in 0 .. n - 1
         /\ \A p \in 0 .. n - 1 : Found(m, a.set, p) => Found(m, b.set, p)
         /\ a.curr # a.next => Found(m, b.set, a.curr)
<1>1. CASE a.curr = a.next
  BY <1>1 DEF SortStep
<1>2. CASE a.curr # a.next
  <2>1. PICK x, D, p, q : x = a.set /\ D = Allocated(m) /\ p = a.curr /\ q = a.next
    OBVIOUS
  <2>2. /\ x \in SetsOver(D) /\ PagesAre(x, D, m.extent)
        /\ x.packed = m.packed /\ x.mode = m.mode /\ x.head = m.head
        /\ \A r \in 0 .. n - 1 : \E i \in 0 .. n - 1 :
             x.sparse[At(m, r).entity] = [entity |-> i, version |-> At(m, r).version]
        /\ \A e \in D : (\A r \in 0 .. n - 1 : At(m, r).entity # e) => x.sparse[e] = m.sparse[e]
    BY <2>1 DEF Repairing
  <2>3. /\ p \in 0 .. n - 1 /\ q \in 0 .. n - 1 /\ p # q
        /\ \A r : At(x, r) = At(m, r)
    BY <1>2, <2>1, <2>2, SamePacked
  <2>4. PICK idx \in 0 .. n - 1 : x.sparse[At(m, q).entity] = [entity |-> idx, version |-> At(m, q).version]
    BY <2>2, <2>3
  <2>5. Index(x, At(x, q)) = idx
    BY <2>3, <2>4 DEF Index, Elem
  <2>6. PICK id : id = At(m, p)
    OBVIOUS
  <2>7. /\ id \in Identifiers /\ id.entity \in D /\ p \in 0 .. EntityMask
        /\ \A r \in 0 .. n - 1 : At(m, r).entity = id.entity => r = p
    BY <2>1, <2>3, <2>6, EntityMaskAssumption DEF Sortable
  <2>8. PICK elem : elem = Combine(p, id)
    OBVIOUS
  <2>9. elem = [entity |-> p, version |-> id.version] /\ elem \in Identifiers
    BY <2>7, <2>8, CombineFits
  <2>10. PICK y : y = SetSparse(x, id, elem)
    OBVIOUS
  <2>11. b = [set |-> y, curr |-> q, next |-> idx, moves |-> Append(a.moves, <<q, idx>>)]
    BY <1>2, <2>1, <2>3, <2>5, <2>6, <2>8, <2>10 DEF SortStep
  <2>12. SparseWritten(D, x, id.entity, elem, y)
    BY <2>2, <2>7, <2>9, <2>10, SetSparseFacts
  <2>13. /\ y \in SetsOver(D) /\ y.packed = m.packed /\ y.mode = m.mode /\ y.head = m.head
         /\ \A d \in D : y.sparse[d] = IF d = id.entity THEN elem ELSE x.sparse[d]
    BY <2>2, <2>12 DEF SparseWritten
  <2>14. PagesAre(y, D, m.extent)
    BY <2>2, <2>10, WritePages
  <2>15. \A r \in 0 .. n - 1 : At(m, r).entity \in D
    BY <2>1 DEF Sortable
  <2>16. ASSUME NEW r \in 0 .. n - 1
         PROVE  \E i \in 0 .. n - 1 :
                  y.sparse[At(m, r).entity] = [entity |-> i, version |-> At(m, r).version]
    <3>1. CASE r = p
      BY <3>1, <2>3, <2>6, <2>7, <2>9, <2>13
    <3>2. CASE r # p
      <4>1. y.sparse[At(m, r).entity] = x.sparse[At(m, r).entity]
        BY <3>2, <2>7, <2>13, <2>15
      <4> QED BY <4>1, <2>2
    <3> QED BY <3>1, <3>2
  <2>17. \A e \in D : (\A r \in 0 .. n - 1 : At(m, r).entity # e) => y.sparse[e] = m.sparse[e]
    BY <2>2, <2>3, <2>6, <2>13
  <2>18. Repairing(m, n, y)
    BY <2>1, <2>13, <2>14, <2>16, <2>17 DEF Repairing
  <2>19. Found(m, y, p)
    BY <2>6, <2>7, <2>9, <2>13 DEF Found
  <2>20. ASSUME NEW r \in 0 .. n - 1, Found(m, x, r) PROVE Found(m, y, r)
    <3>1. CASE r = p
      BY <3>1, <2>19
    <3>2. CASE r # p
      BY <3>2, <2>7, <2>13, <2>15, <2>20 DEF Found
    <3> QED BY <3>1, <3>2
  <2>21. b.set = y /\ b.curr = q /\ b.next = idx
    BY <2>11
  <2> QED BY <2>1, <2>3, <2>18, <2>19, <2>20, <2>21
<1> QED BY <1>1, <1>2

(* The inner loop, from a position on, finds that position.                *)
LEMMA CycleFinds ==
  ASSUME NEW m, NEW n, Sortable(m, n), NEW a, Repairing(m, n, a.set),
         {"set", "curr", "next"} \subseteq DOMAIN a,
         NEW pos \in 0 .. n - 1, NEW b, b = SortCycle(a, pos, n)
  PROVE  /\ Repairing(m, n, b.set) /\ {"set", "curr", "next"} \subseteq DOMAIN b
         /\ \A p \in 0 .. n - 1 : Found(m, a.set, p) => Found(m, b.set, p)
         /\ Found(m, b.set, pos)
<1>1. n \in Nat
  BY DEF Sortable
<1>2. PICK what, d : what = [step |-> "follow"] /\ d = CycleAt(a, pos)
  OBVIOUS
<1>3. PICK c : IsRun(c, what, n, d) /\ b = c[n]
  <2>1. \E c : IsRun(c, what, n, d) /\ SortCycle(a, pos, n) = c[n]
    BY ONLY <1>1, <1>2, FollowRuns
  <2> QED BY <2>1
<1>4. PICK z : z = Index(a.set, At(a.set, pos))
  OBVIOUS
<1>5. c[0] = d /\ \A k \in 1 .. n : c[k] = SortStep(c[k - 1])
  BY <1>2, <1>3 DEF IsRun, SetStep
<1>6. d.set = a.set /\ d.curr = pos /\ d.next = z /\ {"set", "curr", "next"} \subseteq DOMAIN d
  BY <1>2, <1>4 DEF CycleAt
<1>7. PICK i \in 0 .. n - 1 : a.set.sparse[At(m, pos).entity] = [entity |-> i, version |-> At(m, pos).version]
  BY DEF Repairing
<1>8. At(a.set, pos) = At(m, pos)
  BY SamePacked DEF Repairing
<1>9. z = i
  BY <1>4, <1>7, <1>8 DEF Index, Elem
<1>10. pos = z => Found(m, a.set, pos)
  BY <1>7, <1>9 DEF Found
<1> DEFINE Good(k) == /\ Repairing(m, n, c[k].set) /\ {"set", "curr", "next"} \subseteq DOMAIN c[k]
                      /\ c[k].curr \in 0 .. n - 1 /\ c[k].next \in 0 .. n - 1
                      /\ \A p \in 0 .. n - 1 : Found(m, a.set, p) => Found(m, c[k].set, p)
                      /\ IF k = 0 THEN c[k] = d ELSE Found(m, c[k].set, pos)
           T == {k \in 0 .. n : Good(k)}
<1>11. 0 \in T
  BY <1>1, <1>5, <1>6, <1>9
<1>12. ASSUME NEW k \in 1 .. n, k - 1 \in T PROVE k \in T
  <2>1. PICK x, y : x = c[k - 1] /\ y = c[k]
    OBVIOUS
  <2>2. /\ Repairing(m, n, x.set) /\ {"set", "curr", "next"} \subseteq DOMAIN x
        /\ x.curr \in 0 .. n - 1 /\ x.next \in 0 .. n - 1
        /\ \A p \in 0 .. n - 1 : Found(m, a.set, p) => Found(m, x.set, p)
        /\ IF k - 1 = 0 THEN x = d ELSE Found(m, x.set, pos)
    BY <1>12, <2>1
  <2>3. y = SortStep(x)
    BY <1>5, <2>1
  <2>4. /\ Repairing(m, n, y.set) /\ y.curr \in 0 .. n - 1 /\ y.next \in 0 .. n - 1
        /\ \A p \in 0 .. n - 1 : Found(m, x.set, p) => Found(m, y.set, p)
        /\ x.curr # x.next => Found(m, y.set, x.curr)
    BY <2>2, <2>3, FollowStep
  <2>5. {"set", "curr", "next"} \subseteq DOMAIN y
    BY <2>2, <2>3 DEF SortStep
  <2>6. Found(m, y.set, pos)
    <3>1. CASE k - 1 = 0
      <4>1. x.set = a.set /\ x.curr = pos /\ x.next = z
        BY <3>1, <2>2, <1>6
      <4> QED BY <4>1, <2>4, <1>10
    <3>2. CASE k - 1 # 0
      BY <3>2, <2>2, <2>4
    <3> QED BY <3>1, <3>2
  <2>7. k \in 0 .. n /\ k # 0
    OBVIOUS
  <2>8. Good(k)
    BY <2>1, <2>2, <2>4, <2>5, <2>6, <2>7
  <2> QED BY <2>7, <2>8
<1>13. n \in T /\ n # 0
  <2>1. \A k \in 0 .. n : k \in T
    <3> HIDE DEF T
    <3> QED BY <1>1, <1>11, <1>12, CountUp
  <2> HIDE DEF T
  <2> QED BY <1>1, <2>1
<1> QED BY <1>3, <1>13

(* The outer loop finds every position that was sorted.                    *)
LEMMA SortRunFinds ==
  ASSUME NEW s, NEW perm, NEW n, NEW m, m = Permuted(s, n, perm), Sortable(m, n), Repairing(m, n, m),
         NEW u, u = SortN(s, n, perm)
  PROVE  Repairing(m, n, u) /\ \A p \in 0 .. n - 1 : Found(m, u, p)
<1>1. n \in Nat
  BY DEF Sortable
<1>2. PICK what, b : /\ what = [step |-> "cycle", length |-> n]
                     /\ b = [set |-> m, curr |-> 0, next |-> 0, moves |-> << >>]
  OBVIOUS
<1>3. PICK c : IsRun(c, what, n, b) /\ SortRun(s, n, perm) = c[n]
  BY <1>1, <1>2, CycleRuns
<1>4. c[0] = b /\ \A k \in 1 .. n : c[k] = SortCycle(c[k - 1], k - 1, n)
  BY <1>2, <1>3 DEF IsRun, SetStep
<1> DEFINE Good(k) == /\ Repairing(m, n, c[k].set) /\ {"set", "curr", "next"} \subseteq DOMAIN c[k]
                      /\ \A p \in 0 .. k - 1 : Found(m, c[k].set, p)
           T == {k \in 0 .. n : Good(k)}
<1>5. 0 \in T
  <2>1. c[0].set = m /\ {"set", "curr", "next"} \subseteq DOMAIN c[0]
    BY <1>2, <1>4
  <2> QED BY <1>1, <2>1
<1>6. ASSUME NEW k \in 1 .. n, k - 1 \in T PROVE k \in T
  <2>1. PICK x, y, pos : x = c[k - 1] /\ y = c[k] /\ pos = k - 1
    OBVIOUS
  <2>2. /\ Repairing(m, n, x.set) /\ {"set", "curr", "next"} \subseteq DOMAIN x
        /\ \A p \in 0 .. pos - 1 : Found(m, x.set, p)
    BY <1>6, <2>1
  <2>3. y = SortCycle(x, pos, n) /\ pos \in 0 .. n - 1
    BY <1>1, <1>4, <2>1
  <2>4. /\ Repairing(m, n, y.set) /\ {"set", "curr", "next"} \subseteq DOMAIN y
        /\ \A p \in 0 .. n - 1 : Found(m, x.set, p) => Found(m, y.set, p)
        /\ Found(m, y.set, pos)
    BY <2>2, <2>3, CycleFinds
  <2>5. \A p \in 0 .. k - 1 : p \in 0 .. n - 1 /\ (p \in 0 .. pos - 1 \/ p = pos)
    BY <1>1, <2>1
  <2>6. Good(k)
    BY <2>1, <2>2, <2>4, <2>5
  <2> QED BY <2>6
<1>7. n \in T
  <2>1. \A k \in 0 .. n : k \in T
    <3> HIDE DEF T
    <3> QED BY <1>1, <1>5, <1>6, CountUp
  <2> HIDE DEF T
  <2> QED BY <1>1, <2>1
<1> QED BY <1>3, <1>7 DEF SortN

(* f tells where in s the element comes from that m has at a position: m   *)
(* is s with its first n positions in another order.                       *)
ComesFrom(s, n, f, m) ==
  /\ f \in [Positions(s) -> Positions(s)]
  /\ \A p, q \in Positions(s) : f[p] = f[q] => p = q
  /\ \A q \in Positions(s) : \E p \in Positions(s) : f[p] = q
  /\ \A p \in Positions(s) : IF p < n THEN f[p] < n ELSE f[p] = p
  /\ m \in SetsOver(Allocated(s)) /\ m.sparse = s.sparse /\ m.extent = s.extent
  /\ m.mode = s.mode /\ m.head = s.head
  /\ Size(m) = Size(s) /\ Positions(m) = Positions(s)
  /\ \A p \in Positions(s) : At(m, p) = At(s, f[p])

(* The algorithm that sort_n calls does that.                              *)
LEMMA PermutedFacts ==
  ASSUME NEW s, Sound(s), NEW n \in 0 .. Size(s), NEW perm \in Bijection(1 .. n, 1 .. n),
         NEW m, m = Permuted(s, n, perm)
  PROVE  \E f : ComesFrom(s, n, f, m)
<1>1. /\ s \in SetsOver(Allocated(s)) /\ Size(s) \in Nat /\ Positions(s) = 0 .. Size(s) - 1
      /\ \A p \in Positions(s) : At(s, p) \in Identifiers
  BY PositionsFit
<1>2. PICK N, D : N = Size(s) /\ D = Allocated(s)
  OBVIOUS
<1>3. N \in Nat /\ n \in 0 .. N /\ s \in SetsOver(D) /\ Positions(s) = 0 .. N - 1
  BY <1>1, <1>2
<1>4. /\ perm \in [1 .. n -> 1 .. n] /\ (\A i, j \in 1 .. n : perm[i] = perm[j] => i = j)
      /\ \A i \in 1 .. n : \E j \in 1 .. n : perm[j] = i
  BY DEF Bijection, Injection, Surjection, IsInjective
<1>5. PICK f : f = [p \in 0 .. N - 1 |-> IF p < n THEN perm[p + 1] - 1 ELSE p]
  OBVIOUS
<1>6. \A p \in 0 .. N - 1 : p < n => p + 1 \in 1 .. n /\ perm[p + 1] \in 1 .. n
  BY <1>3, <1>4
<1>7. \A p \in 0 .. N - 1 : IF p < n THEN f[p] = perm[p + 1] - 1 /\ f[p] \in 0 .. n - 1 ELSE f[p] = p
  BY <1>3, <1>5, <1>6
<1>8. f \in [0 .. N - 1 -> 0 .. N - 1]
  <2>1. \A p \in 0 .. N - 1 : f[p] \in 0 .. N - 1
    BY <1>3, <1>7
  <2> QED BY <2>1, <1>5
<1>9. \A p, q \in 0 .. N - 1 : f[p] = f[q] => p = q
  <2> SUFFICES ASSUME NEW p \in 0 .. N - 1, NEW q \in 0 .. N - 1, f[p] = f[q] PROVE p = q
    OBVIOUS
  <2>1. CASE p < n /\ q < n
    <3>1. perm[p + 1] = perm[q + 1] /\ p + 1 \in 1 .. n /\ q + 1 \in 1 .. n
      BY <2>1, <1>6, <1>7
    <3>2. p + 1 = q + 1
      BY <3>1, <1>4
    <3> QED BY <3>2
  <2>2. CASE ~ (p < n /\ q < n)
    BY <2>2, <1>3, <1>7
  <2> QED BY <2>1, <2>2
<1>10. \A q \in 0 .. N - 1 : \E p \in 0 .. N - 1 : f[p] = q
  <2> SUFFICES ASSUME NEW q \in 0 .. N - 1 PROVE \E p \in 0 .. N - 1 : f[p] = q
    OBVIOUS
  <2>1. CASE q < n
    <3>1. q + 1 \in 1 .. n
      BY <2>1, <1>3
    <3>2. PICK j \in 1 .. n : perm[j] = q + 1
      BY <3>1, <1>4
    <3>3. j - 1 \in 0 .. N - 1 /\ j - 1 < n /\ (j - 1) + 1 = j
      BY <1>3
    <3>4. f[j - 1] = perm[j] - 1
      BY <3>3, <1>7
    <3>5. f[j - 1] = q
      BY <3>2, <3>4
    <3> QED BY <3>3, <3>5
  <2>2. CASE ~ (q < n)
    BY <2>2, <1>7
  <2> QED BY <2>1, <2>2
<1>11. PICK r : r = [k \in 1 .. N |-> IF k <= n THEN s.packed[perm[k]] ELSE s.packed[k]]
  OBVIOUS
<1>12. m = [s EXCEPT !.packed = r]
  BY <1>2, <1>11 DEF Permuted
<1>13. s.packed \in Seq(Identifiers) /\ Len(s.packed) = N
  BY <1>2, <1>3 DEF SetsOver, Size
<1>14. \A k \in 1 .. N : s.packed[k] \in Identifiers
  BY <1>13
<1>15. \A k \in 1 .. N : k <= n => k \in 1 .. n /\ perm[k] \in 1 .. N
  BY <1>3, <1>4
<1>16. r \in Seq(Identifiers) /\ Len(r) = N
  <2>1. \A k \in 1 .. N : r[k] \in Identifiers
    BY <1>11, <1>14, <1>15
  <2> QED BY <2>1, <1>3, <1>11
<1>17. /\ m \in SetsOver(D) /\ m.sparse = s.sparse /\ m.extent = s.extent
       /\ m.mode = s.mode /\ m.head = s.head /\ m.packed = r
  BY <1>3, <1>12, <1>16 DEF SetsOver
<1>18. Size(m) = N /\ Positions(m) = 0 .. N - 1
  BY <1>16, <1>17 DEF Size, Positions
<1>19. ASSUME NEW p \in 0 .. N - 1 PROVE At(m, p) = At(s, f[p])
  <2>1. p + 1 \in 1 .. N
    BY <1>3
  <2>2. At(m, p) = r[p + 1] /\ At(s, f[p]) = s.packed[f[p] + 1]
    BY <1>17 DEF At
  <2>3. CASE p < n
    <3>1. p + 1 <= n /\ f[p] + 1 = perm[p + 1]
      BY <2>3, <1>3, <1>6, <1>7
    <3> QED BY <2>1, <2>2, <3>1, <1>11
  <2>4. CASE ~ (p < n)
    <3>1. ~ (p + 1 <= n) /\ f[p] = p
      BY <2>4, <1>3, <1>7
    <3> QED BY <2>1, <2>2, <3>1, <1>11
  <2> QED BY <2>3, <2>4
<1>20. \A p \in 0 .. N - 1 : IF p < n THEN f[p] < n ELSE f[p] = p
  BY <1>3, <1>7
<1>21. Positions(s) = 0 .. N - 1 /\ Size(s) = N /\ Allocated(s) = D
  BY <1>2, <1>3
<1>22. ComesFrom(s, n, f, m)
  BY ONLY <1>8, <1>9, <1>10, <1>17, <1>18, <1>19, <1>20, <1>21 DEF ComesFrom
<1> QED BY <1>22

(* A contiguous set has no tombstones.                                     *)
LEMMA AllLive ==
  ASSUME NEW s, Sound(s), Threaded(s), Contiguous(s)
  PROVE  \A p \in Positions(s) : ~ IsTombstone(At(s, p))
<1>1. CASE s.mode = "in_place"
  BY <1>1, NoHoles DEF Contiguous
<1>2. CASE s.mode # "in_place"
  BY <1>2 DEF Sound, HeadSound
<1> QED BY <1>1, <1>2

(* What the algorithm leaves is what the loops can repair.                 *)
LEMMA PermutedSortable ==
  ASSUME NEW s, Sound(s), NEW n \in 0 .. Size(s), NEW f, NEW m, ComesFrom(s, n, f, m),
         \A p \in Positions(s) : ~ IsTombstone(At(s, p))
  PROVE  Sortable(m, n) /\ Repairing(m, n, m)
<1>1. PICK D, N : D = Allocated(s) /\ N = Size(s)
  OBVIOUS
<1>2. /\ s \in SetsOver(D) /\ N \in Nat /\ N <= EntityMask /\ Positions(s) = 0 .. N - 1 /\ n \in 0 .. N
      /\ \A p \in 0 .. N - 1 : At(s, p) \in Identifiers
  BY <1>1, PositionsFit DEF Sound
<1>3. /\ f \in [0 .. N - 1 -> 0 .. N - 1]
      /\ \A p, q \in 0 .. N - 1 : f[p] = f[q] => p = q
      /\ \A p \in 0 .. N - 1 : IF p < n THEN f[p] < n ELSE f[p] = p
      /\ m \in SetsOver(D) /\ m.sparse = s.sparse
      /\ Positions(m) = 0 .. N - 1
      /\ \A p \in 0 .. N - 1 : At(m, p) = At(s, f[p])
  BY <1>1, <1>2 DEF ComesFrom
<1>4. Allocated(m) = D /\ PagesAre(m, D, m.extent)
  BY <1>3, AllocatedIs DEF PagesAre, SetsOver
<1>5. \A p \in 0 .. N - 1 :
        /\ At(s, p).entity \in D
        /\ s.sparse[At(s, p).entity] = [entity |-> p, version |-> At(s, p).version]
  BY <1>1, <1>2 DEF Sound, PackedLinked
<1>6. \A p \in 0 .. N - 1 :
        /\ At(m, p) \in Identifiers /\ At(m, p).entity \in D
        /\ m.sparse[At(m, p).entity] = [entity |-> f[p], version |-> At(m, p).version]
  BY <1>2, <1>3, <1>5
<1>7. \A p \in 0 .. n - 1 : p \in 0 .. N - 1 /\ p < n /\ f[p] \in 0 .. n - 1
  BY <1>2, <1>3
<1>8. ASSUME NEW p \in 0 .. n - 1, NEW q \in 0 .. n - 1, At(m, p).entity = At(m, q).entity
      PROVE  p = q
  <2>1. PICK e : e = At(m, p).entity
    OBVIOUS
  <2>2. PICK v, w : v = At(m, p).version /\ w = At(m, q).version
    OBVIOUS
  <2>3. m.sparse[e] = [entity |-> f[p], version |-> v]
    BY <2>1, <2>2, <1>6, <1>7
  <2>4. m.sparse[e] = [entity |-> f[q], version |-> w]
    BY <2>1, <2>2, <1>6, <1>7, <1>8
  <2>5. f[p] = f[q]
    BY <2>3, <2>4
  <2> QED BY <2>5, <1>3, <1>7
<1>9. n \in Nat /\ n <= EntityMask
  BY <1>2, EntityMaskAssumption
<1>10. Sortable(m, n)
  <2>1. \A p \in 0 .. n - 1 :
          p \in Positions(m) /\ At(m, p) \in Identifiers /\ At(m, p).entity \in Allocated(m)
    BY <1>3, <1>4, <1>6, <1>7
  <2> QED BY <2>1, <1>3, <1>4, <1>8, <1>9 DEF Sortable
<1>11. \A p \in 0 .. n - 1 : \E i \in 0 .. n - 1 :
         m.sparse[At(m, p).entity] = [entity |-> i, version |-> At(m, p).version]
  BY <1>6, <1>7
<1> QED BY <1>3, <1>4, <1>10, <1>11 DEF Repairing

(* sort_n exchanges elements in use only, and every one is found where it  *)
(* went.                                                                   *)
LEMMA SortWhole ==
  ASSUME NEW s, Whole(s), Contiguous(s), NEW n \in Nat, n <= SortLength(s),
         NEW perm \in Bijection(1 .. n, 1 .. n), NEW t, t = SortN(s, n, perm)
  PROVE  Whole(t) /\ t.mode = s.mode /\ InUse(t) = InUse(s)
<1>1. Sound(s) /\ Threaded(s) /\ Paged(Allocated(s), s.extent)
  BY DEF Whole
<1>2. PICK D, N : D = Allocated(s) /\ N = Size(s)
  OBVIOUS
<1>3. /\ s \in SetsOver(D) /\ N \in Nat /\ N <= EntityMask /\ Positions(s) = 0 .. N - 1 /\ s.head \in Nat
      /\ \A p \in 0 .. N - 1 : At(s, p) \in Identifiers
      /\ \A p \in 0 .. N - 1 : p \in 0 .. EntityMask - 1
  BY <1>1, <1>2, PositionsFit DEF Sound
<1>4. \A p \in 0 .. N - 1 : ~ IsTombstone(At(s, p))
  BY <1>1, <1>3, AllLive
<1>5. n \in 0 .. N /\ n <= SortLength(s)
  BY <1>2, <1>3, SortedAreUsed
<1>6. PICK m : m = Permuted(s, n, perm)
  OBVIOUS
<1>7. PICK f : ComesFrom(s, n, f, m)
  BY <1>1, <1>2, <1>5, <1>6, PermutedFacts
<1>8. Sortable(m, n) /\ Repairing(m, n, m)
  BY <1>1, <1>2, <1>3, <1>4, <1>5, <1>7, PermutedSortable
<1>9. Repairing(m, n, t) /\ \A p \in 0 .. n - 1 : Found(m, t, p)
  BY <1>6, <1>8, SortRunFinds
<1>10. /\ f \in [0 .. N - 1 -> 0 .. N - 1]
       /\ \A q \in 0 .. N - 1 : \E p \in 0 .. N - 1 : f[p] = q
       /\ \A p \in 0 .. N - 1 : IF p < n THEN f[p] < n ELSE f[p] = p
       /\ m \in SetsOver(D) /\ m.sparse = s.sparse /\ m.extent = s.extent
       /\ m.mode = s.mode /\ m.head = s.head
       /\ Size(m) = N /\ Positions(m) = 0 .. N - 1
       /\ \A p \in 0 .. N - 1 : At(m, p) = At(s, f[p])
  BY <1>2, <1>3, <1>7 DEF ComesFrom
<1>11. Allocated(m) = D
  BY <1>10, AllocatedIs
<1>12. /\ t \in SetsOver(D) /\ PagesAre(t, D, s.extent)
       /\ t.packed = m.packed /\ t.mode = s.mode /\ t.head = s.head
       /\ \A e \in D : (\A p \in 0 .. n - 1 : At(m, p).entity # e) => t.sparse[e] = s.sparse[e]
  BY <1>9, <1>10, <1>11 DEF Repairing
<1>13. Allocated(t) = D
  BY <1>12 DEF PagesAre
<1>14. /\ Size(t) = N /\ Positions(t) = 0 .. N - 1
       /\ \A p \in 0 .. N - 1 : At(t, p) = At(m, p)
  BY <1>10, <1>12, SamePacked
<1>15. \A p \in 0 .. N - 1 :
         At(t, p) \in Identifiers /\ ~ IsTombstone(At(t, p)) /\ At(t, p).entity \in D
  <2>1. \A p \in 0 .. N - 1 : At(s, p).entity \in D
    BY <1>1, <1>2, <1>3, <1>4 DEF Sound, PackedLinked
  <2>2. \A p \in 0 .. N - 1 : f[p] \in 0 .. N - 1 /\ At(t, p) = At(s, f[p])
    BY <1>10, <1>14
  <2> QED BY <2>1, <2>2, <1>3, <1>4
<1>16. \A p \in 0 .. N - 1 :
         p < n => t.sparse[At(t, p).entity] = [entity |-> p, version |-> At(t, p).version]
  <2>1. \A p \in 0 .. N - 1 : p < n => p \in 0 .. n - 1
    BY <1>3, <1>5
  <2> QED BY <2>1, <1>9, <1>14 DEF Found
<1>17. \A p \in 0 .. N - 1 :
         s.sparse[At(s, p).entity] = [entity |-> p, version |-> At(s, p).version]
  BY <1>1, <1>3, <1>4 DEF Sound, PackedLinked
<1>18. \A p \in 0 .. n - 1 : p \in 0 .. N - 1 /\ p < n
  BY <1>3, <1>5
<1>19. PackedLinked(t)
  <2> SUFFICES ASSUME NEW p \in 0 .. N - 1
               PROVE  t.sparse[At(t, p).entity] = [entity |-> p, version |-> At(t, p).version]
    BY <1>13, <1>14, <1>15 DEF PackedLinked
  <2>1. CASE p < n
    BY <2>1, <1>16
  <2>2. CASE ~ (p < n)
    <3>1. f[p] = p /\ At(t, p) = At(s, p)
      BY <2>2, <1>10, <1>14
    <3>2. PICK e : e = At(s, p).entity
      OBVIOUS
    <3>3. ASSUME NEW q \in 0 .. n - 1, At(m, q).entity = e PROVE FALSE
      <4>1. f[q] \in 0 .. N - 1 /\ f[q] < n /\ At(m, q) = At(s, f[q])
        BY <1>10, <1>18
      <4>2. PICK v, w : v = At(s, p).version /\ w = At(s, f[q]).version
        OBVIOUS
      <4>3. s.sparse[e] = [entity |-> p, version |-> v]
        BY <3>2, <4>2, <1>17
      <4>4. s.sparse[e] = [entity |-> f[q], version |-> w]
        BY <3>3, <4>1, <4>2, <1>17
      <4>5. f[q] = p
        BY <4>3, <4>4
      <4> QED BY <4>1, <4>5, <2>2
    <3>4. t.sparse[e] = s.sparse[e]
      BY <3>1, <3>2, <3>3, <1>12, <1>15
    <3> QED BY <3>1, <3>2, <3>4, <1>17
  <2> QED BY <2>1, <2>2
<1>20. ASSUME NEW e \in D
       PROVE  \/ /\ t.sparse[e] = s.sparse[e]
                 /\ s.sparse[e].entity \in 0 .. N - 1 /\ At(s, s.sparse[e].entity).entity = e
                      => At(t, s.sparse[e].entity) = At(s, s.sparse[e].entity)
              \/ \E p \in 0 .. n - 1 :
                   At(t, p).entity = e /\ t.sparse[e] = [entity |-> p, version |-> At(t, p).version]
  <2>1. CASE \E p \in 0 .. n - 1 : At(m, p).entity = e
    <3>1. PICK p \in 0 .. n - 1 : At(m, p).entity = e
      BY <2>1
    <3>2. At(t, p).entity = e
      BY <3>1, <1>14, <1>18
    <3>3. t.sparse[e] = [entity |-> p, version |-> At(t, p).version]
      BY <3>2, <1>16, <1>18
    <3> QED BY <3>2, <3>3
  <2>2. CASE \A p \in 0 .. n - 1 : At(m, p).entity # e
    <3>1. t.sparse[e] = s.sparse[e]
      BY <2>2, <1>12
    <3>2. ASSUME NEW pos \in 0 .. N - 1, At(s, pos).entity = e PROVE At(t, pos) = At(s, pos)
      <4>1. PICK q \in 0 .. N - 1 : f[q] = pos
        BY <1>10
      <4>2. At(m, q).entity = e
        BY <3>2, <4>1, <1>10
      <4>3. ~ (q < n)
        <5>1. q < n => q \in 0 .. n - 1
          BY <1>3, <1>5
        <5> QED BY <5>1, <4>2, <2>2
      <4>4. q = pos
        BY <4>1, <4>3, <1>10
      <4> QED BY <4>1, <4>4, <1>10, <1>14
    <3> QED BY <3>1, <3>2
  <2> QED BY <2>1, <2>2
<1>21. SparseLinked(t)
  <2> SUFFICES ASSUME NEW e \in D, t.sparse[e].entity # EntityMask
               PROVE  /\ t.sparse[e].entity \in 0 .. N - 1
                      /\ At(t, t.sparse[e].entity) = [entity |-> e, version |-> t.sparse[e].version]
                      /\ t.sparse[e].version # VersionMask
    BY <1>13, <1>14 DEF SparseLinked
  <2>1. CASE \E p \in 0 .. n - 1 :
               At(t, p).entity = e /\ t.sparse[e] = [entity |-> p, version |-> At(t, p).version]
    <3>1. PICK p \in 0 .. n - 1 :
            At(t, p).entity = e /\ t.sparse[e] = [entity |-> p, version |-> At(t, p).version]
      BY <2>1
    <3>2. PICK id : id = At(t, p)
      OBVIOUS
    <3>3. p \in 0 .. N - 1 /\ id \in Identifiers /\ id.version # VersionMask
      BY <3>2, <1>15, <1>18 DEF IsTombstone
    <3>4. id = [entity |-> e, version |-> id.version]
      BY <3>1, <3>2, <3>3 DEF Identifiers
    <3> QED BY <3>1, <3>2, <3>3, <3>4
  <2>2. CASE /\ t.sparse[e] = s.sparse[e]
             /\ s.sparse[e].entity \in 0 .. N - 1 /\ At(s, s.sparse[e].entity).entity = e
                  => At(t, s.sparse[e].entity) = At(s, s.sparse[e].entity)
    <3>1. /\ s.sparse[e].entity \in 0 .. N - 1
          /\ At(s, s.sparse[e].entity) = [entity |-> e, version |-> s.sparse[e].version]
          /\ s.sparse[e].version # VersionMask
      BY <2>2, <1>1, <1>2, <1>3 DEF Sound, SparseLinked
    <3> QED BY <3>1, <2>2
  <2> QED BY <2>1, <2>2, <1>20
<1>22. NullWhole(t)
  <2> SUFFICES ASSUME NEW e \in D, t.sparse[e].entity = EntityMask PROVE t.sparse[e] = Null
    BY <1>13 DEF NullWhole
  <2>1. CASE \E p \in 0 .. n - 1 :
               At(t, p).entity = e /\ t.sparse[e] = [entity |-> p, version |-> At(t, p).version]
    <3>1. PICK p \in 0 .. n - 1 : t.sparse[e] = [entity |-> p, version |-> At(t, p).version]
      BY <2>1
    <3>2. p < EntityMask
      BY <1>3, <1>18, EntityMaskAssumption
    <3> QED BY <3>1, <3>2
  <2>2. CASE t.sparse[e] = s.sparse[e]
    BY <2>2, <1>1, <1>2 DEF Sound, NullWhole
  <2> QED BY <2>1, <2>2, <1>20
<1>23. \A p : ~ Hole(t, p) /\ ~ Hole(s, p)
  BY <1>3, <1>4, <1>14, <1>15 DEF Hole
<1>24. Threaded(t)
  BY <1>1, <1>3, <1>12, <1>14, <1>23, SameThread
<1>25. ListSound(t)
  <2>1. t.mode = "in_place" => t.head = EntityMask
    BY <1>12 DEF Contiguous
  <2> QED BY <2>1, <1>23 DEF ListSound
<1>26. HeadSound(t)
  <2>1. /\ s.mode = "swap_only" => s.head <= N
        /\ s.mode = "swap_and_pop" => s.head = EntityMask
    BY <1>1, <1>2 DEF Sound, HeadSound
  <2> QED BY <2>1, <1>12, <1>14, <1>15 DEF HeadSound
<1>27. Sound(t)
  BY <1>3, <1>12, <1>13, <1>14, <1>19, <1>21, <1>22, <1>25, <1>26 DEF Sound
<1>28. \A p \in 0 .. N - 1 : Used(t, p) <=> Used(s, f[p])
  <2> SUFFICES ASSUME NEW p \in 0 .. N - 1
               PROVE  (t.mode = "swap_only" => p < t.head) <=> (s.mode = "swap_only" => f[p] < s.head)
    BY <1>3, <1>4, <1>10, <1>14, <1>15 DEF Used
  <2>1. s.mode = "swap_only" => n <= s.head
    BY <1>5 DEF SortLength
  <2>2. s.mode = "swap_only" => (p < s.head <=> f[p] < s.head)
    <3>1. f[p] \in 0 .. N - 1 /\ IF p < n THEN f[p] < n ELSE f[p] = p
      BY <1>10
    <3>2. PICK y, h : y = f[p] /\ h = s.head
      OBVIOUS
    <3>3. n <= h => (p < h <=> y < h)
      BY <3>1, <3>2, <1>3
    <3> QED BY <2>1, <3>2, <3>3
  <2> QED BY <2>2, <1>12
<1>29. ASSUME NEW id PROVE id \in InUse(t) <=> id \in InUse(s)
  <2>1. ASSUME NEW p \in 0 .. N - 1, Used(t, p), At(t, p) = id
        PROVE  f[p] \in 0 .. N - 1 /\ Used(s, f[p]) /\ At(s, f[p]) = id
    BY <2>1, <1>10, <1>14, <1>28
  <2>2. ASSUME NEW q \in 0 .. N - 1, Used(s, q), At(s, q) = id
        PROVE  \E p \in 0 .. N - 1 : Used(t, p) /\ At(t, p) = id
    <3>1. PICK p \in 0 .. N - 1 : f[p] = q
      BY <1>10
    <3> QED BY <3>1, <2>2, <1>10, <1>14, <1>28
  <2>3. id \in InUse(t) <=> \E p \in 0 .. N - 1 : Used(t, p) /\ At(t, p) = id
    <3>1. id \in InUse(t) <=> \E p \in Positions(t) : Used(t, p) /\ At(t, p) = id
      BY <1>27, UseIs
    <3> QED BY ONLY <3>1, <1>14
  <2>4. id \in InUse(s) <=> \E p \in 0 .. N - 1 : Used(s, p) /\ At(s, p) = id
    BY <1>1, <1>3, UseIs
  <2> QED BY <2>1, <2>2, <2>3, <2>4
<1>30. Paged(Allocated(t), t.extent)
  BY <1>1, <1>2, <1>12 DEF PagesAre
<1> QED BY <1>12, <1>24, <1>27, <1>29, <1>30 DEF Whole

-------------------------------------------------------------------------------
(* Compaction.                                                             *)

(* Where the loop of compact starts.                                       *)
CompactFrom(s) ==
  [set |-> [s EXCEPT !.head = EntityMask], pos |-> s.head,
   from |-> LastInUse(s, Size(s)), moves |-> << >>]

(* It takes one turn per position.                                         *)
LEMMA CompactRuns ==
  ASSUME NEW s, NEW S, NEW q \in Seq(S), q = s.packed, NEW n, n = Len(q),
         NEW what, what = [step |-> "compact"],
         NEW b, b = CompactFrom(s)
  PROVE  \E c : IsRun(c, what, n, b) /\ CompactRun(s) = c[n]
<1>2. DOMAIN q = 1 .. n /\ n \in Nat
  OBVIOUS
<1>3. \A x, k : SetStep(what, x, k) = CompactStep(x)
  BY DEF SetStep
<1>4. PICK f : IsLoop(f, what, n, b)
  BY <1>2, LoopExists
<1>5. f = [u \in SUBSET (1 .. n) |->
             IF u = {} THEN b ELSE CompactStep(f[u \ {Max(u)}])]
  BY ZenonT(60), <1>3, <1>4 DEF IsLoop
<1>6. PICK h :
        /\ h = [u \in SUBSET (1 .. n) |->
             IF u = {} THEN b ELSE CompactStep(h[u \ {Max(u)}])]
        /\ CompactRun(s) = h[1 .. n]
  <2>1. CompactRun(s) = FoldLeft(LAMBDA d, k : CompactStep(d), b, q)
    BY DEF CompactRun, CompactFrom
  <2> QED BY ZenonT(60), <1>2, <1>5, <2>1 DEF FoldLeft, MapThenFoldSet
<1>7. IsLoop(h, what, n, b)
  <2>1. ASSUME NEW u \in SUBSET (1 .. n)
        PROVE  (IF u = {} THEN b ELSE CompactStep(h[u \ {Max(u)}]))
                 = IF u = {} THEN b ELSE SetStep(what, h[u \ {Max(u)}], Max(u))
    BY <1>3
  <2> QED BY <2>1, <1>6 DEF IsLoop
<1>8. PICK c : IsRun(c, what, n, b) /\ c[n] = h[1 .. n]
  BY ONLY <1>2, <1>7, LoopRuns
<1> QED BY <1>6, <1>8

(* What lies between the last element in use and n is a hole.              *)
LEMMA LastInUseFacts ==
  ASSUME NEW x, NEW n \in Nat, NEW l, l = LastInUse(x, n)
  PROVE  /\ l \in 0 .. n /\ (l > 0 => ~ IsTombstone(At(x, l - 1)))
         /\ \A p \in 0 .. n - 1 : ~ IsTombstone(At(x, p)) => p < l
<1>1. PICK V : V = {k \in 1 .. n : ~ IsTombstone(At(x, k - 1))}
  OBVIOUS
<1>2. \E m \in {0} \cup V : \A y \in {0} \cup V : m >= y
  <2>1. CASE V = {}
    BY <2>1
  <2>2. CASE V # {}
    <3>1. V \subseteq 1 .. n
      BY <1>1
    <3>2. Max(V) \in V /\ \A y \in V : y <= Max(V)
      BY <2>2, <3>1, LastExists
    <3>3. PICK m : m = Max(V)
      OBVIOUS
    <3>4. m \in V /\ m \in 1 .. n /\ \A y \in V : y \in 1 .. n /\ y <= m
      BY <3>1, <3>2, <3>3
    <3>5. \A y \in {0} \cup V : m >= y
      BY <3>4
    <3> QED BY <3>4, <3>5
  <2> QED BY <2>1, <2>2
<1>3. l \in {0} \cup V /\ \A y \in {0} \cup V : l >= y
  BY <1>1, <1>2 DEF LastInUse, Max
<1>4. ASSUME NEW p \in 0 .. n - 1, ~ IsTombstone(At(x, p)) PROVE p < l
  <2>1. p + 1 \in 1 .. n /\ (p + 1) - 1 = p
    OBVIOUS
  <2>2. p + 1 \in V
    BY <2>1, <1>1, <1>4
  <2>3. l >= p + 1 /\ l \in 0 .. n
    BY <2>2, <1>1, <1>3
  <2> QED BY <2>3
<1> QED BY <1>1, <1>3, <1>4

(* x has the elements of s before position from, and the only holes there  *)
(* are those of the free list path that come after the first j.            *)
Compacting(s, path, j, x, from) ==
  /\ x \in SetsOver(Allocated(s)) /\ PagesAre(x, Allocated(s), s.extent)
  /\ x.mode = "in_place" /\ x.head = EntityMask /\ Size(x) = Size(s)
  /\ from \in 0 .. Size(s) /\ (from > 0 => ~ IsTombstone(At(x, from - 1)))
  /\ \A p \in 0 .. from - 1 :
       IF IsTombstone(At(x, p))
         THEN \E i \in j + 1 .. Len(path) : path[i] = p
         ELSE /\ At(x, p).entity \in Allocated(s)
              /\ x.sparse[At(x, p).entity] = [entity |-> p, version |-> At(x, p).version]
  /\ \A e \in Allocated(s) :
       IF x.sparse[e].entity = EntityMask THEN x.sparse[e] = Null
       ELSE /\ x.sparse[e].entity \in 0 .. from - 1
            /\ At(x, x.sparse[e].entity) = [entity |-> e, version |-> x.sparse[e].version]
            /\ x.sparse[e].version # VersionMask
  /\ \A i \in j + 1 .. Len(path) : At(x, path[i]) = At(s, path[i])
  /\ \A id : id \in InUse(s)
       <=> \E p \in 0 .. from - 1 : ~ IsTombstone(At(x, p)) /\ At(x, p) = id

(* A hole behind the elements is left alone.                               *)
LEMMA SkipHole ==
  ASSUME NEW s, NEW path, NEW j \in Nat, j < Len(path), Len(path) \in Nat,
         NEW x, NEW from, Compacting(s, path, j, x, from), Size(s) \in Nat,
         path[j + 1] \in Nat, path[j + 1] >= from
  PROVE  Compacting(s, path, j + 1, x, from)
<1>1. PICK l : l = Len(path)
  OBVIOUS
<1>2. from \in Nat /\ l \in Nat
  BY <1>1 DEF Compacting
<1>3. \A i \in j + 2 .. l : i \in j + 1 .. l
  BY <1>2
<1>4. ASSUME NEW p \in 0 .. from - 1, NEW i \in j + 1 .. l, path[i] = p
      PROVE  \E k \in (j + 1) + 1 .. l : path[k] = p
  <2>1. i # j + 1
    BY <1>2, <1>4
  <2> QED BY <2>1, <1>2, <1>4
<1>5. \A p \in 0 .. from - 1 :
        IF IsTombstone(At(x, p))
          THEN \E i \in (j + 1) + 1 .. l : path[i] = p
          ELSE /\ At(x, p).entity \in Allocated(s)
               /\ x.sparse[At(x, p).entity] = [entity |-> p, version |-> At(x, p).version]
  BY <1>1, <1>4 DEF Compacting
<1>6. \A i \in (j + 1) + 1 .. l : At(x, path[i]) = At(s, path[i])
  BY <1>1, <1>2 DEF Compacting
<1> QED BY <1>1, <1>5, <1>6 DEF Compacting

(* The last element goes to a hole that is before it.                      *)
LEMMA FillHole ==
  ASSUME NEW s, Size(s) \in 0 .. EntityMask, NEW path, Len(path) \in Nat, NEW j \in Nat, j < Len(path),
         \A i, k \in 1 .. Len(path) : path[i] = path[k] => i = k,
         \A i \in 1 .. Len(path) : path[i] \in 0 .. Size(s) - 1,
         NEW to, to = path[j + 1], IsTombstone(At(s, to)),
         NEW x, NEW from, Compacting(s, path, j, x, from), to < from,
         NEW id, id = At(x, from - 1),
         NEW y, y = SetSparse(SetPacked(x, to, id), id, Combine(to, id)),
         NEW new, new = LastInUse(y, from - 1)
  PROVE  Compacting(s, path, j + 1, y, new)
<1>1. PICK l, N, D : l = Len(path) /\ N = Size(s) /\ D = Allocated(s)
  OBVIOUS
<1>2. /\ x \in SetsOver(D) /\ PagesAre(x, D, s.extent)
      /\ x.mode = "in_place" /\ x.head = EntityMask /\ Size(x) = N
      /\ from \in 0 .. N /\ (from > 0 => ~ IsTombstone(At(x, from - 1)))
  BY <1>1 DEF Compacting
<1>3. \A p \in 0 .. from - 1 :
        IF IsTombstone(At(x, p))
          THEN \E i \in j + 1 .. l : path[i] = p
          ELSE /\ At(x, p).entity \in D
               /\ x.sparse[At(x, p).entity] = [entity |-> p, version |-> At(x, p).version]
  BY <1>1 DEF Compacting
<1>4. \A e \in D :
        IF x.sparse[e].entity = EntityMask THEN x.sparse[e] = Null
        ELSE /\ x.sparse[e].entity \in 0 .. from - 1
             /\ At(x, x.sparse[e].entity) = [entity |-> e, version |-> x.sparse[e].version]
             /\ x.sparse[e].version # VersionMask
  BY <1>1 DEF Compacting
<1>5. \A i \in j + 1 .. l : At(x, path[i]) = At(s, path[i])
  BY <1>1 DEF Compacting
<1>6. \A d : d \in InUse(s) <=> \E p \in 0 .. from - 1 : ~ IsTombstone(At(x, p)) /\ At(x, p) = d
  BY DEF Compacting
<1>7. /\ N \in 0 .. EntityMask /\ l \in Nat /\ from \in Nat /\ from > 0 /\ j + 1 \in 1 .. l /\ EntityMask \in Nat
      /\ Positions(x) = 0 .. N - 1
  BY <1>1, <1>2, EntityMaskAssumption DEF Positions
<1>8. IsTombstone(At(x, to)) /\ ~ IsTombstone(id)
  BY <1>1, <1>2, <1>5, <1>7
<1>9. to \in 0 .. N - 1
  BY <1>1, <1>7
<1>10. to # from - 1 /\ to \in 0 .. from - 2 /\ to \in 0 .. N - 1 /\ from - 1 \in 0 .. N - 1 /\ from - 1 \in Nat
      /\ from - 1 \in 0 .. from - 1
  BY <1>2, <1>7, <1>8, <1>9
<1>11. /\ id.entity \in D
       /\ x.sparse[id.entity] = [entity |-> from - 1, version |-> id.version]
  BY <1>3, <1>8, <1>10
<1>12. id \in Identifiers
  BY <1>2, <1>7, <1>10, AtType
<1>13. to \in 0 .. EntityMask /\ to # EntityMask
  BY <1>7, <1>10
<1>14. PICK z, elem : z = SetPacked(x, to, id) /\ elem = Combine(to, id)
  OBVIOUS
<1>15. elem = [entity |-> to, version |-> id.version] /\ elem \in Identifiers
  BY <1>12, <1>13, <1>14, CombineFits
<1>16. PackedWritten(D, x, to, id, z)
  BY <1>2, <1>7, <1>10, <1>12, <1>14, SetPackedFacts
<1>17. SparseWritten(D, z, id.entity, elem, y)
  <2>1. z \in SetsOver(D)
    BY <1>16 DEF PackedWritten
  <2> QED BY <2>1, <1>11, <1>14, <1>15, SetSparseFacts
<1>18. /\ y \in SetsOver(D) /\ y.mode = "in_place" /\ y.head = EntityMask /\ Size(y) = N
       /\ \A p \in 0 .. N - 1 : At(y, p) = IF p = to THEN id ELSE At(x, p)
       /\ \A d \in D : y.sparse[d] = IF d = id.entity THEN elem ELSE x.sparse[d]
  BY <1>2, <1>7, <1>16, <1>17 DEF PackedWritten, SparseWritten
<1>19. PagesAre(y, D, s.extent)
  BY <1>2, <1>14, WritePages
<1>20. /\ new \in 0 .. from - 1 /\ (new > 0 => ~ IsTombstone(At(y, new - 1)))
       /\ \A p \in 0 .. (from - 1) - 1 : ~ IsTombstone(At(y, p)) => p < new
  BY <1>10, LastInUseFacts
<1>21. new \in 0 .. N
  BY <1>2, <1>7, <1>20
<1>22. /\ \A p \in 0 .. new - 1 : p \in 0 .. from - 1 /\ p \in 0 .. N - 1 /\ p # from - 1
       /\ \A p \in 0 .. from - 1 : p = from - 1 \/ p \in 0 .. (from - 1) - 1
       /\ \A p \in 0 .. from - 1 : p \in 0 .. N - 1
       /\ to \in 0 .. (from - 1) - 1
  BY <1>2, <1>7, <1>10, <1>20
<1>23. \A p \in 0 .. from - 1 : p # from - 1 /\ ~ IsTombstone(At(y, p)) => p \in 0 .. new - 1
  BY <1>20, <1>22
<1>24. to \in 0 .. new - 1
  BY <1>8, <1>10, <1>18, <1>22, <1>23
<1>25. ASSUME NEW p \in 0 .. new - 1, IsTombstone(At(y, p))
       PROVE  \E i \in (j + 1) + 1 .. l : path[i] = p
  <2>1. p # to /\ IsTombstone(At(x, p))
    BY <1>8, <1>18, <1>22, <1>25
  <2>2. PICK i \in j + 1 .. l : path[i] = p
    BY <2>1, <1>3, <1>22
  <2>3. i # j + 1
    BY <2>1, <2>2
  <2> QED BY <2>2, <2>3, <1>7
<1>26. ASSUME NEW p \in 0 .. new - 1, ~ IsTombstone(At(y, p))
       PROVE  /\ At(y, p).entity \in D
              /\ y.sparse[At(y, p).entity] = [entity |-> p, version |-> At(y, p).version]
  <2>1. CASE p = to
    BY <2>1, <1>11, <1>15, <1>18, <1>22
  <2>2. CASE p # to
    <3>1. PICK d : d = At(x, p)
      OBVIOUS
    <3>2. At(y, p) = d /\ ~ IsTombstone(d)
      BY <2>2, <3>1, <1>18, <1>22, <1>26
    <3>3. d.entity \in D /\ x.sparse[d.entity] = [entity |-> p, version |-> d.version]
      BY <3>1, <3>2, <1>3, <1>22
    <3>4. d.entity # id.entity
      <4>1. x.sparse[d.entity].entity = p /\ x.sparse[id.entity].entity = from - 1
        BY <3>3, <1>11
      <4> QED BY <4>1, <1>22
    <3> QED BY <3>2, <3>3, <3>4, <1>18
  <2> QED BY <2>1, <2>2
<1>27. ASSUME NEW e \in D, y.sparse[e].entity = EntityMask
       PROVE  y.sparse[e] = Null
  <2>1. e # id.entity
    BY <1>13, <1>15, <1>18, <1>27
  <2> QED BY <2>1, <1>4, <1>18, <1>27
<1>28. ASSUME NEW e \in D, y.sparse[e].entity # EntityMask
       PROVE  /\ y.sparse[e].entity \in 0 .. new - 1
              /\ At(y, y.sparse[e].entity) = [entity |-> e, version |-> y.sparse[e].version]
              /\ y.sparse[e].version # VersionMask
  <2>1. CASE e = id.entity
    <3>1. y.sparse[e] = [entity |-> to, version |-> id.version]
      BY <2>1, <1>15, <1>18
    <3>2. At(y, to) = id /\ id = [entity |-> e, version |-> id.version]
      BY <2>1, <1>10, <1>12, <1>18 DEF Identifiers
    <3> QED BY <3>1, <3>2, <1>8, <1>24 DEF IsTombstone
  <2>2. CASE e # id.entity
    <3>1. PICK v, p : v = x.sparse[e] /\ p = x.sparse[e].entity
      OBVIOUS
    <3>2. y.sparse[e] = v /\ p = v.entity
      BY <2>2, <3>1, <1>18
    <3>3. p \in 0 .. from - 1 /\ At(x, p) = [entity |-> e, version |-> v.version] /\ v.version # VersionMask
      BY <3>1, <3>2, <1>4, <1>28
    <3>4. ~ IsTombstone(At(x, p)) /\ At(x, p).entity = e
      BY <3>3 DEF IsTombstone
    <3>5. p # from - 1 /\ p # to
      BY <3>4, <2>2, <1>8
    <3>6. At(y, p) = At(x, p)
      BY <3>3, <3>5, <1>18, <1>22
    <3>7. p \in 0 .. new - 1
      BY <3>3, <3>4, <3>5, <3>6, <1>23
    <3> QED BY <3>2, <3>3, <3>6, <3>7
  <2> QED BY <2>1, <2>2
<1>29. ASSUME NEW i \in (j + 1) + 1 .. l PROVE At(y, path[i]) = At(s, path[i])
  <2>1. i \in j + 1 .. l /\ i \in 1 .. l /\ i # j + 1
    BY <1>7
  <2>2. path[i] # to
    BY <2>1, <1>1, <1>7
  <2>3. path[i] \in 0 .. N - 1
    BY <2>1, <1>1
  <2> QED BY <2>1, <2>2, <2>3, <1>5, <1>18
<1>30. ASSUME NEW d
       PROVE  d \in InUse(s) <=> \E p \in 0 .. new - 1 : ~ IsTombstone(At(y, p)) /\ At(y, p) = d
  <2>1. ASSUME NEW p \in 0 .. from - 1, ~ IsTombstone(At(x, p)), At(x, p) = d
        PROVE  \E q \in 0 .. new - 1 : ~ IsTombstone(At(y, q)) /\ At(y, q) = d
    <3>1. CASE p = from - 1
      <4>1. At(y, to) = d /\ ~ IsTombstone(d)
        BY <2>1, <3>1, <1>10, <1>18
      <4> QED BY <4>1, <1>24
    <3>2. CASE p # from - 1
      <4>1. p # to
        BY <2>1, <1>8
      <4>2. At(y, p) = At(x, p)
        BY <4>1, <1>18, <1>22
      <4>3. p \in 0 .. new - 1
        BY <4>2, <3>2, <2>1, <1>23
      <4> QED BY <4>2, <4>3, <2>1
    <3> QED BY <3>1, <3>2
  <2>2. ASSUME NEW q \in 0 .. new - 1, ~ IsTombstone(At(y, q)), At(y, q) = d
        PROVE  \E p \in 0 .. from - 1 : ~ IsTombstone(At(x, p)) /\ At(x, p) = d
    <3>1. CASE q = to
      <4>1. id = d
        BY <3>1, <2>2, <1>10, <1>18
      <4> QED BY <4>1, <1>8, <1>10
    <3>2. CASE q # to
      <4>1. At(y, q) = At(x, q)
        BY <3>2, <1>18, <1>22
      <4> QED BY <4>1, <2>2, <1>22
    <3> QED BY <3>1, <3>2
  <2> QED BY <2>1, <2>2, <1>6
<1>31. \A p \in 0 .. new - 1 :
         IF IsTombstone(At(y, p))
           THEN \E i \in (j + 1) + 1 .. l : path[i] = p
           ELSE /\ At(y, p).entity \in D
                /\ y.sparse[At(y, p).entity] = [entity |-> p, version |-> At(y, p).version]
  BY <1>25, <1>26
<1>32. \A e \in D :
         IF y.sparse[e].entity = EntityMask THEN y.sparse[e] = Null
         ELSE /\ y.sparse[e].entity \in 0 .. new - 1
              /\ At(y, y.sparse[e].entity) = [entity |-> e, version |-> y.sparse[e].version]
              /\ y.sparse[e].version # VersionMask
  BY <1>27, <1>28
<1> QED BY ONLY <1>1, <1>18, <1>19, <1>20, <1>21, <1>29, <1>30, <1>31, <1>32 DEF Compacting

(* Where the loop starts.                                                  *)
LEMMA CompactStarts ==
  ASSUME NEW s, Whole(s), s.mode = "in_place", NEW path, Threads(s, path),
         NEW x, x = [s EXCEPT !.head = EntityMask], NEW from, from = LastInUse(s, Size(s))
  PROVE  Compacting(s, path, 0, x, from)
<1>1. PICK D, N, l : D = Allocated(s) /\ N = Size(s) /\ l = Len(path)
  OBVIOUS
<1>2. Sound(s) /\ s \in SetsOver(D) /\ N \in Nat /\ Positions(s) = 0 .. N - 1 /\ EntityMask \in Nat
  BY <1>1, PositionsFit, EntityMaskAssumption DEF Whole
<1>3. /\ x \in SetsOver(D) /\ x.mode = s.mode /\ x.head = EntityMask
      /\ x.packed = s.packed /\ x.sparse = s.sparse
      /\ Size(x) = Size(s) /\ \A p : At(x, p) = At(s, p)
  BY <1>2, HeadFacts
<1>4. PagesAre(x, D, s.extent)
  BY <1>1, <1>2 DEF PagesAre, SetsOver, Allocated
<1>5. /\ from \in 0 .. N /\ (from > 0 => ~ IsTombstone(At(s, from - 1)))
      /\ \A p \in 0 .. N - 1 : ~ IsTombstone(At(s, p)) => p < from
  BY <1>1, <1>2, LastInUseFacts
<1>6. /\ \A p \in 0 .. from - 1 : p \in 0 .. N - 1
      /\ \A p \in 0 .. N - 1 : ~ IsTombstone(At(s, p)) => p \in 0 .. from - 1
  BY <1>2, <1>5
<1>7. \A p \in 0 .. from - 1 :
        IF IsTombstone(At(s, p))
          THEN \E i \in 1 .. l : path[i] = p
          ELSE /\ At(s, p).entity \in D
               /\ s.sparse[At(s, p).entity] = [entity |-> p, version |-> At(s, p).version]
  <2> SUFFICES ASSUME NEW p \in 0 .. from - 1
               PROVE  IF IsTombstone(At(s, p))
                        THEN \E i \in 1 .. l : path[i] = p
                        ELSE /\ At(s, p).entity \in D
                             /\ s.sparse[At(s, p).entity] = [entity |-> p, version |-> At(s, p).version]
    OBVIOUS
  <2>1. p \in Positions(s)
    BY <1>2, <1>6
  <2>2. IsTombstone(At(s, p)) => \E i \in 1 .. l : path[i] = p
    BY <2>1, <1>1 DEF Threads, Hole
  <2> QED BY <2>1, <2>2, <1>1, <1>2 DEF Sound, PackedLinked
<1>8. \A e \in D :
        IF s.sparse[e].entity = EntityMask THEN s.sparse[e] = Null
        ELSE /\ s.sparse[e].entity \in 0 .. from - 1
             /\ At(s, s.sparse[e].entity) = [entity |-> e, version |-> s.sparse[e].version]
             /\ s.sparse[e].version # VersionMask
  <2> SUFFICES ASSUME NEW e \in D
               PROVE  IF s.sparse[e].entity = EntityMask THEN s.sparse[e] = Null
                      ELSE /\ s.sparse[e].entity \in 0 .. from - 1
                           /\ At(s, s.sparse[e].entity) = [entity |-> e, version |-> s.sparse[e].version]
                           /\ s.sparse[e].version # VersionMask
    OBVIOUS
  <2>1. PICK v : v = s.sparse[e]
    OBVIOUS
  <2>2. v.entity = EntityMask => v = Null
    BY <2>1, <1>1, <1>2 DEF Sound, NullWhole
  <2>3. v.entity # EntityMask =>
          /\ v.entity \in 0 .. N - 1
          /\ At(s, v.entity) = [entity |-> e, version |-> v.version]
          /\ v.version # VersionMask
    BY <2>1, <1>1, <1>2 DEF Sound, SparseLinked
  <2>4. v.entity # EntityMask => ~ IsTombstone(At(s, v.entity))
    BY <2>3 DEF IsTombstone
  <2> QED BY <2>1, <2>2, <2>3, <2>4, <1>6
<1>9. ASSUME NEW d
      PROVE  d \in InUse(s) <=> \E p \in 0 .. from - 1 : ~ IsTombstone(At(s, p)) /\ At(s, p) = d
  <2>1. d \in InUse(s) <=> \E p \in Positions(s) : Used(s, p) /\ At(s, p) = d
    BY <1>2, UseIs
  <2>2. \A p : Used(s, p) <=> p \in 0 .. N - 1 /\ ~ IsTombstone(At(s, p))
    BY <1>2 DEF Used
  <2> QED BY <2>1, <2>2, <1>2, <1>6
<1>10. \A p \in 0 .. from - 1 :
         IF IsTombstone(At(x, p))
           THEN \E i \in 0 + 1 .. l : path[i] = p
           ELSE /\ At(x, p).entity \in D
                /\ x.sparse[At(x, p).entity] = [entity |-> p, version |-> At(x, p).version]
  BY <1>3, <1>7
<1>11. \A e \in D :
         IF x.sparse[e].entity = EntityMask THEN x.sparse[e] = Null
         ELSE /\ x.sparse[e].entity \in 0 .. from - 1
              /\ At(x, x.sparse[e].entity) = [entity |-> e, version |-> x.sparse[e].version]
              /\ x.sparse[e].version # VersionMask
  BY <1>3, <1>8
<1>12. /\ x.mode = "in_place" /\ Size(x) = N
       /\ from > 0 => ~ IsTombstone(At(x, from - 1))
       /\ \A i \in 0 + 1 .. l : At(x, path[i]) = At(s, path[i])
       /\ \A d : d \in InUse(s) <=> \E p \in 0 .. from - 1 : ~ IsTombstone(At(x, p)) /\ At(x, p) = d
  BY <1>1, <1>3, <1>5, <1>9
<1> QED BY ONLY <1>1, <1>3, <1>4, <1>5, <1>10, <1>11, <1>12 DEF Compacting

(* What c is after j holes.                                                *)
Turned(s, path, j, c) ==
  /\ {"set", "pos", "from", "moves"} \subseteq DOMAIN c
  /\ Compacting(s, path, j, c.set, c.from)
  /\ c.pos = IF j < Len(path) THEN path[j + 1] ELSE EntityMask

(* One turn of the loop does with one more.                                *)
LEMMA CompactTurn ==
  ASSUME NEW s, Sound(s), NEW path, Threads(s, path), NEW j \in 0 .. Len(path),
         NEW c, Turned(s, path, j, c), NEW d, d = CompactStep(c)
  PROVE  Turned(s, path, IF j < Len(path) THEN j + 1 ELSE j, d)
<1>1. PICK l, N : l = Len(path) /\ N = Size(s)
  OBVIOUS
<1>2. PICK x, to, from : x = c.set /\ to = c.pos /\ from = c.from
  OBVIOUS
<1>3. /\ l \in Nat /\ N \in Nat /\ Positions(s) = 0 .. N - 1 /\ N \in 0 .. EntityMask /\ EntityMask \in Nat
      /\ \A i, k \in 1 .. l : path[i] = path[k] => i = k
      /\ \A i \in 1 .. l : /\ path[i] \in 0 .. N - 1 /\ IsTombstone(At(s, path[i])) /\ path[i] < EntityMask
                           /\ At(s, path[i]).entity = IF i < l THEN path[i + 1] ELSE EntityMask
  <2>1. path \in Seq(Positions(s)) /\ l \in Nat
    BY <1>1 DEF Threads
  <2>2. N \in Nat /\ Positions(s) = 0 .. N - 1 /\ N <= EntityMask
    BY <1>1, PositionsFit DEF Sound
  <2>3. \A i \in 1 .. l : path[i] \in Positions(s) /\ IsTombstone(At(s, path[i]))
    BY <2>1, <1>1 DEF Threads, Hole
  <2> QED BY <2>1, <2>2, <2>3, <1>1, EntityMaskAssumption DEF Threads
<1>4. Compacting(s, path, j, x, from) /\ to = IF j < l THEN path[j + 1] ELSE EntityMask
  BY <1>1, <1>2 DEF Turned
<1>5. CASE ~ (j < l)
  <2>1. d = c
    BY <1>2, <1>4, <1>5 DEF CompactStep
  <2> QED BY <2>1, <1>1, <1>5
<1>6. CASE j < l
  <2>1. j + 1 \in 1 .. l /\ j \in Nat
    BY <1>1, <1>3, <1>6
  <2>2. to = path[j + 1] /\ to # EntityMask /\ to \in 0 .. N - 1
    BY <2>1, <1>3, <1>4, <1>6
  <2>3. At(x, to) = At(s, to)
    BY <2>1, <2>2, <1>1, <1>4 DEF Compacting
  <2>4. PICK next : next = At(x, to).entity
    OBVIOUS
  <2>5. next = IF j + 1 < l THEN path[(j + 1) + 1] ELSE EntityMask
    BY <2>1, <2>2, <2>3, <2>4, <1>3
  <2>6. from \in 0 .. N
    BY <1>1, <1>4 DEF Compacting
  <2>7. CASE to >= from
    <3>1. d = [c EXCEPT !.pos = next]
      BY <2>2, <2>4, <2>7, <1>2 DEF CompactStep
    <3>2. {"set", "pos", "from", "moves"} \subseteq DOMAIN d /\ d.pos = next /\ d.set = x /\ d.from = from
      BY <3>1, <1>2 DEF Turned
    <3>3. Compacting(s, path, j + 1, x, from)
      BY <2>1, <2>2, <2>7, <1>1, <1>3, <1>4, <1>6, SkipHole
    <3> QED BY <3>2, <3>3, <2>5, <1>1, <1>6 DEF Turned
  <2>8. CASE ~ (to >= from)
    <3>1. PICK id, y, new : /\ id = At(x, from - 1)
                            /\ y = SetSparse(SetPacked(x, to, id), id, Combine(to, id))
                            /\ new = LastInUse(y, from - 1)
      OBVIOUS
    <3>2. d = [set |-> y, pos |-> next, from |-> new, moves |-> Append(c.moves, <<from - 1, to>>)]
      BY <2>2, <2>4, <2>8, <3>1, <1>2 DEF CompactStep
    <3>3. to < from
      BY <2>2, <2>6, <2>8, <1>3
    <3>4. IsTombstone(At(s, to))
      BY <2>1, <2>2, <1>3
    <3>5. Compacting(s, path, j + 1, y, new)
      BY <2>1, <2>2, <3>1, <3>3, <3>4, <1>1, <1>3, <1>4, <1>6, FillHole
    <3> QED BY <3>2, <3>5, <2>5, <1>1, <1>6 DEF Turned
  <2> QED BY <2>7, <2>8
<1> QED BY <1>5, <1>6

(* x without the positions from from on.                                   *)
Shortened(x, from) == [x EXCEPT !.packed = SubSeq(x.packed, 1, from)]

(* What the loop leaves, without the moved elements' old places, is a set  *)
(* without holes.                                                          *)
LEMMA CompactEnds ==
  ASSUME NEW s, Whole(s), s.mode = "in_place", NEW path, Len(path) \in Nat,
         NEW x, NEW from, Compacting(s, path, Len(path), x, from),
         NEW t, t = Shortened(x, from)
  PROVE  Whole(t) /\ t.mode = s.mode /\ InUse(t) = InUse(s)
<1>1. PICK D, N, l : D = Allocated(s) /\ N = Size(s) /\ l = Len(path)
  OBVIOUS
<1>2. Sound(s) /\ Paged(D, s.extent) /\ N \in Nat /\ N <= EntityMask /\ l \in Nat
  BY <1>1, PositionsFit DEF Whole, Sound
<1>3. /\ x \in SetsOver(D) /\ PagesAre(x, D, s.extent)
      /\ x.mode = "in_place" /\ x.head = EntityMask /\ Size(x) = N /\ from \in 0 .. N
  BY <1>1 DEF Compacting
<1>4. \A p \in 0 .. from - 1 :
        /\ ~ IsTombstone(At(x, p)) /\ At(x, p).entity \in D
        /\ x.sparse[At(x, p).entity] = [entity |-> p, version |-> At(x, p).version]
  <2>1. l + 1 .. l = {}
    BY <1>2
  <2> QED BY <2>1, <1>1 DEF Compacting
<1>5. \A e \in D :
        IF x.sparse[e].entity = EntityMask THEN x.sparse[e] = Null
        ELSE /\ x.sparse[e].entity \in 0 .. from - 1
             /\ At(x, x.sparse[e].entity) = [entity |-> e, version |-> x.sparse[e].version]
             /\ x.sparse[e].version # VersionMask
  BY <1>1 DEF Compacting
<1>6. \A d : d \in InUse(s) <=> \E p \in 0 .. from - 1 : ~ IsTombstone(At(x, p)) /\ At(x, p) = d
  BY DEF Compacting
<1>7. PICK q : q = SubSeq(x.packed, 1, from)
  OBVIOUS
<1>8. x.packed \in Seq(Identifiers) /\ Len(x.packed) = N /\ from \in Nat /\ from <= N
  BY <1>2, <1>3 DEF SetsOver, Size
<1>9. q \in Seq(Identifiers) /\ Len(q) = from /\ \A k \in 1 .. from : q[k] = x.packed[k]
  BY <1>7, <1>8
<1>10. /\ t \in SetsOver(D) /\ t.sparse = x.sparse /\ t.extent = x.extent
       /\ t.mode = "in_place" /\ t.head = EntityMask /\ t.packed = q
  BY <1>3, <1>7, <1>9 DEF SetsOver, Shortened
<1>11. Allocated(t) = D /\ t.extent = s.extent
  BY <1>3, <1>10, AllocatedIs DEF PagesAre
<1>12. Size(t) = from /\ Positions(t) = 0 .. from - 1
  BY <1>9, <1>10 DEF Size, Positions
<1>13. \A p \in 0 .. from - 1 : At(t, p) = At(x, p)
  <2>1. \A p \in 0 .. from - 1 : p + 1 \in 1 .. from
    BY <1>8
  <2> QED BY <2>1, <1>9, <1>10 DEF At
<1>14. PackedLinked(t)
  BY <1>4, <1>10, <1>11, <1>12, <1>13 DEF PackedLinked
<1>15. SparseLinked(t)
  BY <1>5, <1>10, <1>11, <1>12, <1>13 DEF SparseLinked
<1>16. NullWhole(t)
  BY <1>5, <1>10, <1>11 DEF NullWhole
<1>17. \A p : ~ Hole(t, p)
  BY <1>4, <1>12, <1>13 DEF Hole
<1>18. ListSound(t) /\ HeadSound(t)
  BY <1>10, <1>17 DEF ListSound, HeadSound
<1>19. Size(t) <= EntityMask
  BY <1>2, <1>8, <1>12, EntityMaskAssumption
<1>20. Sound(t)
  BY <1>10, <1>11, <1>14, <1>15, <1>16, <1>18, <1>19 DEF Sound
<1>21. Threaded(t)
  <2>1. Len(<< >>) = 0 /\ << >> \in Seq(Positions(t)) /\ 1 .. 0 = {}
    OBVIOUS
  <2>2. t.head = EntityMask
    BY <1>10
  <2>3. Threads(t, << >>)
    BY ONLY <2>1, <2>2, <1>17 DEF Threads
  <2> QED BY <2>3 DEF Threaded
<1>22. ASSUME NEW d PROVE d \in InUse(t) <=> d \in InUse(s)
  <2>1. d \in InUse(t) <=> \E p \in Positions(t) : Used(t, p) /\ At(t, p) = d
    BY <1>20, UseIs
  <2>2. \A p : Used(t, p) <=> p \in 0 .. from - 1
    BY <1>4, <1>10, <1>12, <1>13 DEF Used
  <2> QED BY <2>1, <2>2, <1>4, <1>6, <1>12, <1>13
<1> QED BY <1>2, <1>10, <1>11, <1>20, <1>21, <1>22 DEF Whole

(* compact keeps the elements, and leaves no holes.                        *)
LEMMA CompactWhole ==
  ASSUME NEW s, Whole(s), NEW t, t = Compact(s)
  PROVE  Whole(t) /\ t.mode = s.mode /\ InUse(t) = InUse(s)
<1>1. CASE s.mode # "in_place"
  BY <1>1 DEF Compact
<1>2. CASE s.mode = "in_place"
  <2>1. Sound(s) /\ Threaded(s)
    BY DEF Whole
  <2>2. PICK path : Threads(s, path)
    BY <2>1, <1>2 DEF Threaded
  <2>3. PICK l, n : l = Len(path) /\ n = Size(s)
    OBVIOUS
  <2>4. l \in Nat /\ n \in Nat /\ l <= n
    BY <2>1, <2>2, <2>3, ThreadShort, PositionsFit
  <2>5. PICK what, b, q : what = [step |-> "compact"] /\ b = CompactFrom(s) /\ q = s.packed
    OBVIOUS
  <2>6. q \in Seq(Identifiers) /\ n = Len(q)
    BY <2>1, <2>3, <2>5 DEF Sound, SetsOver, Size
  <2>7. PICK c : IsRun(c, what, n, b) /\ CompactRun(s) = c[n]
    BY ONLY <2>5, <2>6, CompactRuns
  <2>8. c[0] = b /\ \A k \in 1 .. n : c[k] = CompactStep(c[k - 1])
    BY <2>5, <2>7 DEF IsRun, SetStep
  <2> DEFINE T == {k \in 0 .. n : Turned(s, path, IF k <= l THEN k ELSE l, c[k])}
  <2>9. 0 \in T
    <3>1. PICK x, from : x = [s EXCEPT !.head = EntityMask] /\ from = LastInUse(s, Size(s))
      OBVIOUS
    <3>2. b = [set |-> x, pos |-> s.head, from |-> from, moves |-> << >>]
      BY <3>1, <2>5 DEF CompactFrom
    <3>3. Compacting(s, path, 0, x, from)
      BY <3>1, <2>2, <1>2, CompactStarts
    <3>4. s.head = IF 0 < l THEN path[0 + 1] ELSE EntityMask
      BY <2>2, <2>3, <2>4 DEF Threads
    <3>5. Turned(s, path, 0, b)
      BY <3>2, <3>3, <3>4, <2>3 DEF Turned
    <3> QED BY <3>5, <2>4, <2>8
  <2>10. ASSUME NEW k \in 1 .. n, k - 1 \in T PROVE k \in T
    <3>1. PICK i, j : (i = IF k <= l THEN k ELSE l) /\ (j = IF k - 1 <= l THEN k - 1 ELSE l)
      OBVIOUS
    <3>2. j \in 0 .. l /\ (IF j < l THEN j + 1 ELSE j) = i
      BY <3>1, <2>4
    <3>3. Turned(s, path, j, c[k - 1]) /\ c[k] = CompactStep(c[k - 1])
      BY <3>1, <2>8, <2>10
    <3>4. Turned(s, path, IF j < l THEN j + 1 ELSE j, c[k])
      BY <3>2, <3>3, <2>1, <2>2, <2>3, CompactTurn
    <3>5. Turned(s, path, i, c[k])
      BY ONLY <3>2, <3>4
    <3> QED BY <3>1, <3>5
  <2>11. n \in T
    <3>1. \A k \in 0 .. n : k \in T
      <4> HIDE DEF T
      <4> QED BY <2>4, <2>9, <2>10, CountUp
    <3> HIDE DEF T
    <3> QED BY <2>4, <3>1
  <2>12. PICK done : done = CompactRun(s)
    OBVIOUS
  <2>13. Turned(s, path, l, done)
    <3>1. (IF n <= l THEN n ELSE l) = l
      BY <2>4
    <3> QED BY <3>1, <2>7, <2>11, <2>12
  <2>14. PICK x, from : x = done.set /\ from = done.from
    OBVIOUS
  <2>15. t = Shortened(x, from)
    BY <2>12, <2>14, <1>2 DEF Compact, Shortened
  <2>16. Compacting(s, path, Len(path), x, from)
    BY <2>3, <2>13, <2>14 DEF Turned
  <2>17. Len(path) \in Nat
    BY <2>3, <2>4
  <2> QED BY ONLY <2>15, <2>16, <2>17, <1>2, Whole(s), CompactEnds
<1> QED BY <1>1, <1>2

-------------------------------------------------------------------------------
(* The specification.                                                      *)

(* The invariant is that of a whole set.                                   *)
LEMMA StructuredIs == Structured <=> Whole(set) /\ set.mode \in Policies /\ InUse(set) = content
BY DEF Structured, Inv, Whole

(* A range of the model is a function to valid identifiers of different    *)
(* entities.                                                               *)
LEMMA RangeIs ==
  ASSUME NEW ids \in Ranges
  PROVE  \E n \in Nat :
           /\ ids \in [1 .. n -> ValidIdentifiers] /\ Len(ids) = n
           /\ DOMAIN ids = 1 .. n /\ ToSet(ids) = {ids[i] : i \in 1 .. n}
           /\ \A i, j \in 1 .. n : i # j => ids[i].entity # ids[j].entity
<1>1. PICK n \in 0 .. MaxRange : ids \in [1 .. n -> Ids]
  BY DEF Ranges, SeqOf
<1>2. n \in Nat
  BY MaxSizeAssumption
<1>3. ids \in [1 .. n -> ValidIdentifiers] /\ DOMAIN ids = 1 .. n
  BY <1>1 DEF Ids
<1>4. Len(ids) = n
  BY <1>2, <1>3
<1>5. ToSet(ids) = {ids[i] : i \in 1 .. n}
  BY <1>3 DEF ToSet
<1>6. \A i, j \in 1 .. n : i # j => ids[i].entity # ids[j].entity
  BY <1>3 DEF Ranges
<1> QED BY <1>2, <1>3, <1>4, <1>5, <1>6

(* The operations on ranges, sorting and compaction keep the invariant.    *)
LEMMA RangeStep ==
  ASSUME MaxSize <= EntityMask, Structured,
         \/ \E ids \in Ranges : PushMany(ids)
         \/ \E first, last \in 0 .. MaxSize : EraseRange(first, last)
         \/ \E ids \in Ranges : RemoveMany(ids)
         \/ CompactAll
         \/ \E length \in 0 .. MaxSize : Sort(length)
         \/ \E ids \in Ranges : SortLike(ids)
  PROVE  Structured' /\ (set.mode = "in_place" /\ content' # content => Stay(set, set'))
<1>1. Whole(set) /\ set.mode \in Policies /\ InUse(set) = content
  BY StructuredIs
<1>2. SUFFICES /\ Whole(set') /\ set'.mode = set.mode /\ InUse(set') = content'
               /\ set.mode = "in_place" /\ content' # content => Stay(set, set')
  BY <1>1, StructuredIs DEF Structured, Inv, Whole
<1>3. Sound(set) /\ Size(set) \in Nat /\ MaxSize \in Nat
  BY <1>1, PositionsFit, MaxSizeAssumption DEF Whole
<1>4. ASSUME NEW ids \in Ranges, PushMany(ids)
      PROVE  /\ Whole(set') /\ set'.mode = set.mode /\ InUse(set') = content'
             /\ set.mode = "in_place" => Stay(set, set')
  <2>1. PICK n \in Nat :
          /\ ids \in [1 .. n -> ValidIdentifiers] /\ Len(ids) = n
          /\ DOMAIN ids = 1 .. n /\ ToSet(ids) = {ids[i] : i \in 1 .. n}
          /\ \A i, j \in 1 .. n : i # j => ids[i].entity # ids[j].entity
    BY RangeIs
  <2>2. /\ \A i \in 1 .. n : CanEmplace(set, ids[i])
        /\ Size(set) + n <= MaxSize /\ set' = PushRange(set, ids)
        /\ content' = content \cup {ids[i] : i \in 1 .. n}
    BY <1>4, <2>1 DEF PushMany
  <2>3. Size(set) + n <= EntityMask
    BY <1>3, <2>2, EntityMaskAssumption
  <2>4. PushedAll(set, ids, set', n)
    BY <1>1, <2>1, <2>2, <2>3, PushRangeWhole
  <2> QED BY <1>1, <2>2, <2>4 DEF PushedAll, Stay
<1>5. ASSUME NEW first \in 0 .. MaxSize, NEW last \in 0 .. MaxSize, EraseRange(first, last)
      PROVE  /\ Whole(set') /\ set'.mode = set.mode /\ InUse(set') = content'
             /\ set.mode = "in_place" => Stay(set, set')
  <2>1. /\ last < first /\ first <= SortLength(set)
        /\ \A p \in last .. first - 1 : At(set, p) \in InUse(set)
        /\ set' = PopRange(set, first, last)
        /\ content' = content \ {At(set, p) : p \in last .. first - 1}
    BY <1>5 DEF EraseRange, Owned
  <2>2. first \in Nat /\ last \in Nat
    BY <1>3
  <2>3. ASSUME NEW p \in last .. first - 1 PROVE Used(set, p)
    <3>1. ~ IsTombstone(At(set, p))
      BY <1>3, <2>1, WhereUsed
    <3>2. set.mode = "swap_only" => set.head <= Size(set)
      BY <1>3 DEF Sound, HeadSound
    <3>3. Positions(set) = 0 .. Size(set) - 1 /\ set.head \in Nat
      BY <1>3, PositionsFit
    <3>4. p \in 0 .. Size(set) - 1 /\ (set.mode = "swap_only" => p < set.head)
      BY <1>3, <2>1, <2>2, <3>2, <3>3 DEF SortLength
    <3> QED BY <3>1, <3>3, <3>4 DEF Used
  <2>4. Taken(set, {At(set, p) : p \in last .. first - 1}, set')
    BY <1>1, <2>1, <2>2, <2>3, PopRangeWhole
  <2> QED BY <1>1, <2>1, <2>4 DEF Taken, Stay
<1>6. ASSUME NEW ids \in Ranges, RemoveMany(ids)
      PROVE  /\ Whole(set') /\ set'.mode = set.mode /\ InUse(set') = content'
             /\ set.mode = "in_place" => Stay(set, set')
  <2>1. PICK n \in Nat :
          /\ ids \in [1 .. n -> ValidIdentifiers] /\ Len(ids) = n
          /\ DOMAIN ids = 1 .. n /\ ToSet(ids) = {ids[i] : i \in 1 .. n}
          /\ \A i, j \in 1 .. n : i # j => ids[i].entity # ids[j].entity
    BY RangeIs
  <2>2. /\ \A i \in 1 .. n : SetContains(set, ids[i]) => ids[i] \in InUse(set)
        /\ set' = RemoveRange(set, ids)
        /\ content' = content \ {ids[i] : i \in 1 .. n}
    BY <1>6, <2>1 DEF RemoveMany, Owned
  <2>3. Taken(set, {ids[i] : i \in 1 .. n}, set')
    BY <1>1, <2>1, <2>2, RemoveRangeWhole
  <2> QED BY <1>1, <2>2, <2>3 DEF Taken, Stay
<1>7. ASSUME CompactAll
      PROVE  Whole(set') /\ set'.mode = set.mode /\ InUse(set') = content' /\ content' = content
  BY <1>1, <1>7, CompactWhole DEF CompactAll
<1>8. ASSUME NEW length \in 0 .. MaxSize, Sort(length)
      PROVE  Whole(set') /\ set'.mode = set.mode /\ InUse(set') = content' /\ content' = content
  <2>1. PICK perm \in Bijection(1 .. length, 1 .. length) : set' = SortN(set, length, perm)
    BY <1>8 DEF Sort
  <2>2. length \in Nat /\ length <= SortLength(set) /\ Contiguous(set) /\ content' = content
    BY <1>3, <1>8 DEF Sort
  <2>3. Whole(set') /\ set'.mode = set.mode /\ InUse(set') = InUse(set)
    BY <1>1, <2>1, <2>2, SortWhole
  <2> QED BY <1>1, <2>2, <2>3
<1>9. ASSUME NEW ids \in Ranges, SortLike(ids)
      PROVE  Whole(set') /\ set'.mode = set.mode /\ InUse(set') = content' /\ content' = content
  <2>1. PICK n \in Nat :
          /\ ids \in [1 .. n -> ValidIdentifiers] /\ Len(ids) = n
          /\ DOMAIN ids = 1 .. n /\ ToSet(ids) = {ids[i] : i \in 1 .. n}
          /\ \A i, j \in 1 .. n : i # j => ids[i].entity # ids[j].entity
    BY RangeIs
  <2>2. /\ Contiguous(set) /\ \A i \in 1 .. n : SetContains(set, ids[i]) => ids[i] \in InUse(set)
        /\ set' = SortAs(set, ids) /\ content' = content
    BY <1>9, <2>1 DEF SortLike, Owned
  <2>3. Rearranged(set, set')
    BY <1>1, <2>1, <2>2, SortAsWhole
  <2> QED BY <1>1, <2>2, <2>3 DEF Rearranged
<1> QED BY <1>4, <1>5, <1>6, <1>7, <1>8, <1>9

(* Every step keeps the invariant, and in place a step that changes the    *)
(* elements leaves those in place that stay.                               *)
LEMMA StepWhole ==
  ASSUME MaxSize <= EntityMask, Structured, [Next]_vars
  PROVE  Structured' /\ (set.mode = "in_place" /\ content' # content => Stay(set, set'))
<1>1. CASE [ElementNext]_vars
  <2>1. Structured'
    BY <1>1, StepStructured
  <2>2. Inv /\ Inv'
    BY <2>1 DEF Structured
  <2>3. UNCHANGED vars => content' = content
    BY DEF vars
  <2> QED BY <1>1, <2>1, <2>2, <2>3, StepStays
<1>2. ASSUME NEW id \in Ids, Push(id) PROVE ElementNext
  BY <1>2 DEF Push, ElementNext
<1> QED BY <1>1, <1>2, RangeStep DEF Next, ElementNext

(* Every step keeps it.                                                    *)
LEMMA NextStructured ==
  ASSUME MaxSize <= EntityMask
  PROVE  Structured /\ [Next]_vars => Structured'
BY StepWhole

(* It implies the invariant of the elements.                               *)
LEMMA StructuredInv == Structured => Inv
BY DEF Structured

-------------------------------------------------------------------------------
(* The theorems.                                                           *)

(* For every identifier width, page size, policy and number of entities,   *)
(* the fields of the set keep their types under every operation.           *)
THEOREM SetTypeOK ==
  ASSUME MaxSize <= EntityMask
  PROVE  Spec => []TypeOK
<1> QED BY InitStructured, NextStructured, StructuredInv, InvTypeOK, PTL DEF Spec

(* For every width, page size, policy and number of entities, the sparse   *)
(* and the packed array of basic_sparse_set stay inverse to each other, as *)
(* long as the set holds no more elements than an entity part can count.   *)
THEOREM SetBijective ==
  ASSUME MaxSize <= EntityMask
  PROVE  Spec => []Bijective
<1> QED BY InitStructured, NextStructured, StructuredInv, InvBijective, PTL DEF Spec

(* Under the same assumption contains() and the elements in use are at all *)
(* times what the calls made so far promise, stale versions included.      *)
THEOREM SetFaithful ==
  ASSUME MaxSize <= EntityMask
  PROVE  Spec => []Faithful
<1> QED BY InitStructured, NextStructured, StructuredInv, InvFaithful, PTL DEF Spec

(* Under the same assumption no step of an in-place set that adds, removes *)
(* or renews elements, alone or in a range, moves another one: references  *)
(* to elements stay valid, which is what the policy is chosen for.         *)
THEOREM SetInPlaceStable ==
  ASSUME MaxSize <= EntityMask
  PROVE  Spec => InPlaceStable
<1>1. Structured /\ [Next]_vars
        => [set.mode = "in_place" /\ (content' # content) =>
              \A id \in content \cap content' : Index(set', id) = Index(set, id)]_vars
  <2> SUFFICES ASSUME Structured, [Next]_vars, set.mode = "in_place", content' # content
               PROVE  \A id \in content \cap content' : Index(set', id) = Index(set, id)
    OBVIOUS
  <2>1. Stay(set, set') /\ Structured'
    BY StepWhole
  <2>2. InUse(set) = content /\ InUse(set') = content'
    BY <2>1 DEF Structured, Inv
  <2> QED BY <2>1, <2>2 DEF Stay
<1> QED BY <1>1, InitStructured, NextStructured, PTL DEF Spec, InPlaceStable

(* Under the same assumption the free list of an in-place set visits every *)
(* hole once and ends, whatever was erased, emplaced and compacted in      *)
(* between, and the pages are whole: no later insertion overwrites an      *)
(* element, loses a hole or finds half a page.                             *)
THEOREM SetStructureWhole ==
  ASSUME MaxSize <= EntityMask
  PROVE  Spec => []StructureWhole
<1> QED BY InitStructured, NextStructured, StructuredWhole, PTL DEF Spec
===============================================================================
