-------------------------- MODULE EntityStorageProofs --------------------------
(***************************************************************************)
(* That the storage of entities implements the pool of identifiers, loses  *)
(* no entity and survives a snapshot, for every number of entities and     *)
(* versions.                                                               *)
(*                                                                         *)
(* Inv is the inductive invariant.  Its parts:                             *)
(*   Good       the set is Sound, swap-only, and holds valid identifiers   *)
(*   Covered    every entity between the start and placeholder is known    *)
(*   Remembers  what was destroyed last of an entity are exactly the       *)
(*              versions before the one the set holds for it, which is why *)
(*              the next one was not used for the longest time             *)
(*                                                                         *)
(* Loops over ranges are folds.  A fold is a recursive function over the   *)
(* sets of the first positions; StepsExist shows that there is one, and    *)
(* StepsChain that its values there are the steps of the loop.             *)
(***************************************************************************)
EXTENDS EntityStorage, SparseSetFacts, FiniteSetTheorems

-------------------------------------------------------------------------------
(* Versions.                                                               *)

(* The version an entity had d versions before version v.                  *)
Before(v, d) == IF d <= v THEN v - d ELSE v + VersionMask - d

(* ids are the last versions of entity e before version v, oldest first,   *)
(* and too few of them for v to be among them.                             *)
Recalls(ids, e, v) ==
  /\ ids \in Seq(ValidIdentifiers)
  /\ Len(ids) <= VersionMask - 1
  /\ \A i \in 1 .. Len(ids) : ids[i] = [entity |-> e, version |-> Before(v, Len(ids) - i + 1)]

(* next() counts up and wraps around before the tombstone version.         *)
LEMMA NextIs ==
  ASSUME NEW id \in ValidIdentifiers
  PROVE  /\ NextVersion(id) = [entity |-> id.entity,
                               version |-> IF id.version + 1 = VersionMask THEN 0 ELSE id.version + 1]
         /\ NextVersion(id) \in ValidIdentifiers
<1>1. PICK v : v = id.version + 1 + (IF id.version + 1 = VersionMask THEN 1 ELSE 0)
  OBVIOUS
<1>2. id.version \in 0 .. VersionMask - 1 /\ id.entity \in 0 .. EntityMask - 1
  BY DEF ValidIdentifiers
<1>3. id.entity % (EntityMask + 1) = id.entity
  BY <1>2, MaskIdentity, EntityMaskAssumption
<1>4. v % (VersionMask + 1) = IF id.version + 1 = VersionMask THEN 0 ELSE id.version + 1
  <2>1. CASE id.version + 1 = VersionMask
    <3>1. v = VersionMask + 1
      BY <2>1, <1>1, VersionMaskAssumption
    <3>2. v % (VersionMask + 1) = 0
      BY <3>1, VersionMaskAssumption
    <3> QED BY <2>1, <3>2
  <2>2. CASE id.version + 1 # VersionMask
    <3>1. v \in 0 .. VersionMask - 1 /\ v = id.version + 1
      BY <2>2, <1>1, <1>2, VersionMaskAssumption
    <3>2. v % (VersionMask + 1) = v
      BY <3>1, VersionMaskAssumption
    <3> QED BY <2>2, <3>1, <3>2
  <2> QED BY <2>1, <2>2
<1>5. NextVersion(id) = [entity |-> id.entity, version |-> v % (VersionMask + 1)]
  BY <1>1, <1>3 DEF NextVersion, Construct
<1> QED BY <1>2, <1>4, <1>5, VersionMaskAssumption DEF ValidIdentifiers

(* The present version is not among those it comes after.                  *)
LEMMA NotRecalled ==
  ASSUME NEW e, NEW v \in 0 .. VersionMask - 1, NEW ids, Recalls(ids, e, v)
  PROVE  [entity |-> e, version |-> v] \notin ToSet(ids)
<1>1. PICK n \in Nat : n = Len(ids)
  BY SeqFacts DEF Recalls
<1>2. ASSUME NEW i \in 1 .. n PROVE Before(v, n - i + 1) # v
  BY <1>1, VersionMaskAssumption DEF Before, Recalls
<1>3. ToSet(ids) = {ids[i] : i \in 1 .. n}
  BY <1>1, ElementsIs DEF Recalls
<1>4. ASSUME NEW i \in 1 .. n PROVE ids[i] # [entity |-> e, version |-> v]
  <2>1. ids[i] = [entity |-> e, version |-> Before(v, n - i + 1)]
    BY <1>1 DEF Recalls
  <2> QED BY <2>1, <1>2
<1> QED BY <1>3, <1>4

(* Remembering the identifier that is destroyed recalls the versions       *)
(* before the next one.                                                    *)
LEMMA RememberNext ==
  ASSUME NEW id \in ValidIdentifiers, NEW ids, Recalls(ids, id.entity, id.version),
         NEW t, t = Pool!Remember(ids, id)
  PROVE  Recalls(t, id.entity, NextVersion(id).version)
<1>1. PICK n \in Nat : n = Len(ids)
  BY SeqFacts DEF Recalls
<1>2. PICK e, v, w : e = id.entity /\ v = id.version /\ w = NextVersion(id).version
  OBVIOUS
<1>3. /\ v \in 0 .. VersionMask - 1 /\ w = IF v + 1 = VersionMask THEN 0 ELSE v + 1
      /\ id = [entity |-> e, version |-> v]
  BY <1>2, NextIs DEF ValidIdentifiers
<1>4. ids \in Seq(ValidIdentifiers) /\ n <= VersionMask - 1
      /\ \A i \in 1 .. n : ids[i] = [entity |-> e, version |-> Before(v, n - i + 1)]
  BY <1>1, <1>2 DEF Recalls
<1>5. \A d \in 0 .. VersionMask - 1 : Before(w, d + 1) = Before(v, d)
  BY <1>3, VersionMaskAssumption DEF Before
<1>6. PICK l : l = Append(ids, id)
  OBVIOUS
<1>7. /\ l \in Seq(ValidIdentifiers) /\ Len(l) = n + 1 /\ l # << >>
      /\ \A i \in 1 .. n + 1 : l[i] = [entity |-> e, version |-> Before(w, n + 1 - i + 1)]
  <2>1. l \in Seq(ValidIdentifiers) /\ Pushed(ids, id, l)
    BY <1>4, <1>6, PushFacts
  <2>2. Len(l) = n + 1 /\ l # << >> /\ l[n + 1] = id /\ \A i \in 1 .. n : l[i] = ids[i]
    BY <1>1, <2>1 DEF Pushed
  <2>3. ASSUME NEW i \in 1 .. n + 1
        PROVE  l[i] = [entity |-> e, version |-> Before(w, n + 1 - i + 1)]
    <3>1. CASE i = n + 1
      <4>1. n + 1 - i + 1 = 1 /\ Before(w, 0 + 1) = Before(v, 0) /\ Before(v, 0) = v
        BY <3>1, <1>3, <1>5, VersionMaskAssumption DEF Before
      <4> QED BY <3>1, <4>1, <2>2, <1>3
    <3>2. CASE i # n + 1
      <4>1. i \in 1 .. n
        BY <3>2
      <4>2. PICK d : d = n - i + 1
        OBVIOUS
      <4>3. d \in 0 .. VersionMask - 1
        BY <4>1, <4>2, <1>4, VersionMaskAssumption
      <4>4. d + 1 = n + 1 - i + 1
        BY <4>1, <4>2
      <4>5. Before(w, d + 1) = Before(v, d)
        BY <4>3, <1>5
      <4> QED BY <4>1, <4>2, <4>4, <4>5, <2>2, <1>4
    <3> QED BY <3>1, <3>2
  <2> QED BY <2>1, <2>2, <2>3
<1>8. t = IF n + 1 > VersionMask - 1 THEN Tail(l) ELSE l
  BY <1>6, <1>7 DEF Pool!Remember, Pool!Memory
<1>9. CASE n + 1 > VersionMask - 1
  <2>1. t = Tail(l)
    BY <1>8, <1>9
  <2>2. t \in Seq(ValidIdentifiers) /\ Len(t) = n /\ \A i \in 1 .. n : t[i] = l[i + 1]
    BY <2>1, <1>7
  <2>3. ASSUME NEW i \in 1 .. n PROVE t[i] = [entity |-> e, version |-> Before(w, n - i + 1)]
    <3>1. PICK j : j = i + 1
      OBVIOUS
    <3>2. j \in 1 .. n + 1 /\ n + 1 - j + 1 = n - i + 1
      BY <3>1
    <3> QED BY <3>1, <3>2, <2>2, <1>7
  <2> QED BY <2>2, <2>3, <1>2, <1>4 DEF Recalls
<1>10. CASE ~ (n + 1 > VersionMask - 1)
  BY <1>2, <1>7, <1>8, <1>10, VersionMaskAssumption DEF Recalls
<1> QED BY <1>9, <1>10

(* The pool's modules are copies: their Cardinality and Max are those here.*)
LEMMA SameCardinality == ASSUME NEW S PROVE Pool!Cardinality(S) = Cardinality(S)
BY DEF Pool!Cardinality, Cardinality

(* A set of one identifier, or of none, as a sequence.                     *)
LEMMA OneToSeq ==
  ASSUME NEW x
  PROVE  Pool!SetToSeq({x}) = << x >>
<1>1. Pool!Cardinality({x}) = 1
  BY FS_Singleton, SameCardinality
<1>2. << x >> \in [1 .. 1 -> {x}] /\ Pool!IsInjective(<< x >>)
  BY DEF Pool!IsInjective
<1>3. \A f \in [1 .. 1 -> {x}] : f = << x >>
  OBVIOUS
<1>4. Pool!SetToSeq({x}) = CHOOSE f \in [1 .. 1 -> {x}] : Pool!IsInjective(f)
  BY ONLY <1>1 DEF Pool!SetToSeq
<1> QED BY <1>2, <1>3, <1>4

(* A set of no identifier.                                                 *)
LEMMA NoneToSeq ==
  Pool!SetToSeq({}) = << >>
<1>1. Pool!Cardinality({}) = 0
  BY FS_EmptySet, SameCardinality
<1>2. << >> \in [1 .. 0 -> {}] /\ Pool!IsInjective(<< >>)
  BY DEF Pool!IsInjective
<1>3. \A f \in [1 .. 0 -> {}] : f = << >>
  OBVIOUS
<1>4. Pool!SetToSeq({}) = CHOOSE f \in [1 .. 0 -> {}] : Pool!IsInjective(f)
  BY ONLY <1>1 DEF Pool!SetToSeq
<1> QED BY <1>2, <1>3, <1>4

(* The fold of one step, and of none.                                      *)
LEMMA FoldNone ==
  ASSUME NEW r
  PROVE  Pool!FoldLeft(Pool!Remember, r, << >>) = r
<1>1. PICK h : h = [u \in SUBSET {} |-> r]
  OBVIOUS
<1>2. h = [u \in SUBSET (DOMAIN << >>) |->
             IF u = {} THEN r ELSE Pool!Remember(h[u \ {Pool!Max(u)}], << >>[Pool!Max(u)])]
  BY <1>1
<1>3. PICK g :
        /\ g = [u \in SUBSET (DOMAIN << >>) |->
                  IF u = {} THEN r ELSE Pool!Remember(g[u \ {Pool!Max(u)}], << >>[Pool!Max(u)])]
        /\ Pool!FoldLeft(Pool!Remember, r, << >>) = g[DOMAIN << >>]
  BY <1>2 DEF Pool!FoldLeft, Pool!MapThenFoldSet
<1>4. DOMAIN << >> = {}
  OBVIOUS
<1> QED BY <1>3, <1>4

(* Remembering one identifier.                                             *)
LEMMA FoldOne ==
  ASSUME NEW r, NEW x
  PROVE  Pool!FoldLeft(Pool!Remember, r, << x >>) = Pool!Remember(r, x)
<1> DEFINE q == << x >>
<1>1. DOMAIN q = {1} /\ q[1] = x
  OBVIOUS
<1> HIDE DEF q
<1>2. Pool!Max({1}) = 1
  BY DEF Pool!Max
<1>3. \A u \in SUBSET {1} : u # {} => u = {1} /\ u \ {Pool!Max(u)} = {}
  BY <1>2
<1>4. PICK h : h = [u \in SUBSET {1} |-> IF u = {} THEN r ELSE Pool!Remember(r, x)]
  OBVIOUS
<1>5. h = [u \in SUBSET (DOMAIN q) |->
             IF u = {} THEN r ELSE Pool!Remember(h[u \ {Pool!Max(u)}], q[Pool!Max(u)])]
  <2>1. ASSUME NEW u \in SUBSET {1}
        PROVE  (IF u = {} THEN r ELSE Pool!Remember(r, x)) =
               (IF u = {} THEN r ELSE Pool!Remember(h[u \ {Pool!Max(u)}], q[Pool!Max(u)]))
    <3>1. CASE u = {}
      BY <3>1
    <3>2. CASE u # {}
      <4>1. u = {1} /\ Pool!Max(u) = 1 /\ u \ {Pool!Max(u)} = {}
        BY <3>2, <1>2, <1>3
      <4>2. h[{}] = r
        BY <1>4
      <4> QED BY <3>2, <4>1, <4>2, <1>1
    <3> QED BY <3>1, <3>2
  <2> QED BY <2>1, <1>1, <1>4
<1>6. PICK g :
        /\ g = [u \in SUBSET (DOMAIN q) |->
                  IF u = {} THEN r ELSE Pool!Remember(g[u \ {Pool!Max(u)}], q[Pool!Max(u)])]
        /\ Pool!FoldLeft(Pool!Remember, r, q) = g[DOMAIN q]
  BY <1>5 DEF Pool!FoldLeft, Pool!MapThenFoldSet
<1>7. g[{}] = r /\ g[{1}] = Pool!Remember(g[{}], x)
  <2>1. {} \in SUBSET {1} /\ {1} \in SUBSET {1} /\ {1} # {} /\ {1} \ {1} = {}
    OBVIOUS
  <2> QED BY <2>1, <1>1, <1>2, <1>6
<1> QED BY <1>1, <1>6, <1>7 DEF q

-------------------------------------------------------------------------------
(* A sparse set of valid identifiers with the swap-only policy.            *)

(* The identifiers the set holds, in use or not.                           *)
Held(s) == {At(s, pos) : pos \in Positions(s)}

Good(s) == Sound(s) /\ s.mode = "swap_only" /\ Held(s) \subseteq ValidIdentifiers

(* Its positions, and what they hold.                                      *)
LEMMA GoodFacts ==
  ASSUME NEW s, Good(s)
  PROVE  /\ Size(s) \in Nat /\ s.head \in 0 .. Size(s)
         /\ Positions(s) = 0 .. Size(s) - 1 /\ Positions(s) \subseteq 0 .. EntityMask - 1
         /\ \A p \in Positions(s) :
              /\ At(s, p) \in ValidIdentifiers /\ At(s, p) \in Identifiers
              /\ ~ IsTombstone(At(s, p))
              /\ At(s, p).entity \in Allocated(s)
              /\ s.sparse[At(s, p).entity] = [entity |-> p, version |-> At(s, p).version]
         /\ \A p, q \in Positions(s) : At(s, p).entity = At(s, q).entity => p = q
<1>1. Sound(s) /\ s.mode = "swap_only"
  BY DEF Good
<1>2. /\ Size(s) \in Nat /\ s.head \in Nat /\ Positions(s) = 0 .. Size(s) - 1
      /\ Positions(s) \subseteq 0 .. EntityMask - 1
      /\ \A p \in Positions(s) : At(s, p) \in Identifiers
  BY <1>1, PositionsFit
<1>3. s.head \in 0 .. Size(s) /\ \A p \in Positions(s) : ~ IsTombstone(At(s, p))
  BY <1>1, <1>2 DEF Sound, HeadSound
<1>4. ASSUME NEW p \in Positions(s)
      PROVE  /\ At(s, p).entity \in Allocated(s)
             /\ s.sparse[At(s, p).entity] = [entity |-> p, version |-> At(s, p).version]
  BY <1>1, <1>3 DEF Sound, PackedLinked
<1>5. \A p \in Positions(s) : At(s, p) \in ValidIdentifiers
  BY DEF Good, Held
<1>6. ASSUME NEW p \in Positions(s), NEW q \in Positions(s), At(s, p).entity = At(s, q).entity
      PROVE  p = q
  BY <1>1, <1>3, <1>6, OneEach
<1> QED BY <1>2, <1>3, <1>4, <1>5, <1>6

(* The entities it knows; no two identifiers it holds are of one entity.   *)
LEMMA KnownIs ==
  ASSUME NEW s, Good(s)
  PROVE  /\ Known(s) = {x.entity : x \in Held(s)}
         /\ Live(s) = InUse(s) /\ Live(s) \subseteq Held(s)
         /\ \A x, y \in Held(s) : x.entity = y.entity => x = y
<1>1. Known(s) = {x.entity : x \in Held(s)}
  BY DEF Known, Held
<1>2. Live(s) = InUse(s)
  BY DEF Live, InUse, Good
<1>3. \A p \in 0 .. s.head - 1 : p \in Positions(s)
  BY GoodFacts
<1>4. Live(s) \subseteq Held(s)
  BY <1>3 DEF Live, Held
<1>5. \A x, y \in Held(s) : x.entity = y.entity => x = y
  BY GoodFacts DEF Held
<1> QED BY <1>1, <1>2, <1>4, <1>5

(* A held identifier is in use exactly if its position is before the head. *)
LEMMA LiveAt ==
  ASSUME NEW s, Good(s), NEW p \in Positions(s)
  PROVE  At(s, p) \in Live(s) <=> p < s.head
<1>1. /\ s.head \in 0 .. Size(s) /\ Positions(s) = 0 .. Size(s) - 1 /\ Size(s) \in Nat
      /\ \A q \in Positions(s) : At(s, p).entity = At(s, q).entity => p = q
  BY GoodFacts
<1>2. ASSUME NEW q \in 0 .. s.head - 1, At(s, q) = At(s, p) PROVE p < s.head
  <2>1. q \in Positions(s)
    BY <1>1
  <2> QED BY <1>1, <1>2, <2>1
<1>3. ASSUME p < s.head PROVE p \in 0 .. s.head - 1
  BY <1>1, <1>3
<1> QED BY <1>2, <1>3 DEF Live

(* What the sparse array says of an entity.                                *)
LEMMA SparseIs ==
  ASSUME NEW s, Good(s), NEW id
  PROVE  /\ id.entity \in Known(s) =>
              \E p \in Positions(s) :
                 /\ id.entity \in Allocated(s) /\ Elem(s, id) = [entity |-> p, version |-> At(s, p).version]
                 /\ At(s, p).entity = id.entity /\ Current(s, id) = At(s, p).version
                 /\ ~ IsNull(Elem(s, id)) /\ Current(s, id) # VersionMask
         /\ id.entity \notin Known(s) =>
              /\ id.entity \in Allocated(s) => Elem(s, id) = Null
              /\ Current(s, id) = VersionMask
<1>1. CASE id.entity \in Known(s)
  <2>1. PICK p \in Positions(s) : At(s, p).entity = id.entity
    BY <1>1 DEF Known
  <2>2. /\ p \in 0 .. EntityMask - 1
        /\ At(s, p) \in ValidIdentifiers /\ ~ IsTombstone(At(s, p))
        /\ id.entity \in Allocated(s)
        /\ s.sparse[id.entity] = [entity |-> p, version |-> At(s, p).version]
    BY <2>1, GoodFacts
  <2>3. Elem(s, id) = [entity |-> p, version |-> At(s, p).version]
    BY <2>2 DEF Elem
  <2>4. Current(s, id) = At(s, p).version /\ Current(s, id) # VersionMask
    BY <2>2, <2>3 DEF Current, IsTombstone
  <2>5. ~ IsNull(Elem(s, id))
    BY <2>2, <2>3, EntityMaskAssumption DEF IsNull
  <2> QED BY <1>1, <2>1, <2>2, <2>3, <2>4, <2>5
<1>2. CASE id.entity \notin Known(s)
  <2>1. ASSUME id.entity \in Allocated(s) PROVE Elem(s, id) = Null
    <3>0. PICK e, p : e = id.entity /\ p = s.sparse[e].entity
      OBVIOUS
    <3>1. ASSUME p # EntityMask PROVE p \in Positions(s) /\ At(s, p).entity = e
      <4>1. e \in Allocated(s) /\ Sound(s)
        BY <2>1, <3>0 DEF Good
      <4>2. p \in Positions(s) /\ At(s, p) = [entity |-> e, version |-> s.sparse[e].version]
        BY <4>1, <3>0, <3>1 DEF Sound, SparseLinked
      <4> QED BY <4>2
    <3>2. s.sparse[id.entity].entity = EntityMask
      BY <3>0, <3>1, <1>2 DEF Known
    <3> QED BY <2>1, <3>2 DEF Good, Sound, NullWhole, Elem
  <2>2. Current(s, id) = VersionMask
    BY <2>1 DEF Current, Null
  <2> QED BY <1>2, <2>1, <2>2
<1> QED BY <1>1, <1>2

(* contains() answers whether the identifier is held, in use or not.       *)
LEMMA ContainsIs ==
  ASSUME NEW s, Good(s), NEW id \in ValidIdentifiers
  PROVE  SetContains(s, id) <=> id \in Held(s)
<1>0. id = [entity |-> id.entity, version |-> id.version]
  BY DEF ValidIdentifiers
<1>1. ASSUME SetContains(s, id) PROVE id \in Held(s)
  <2>1. id.entity \in Allocated(s) /\ Elem(s, id).version = id.version /\ Elem(s, id) # Null
    BY <1>1, EntityMaskAssumption DEF SetContains, Null
  <2>2. id.entity \in Known(s)
    BY <2>1, SparseIs
  <2>3. PICK p \in Positions(s) :
          Elem(s, id) = [entity |-> p, version |-> At(s, p).version] /\ At(s, p).entity = id.entity
    BY <2>2, SparseIs
  <2>4. At(s, p) \in ValidIdentifiers /\ At(s, p).version = id.version
    BY <2>1, <2>3, GoodFacts
  <2>5. At(s, p) = id
    BY <1>0, <2>3, <2>4 DEF ValidIdentifiers
  <2> QED BY <2>5 DEF Held
<1>2. ASSUME id \in Held(s) PROVE SetContains(s, id)
  <2>1. PICK p \in Positions(s) : At(s, p) = id
    BY <1>2 DEF Held
  <2>2. /\ id.entity \in Allocated(s) /\ p \in 0 .. EntityMask - 1
        /\ s.sparse[id.entity] = [entity |-> p, version |-> id.version]
    BY <2>1, GoodFacts
  <2> QED BY <2>2, EntityMaskAssumption DEF SetContains, Elem
<1> QED BY <1>1, <1>2

(* There are not more positions than entities, and one less for each       *)
(* entity that is not known.                                               *)
LEMMA RoomLeft ==
  ASSUME NEW s, Good(s), NEW e \in 0 .. EntityMask - 1, e \notin Known(s)
  PROVE  Size(s) < EntityMask
<1>1. PICK n \in Nat : n = Size(s)
  BY GoodFacts
<1>2. PICK S, T, f : /\ S = 0 .. n - 1 /\ T = (0 .. EntityMask - 1) \ {e}
                     /\ f = [p \in S |-> At(s, p).entity]
  OBVIOUS
<1>3. \A p \in S : At(s, p).entity \in T
  BY <1>1, <1>2, GoodFacts DEF Known, ValidIdentifiers
<1>4. \A p, q \in S : At(s, p).entity = At(s, q).entity => p = q
  BY <1>1, <1>2, GoodFacts
<1>5. f \in Injection(S, T)
  BY <1>2, <1>3, <1>4 DEF Injection, IsInjective
<1>6. IsFiniteSet(0 .. EntityMask - 1) /\ Cardinality(0 .. EntityMask - 1) = EntityMask
  BY EntityMaskAssumption, FS_Interval
<1>7. IsFiniteSet(T) /\ Cardinality(T) = EntityMask - 1
  BY ZenonT(60), <1>2, <1>6, FS_RemoveElement
<1>8. Cardinality(S) <= Cardinality(T)
  BY <1>5, <1>7, FS_Injection
<1>9. Cardinality(S) = n
  BY <1>2, FS_Interval
<1> QED BY <1>1, <1>7, <1>8, <1>9, EntityMaskAssumption

(* The entity has no identifier in use.                                    *)
NotLive(s, e) == \A x \in Live(s) : x.entity # e

(* An identifier whose entity is not in use may be placed.                 *)
LEMMA MayPlace ==
  ASSUME NEW s, Good(s), NEW id \in ValidIdentifiers, NotLive(s, id.entity)
  PROVE  CanEmplace(s, id)
<1>1. ~ IsNull(id) /\ ~ IsTombstone(id)
  BY EntityMaskAssumption, VersionMaskAssumption DEF ValidIdentifiers, IsNull, IsTombstone
<1>2. CASE id.entity \in Known(s)
  <2>1. PICK p \in Positions(s) : Elem(s, id) = [entity |-> p, version |-> At(s, p).version]
                                  /\ At(s, p).entity = id.entity
    BY <1>2, SparseIs
  <2>2. At(s, p) \notin Live(s)
    BY <2>1 DEF NotLive
  <2>3. ~ (p < s.head)
    BY <2>2, LiveAt
  <2>4. Elem(s, id).entity >= s.head
    BY <2>1, <2>3, GoodFacts
  <2> QED BY <1>1, <2>4 DEF CanEmplace, Good
<1>3. CASE id.entity \notin Known(s)
  <2>1. id.entity \in Allocated(s) => Elem(s, id) = Null
    BY <1>3, SparseIs
  <2> QED BY <1>1, <2>1 DEF CanEmplace, IsNull, Null
<1> QED BY <1>2, <1>3

(* t is s after id took the first position that is not in use: what was    *)
(* there moved to position q, where id was or which is new.                *)
Placed(s, id, q, t) ==
  /\ q \in 0 .. Size(s) /\ s.head <= q
  /\ q = Size(s) => id.entity \notin Known(s)
  /\ q < Size(s) => At(s, q).entity = id.entity
  /\ t.head = s.head + 1 /\ Size(t) = IF q = Size(s) THEN Size(s) + 1 ELSE Size(s)
  /\ \A p \in Positions(t) : At(t, p) = IF p = s.head THEN id
                                        ELSE IF p = q THEN At(s, s.head) ELSE At(s, p)

(* try_emplace places the identifier like this.                            *)
LEMMA EmplacePlaces ==
  ASSUME NEW s, Good(s), NEW id \in ValidIdentifiers, CanEmplace(s, id),
         NEW t, t = TryEmplace(s, id, TRUE)
  PROVE  Sound(t) /\ t.mode = "swap_only" /\ \E q : Placed(s, id, q, t)
<1>1. PICK u, h, n : u = AssureAtLeast(s, id) /\ h = s.head /\ n = Size(s)
  OBVIOUS
<1>2. id \in Identifiers /\ ~ IsTombstone(id) /\ id.entity \in 0 .. EntityMask - 1
  BY EntityMaskAssumption, VersionMaskAssumption
     DEF ValidIdentifiers, Identifiers, EntityParts, VersionParts, IsTombstone
<1>3. /\ Sound(u) /\ id.entity \in Allocated(u)
      /\ u.mode = "swap_only" /\ u.head = h /\ u.packed = s.packed
      /\ id.entity \in Allocated(s) => Elem(u, id) = Elem(s, id)
      /\ id.entity \notin Allocated(s) => Elem(u, id) = Null
  BY <1>1, <1>2, AssureSound DEF Good
<1>4. /\ Size(u) = n /\ Positions(u) = Positions(s) /\ \A p : At(u, p) = At(s, p)
  BY <1>1, <1>3 DEF Size, Positions, At
<1>5. n \in Nat /\ h \in 0 .. n /\ Positions(s) = 0 .. n - 1
  BY <1>1, GoodFacts
<1>6. PICK v : v = IF IsNull(Elem(u, id)) THEN PushBack(u, id) ELSE Bump(u, id)
  OBVIOUS
<1>7. PICK q, m : q = Elem(v, id).entity /\ m = Size(v)
  OBVIOUS
<1>8. /\ Sound(v) /\ v.mode = "swap_only" /\ v.head = h /\ q \in 0 .. n /\ h <= q
      /\ m = IF q = n THEN n + 1 ELSE n
      /\ q = n => id.entity \notin Known(s)
      /\ q < n => At(s, q).entity = id.entity
      /\ \A p \in 0 .. m - 1 : At(v, p) = IF p = q THEN id ELSE At(s, p)
  <2>1. CASE id.entity \notin Known(s)
    <3>1. IsNull(Elem(u, id))
      BY <2>1, <1>3, SparseIs DEF IsNull, Null
    <3>2. n < EntityMask
      BY <2>1, <1>1, <1>2, RoomLeft
    <3>3. v = PushBack(u, id)
      BY <1>6, <3>1
    <3>4. /\ Sound(v) /\ v.mode = u.mode /\ v.head = u.head
          /\ Size(v) = n + 1 /\ At(v, n) = id /\ \A p \in Positions(s) : At(v, p) = At(s, p)
      BY <1>2, <1>3, <1>4, <3>1, <3>2, <3>3, PushBackSound
    <3>5. q = n
      <4>1. v.mode = "swap_only" /\ Positions(v) = 0 .. n /\ n \in Positions(v)
        BY <1>3, <1>5, <3>4 DEF Positions
      <4>2. v.sparse[id.entity] = [entity |-> n, version |-> id.version]
        BY <4>1, <3>4, <1>2 DEF Sound, PackedLinked
      <4> QED BY <4>2, <1>7 DEF Elem
    <3>6. m = n + 1 /\ h <= n /\ n \in 0 .. n /\ 0 .. m - 1 = 0 .. n
      BY <3>4, <1>5, <1>7
    <3>7. ASSUME NEW p \in 0 .. n PROVE At(v, p) = IF p = n THEN id ELSE At(s, p)
      <4>1. p # n => p \in Positions(s)
        BY <1>5
      <4> QED BY <4>1, <3>4
    <3> QED BY <2>1, <3>4, <3>5, <3>6, <3>7, <1>3
  <2>2. CASE id.entity \in Known(s)
    <3>1. PICK p \in Positions(s) :
            /\ id.entity \in Allocated(s)
            /\ Elem(s, id) = [entity |-> p, version |-> At(s, p).version]
            /\ At(s, p).entity = id.entity /\ ~ IsNull(Elem(s, id))
      BY <2>2, SparseIs
    <3>2. Elem(u, id) = Elem(s, id) /\ ~ IsNull(Elem(u, id)) /\ Elem(u, id).entity = p
      BY <3>1, <1>3
    <3>3. v = Bump(u, id)
      BY <1>6, <3>2
    <3>4. /\ Sound(v) /\ v.mode = u.mode /\ v.head = u.head /\ Size(v) = n
          /\ \A r \in Positions(s) : At(v, r) = IF r = p THEN id ELSE At(s, r)
          /\ Elem(v, id).entity = p
      BY <1>2, <1>3, <1>4, <3>2, <3>3, BumpSound
    <3>5. Elem(s, id).entity >= h
      BY <3>1, <1>1 DEF CanEmplace, Good
    <3>6. h <= p /\ p \in 0 .. n - 1 /\ q = p
      BY <3>1, <3>4, <3>5, <1>5, <1>7
    <3> QED BY <2>2, <3>1, <3>4, <3>6, <1>3, <1>5, <1>7
  <2> QED BY <2>1, <2>2
<1>9. PICK w : w = [v EXCEPT !.head = h + 1]
  OBVIOUS
<1>10. m \in Nat /\ h + 1 \in 0 .. m /\ q \in 0 .. m - 1 /\ h \in 0 .. m - 1
  BY <1>5, <1>8
<1>11. /\ Sound(w) /\ w.mode = "swap_only" /\ w.head = h + 1
       /\ Size(w) = m /\ Positions(w) = 0 .. m - 1 /\ \A p : At(w, p) = At(v, p)
  <2>1. Positions(v) = 0 .. m - 1 /\ h + 1 \in 0 .. Size(v)
    BY <1>7, <1>10 DEF Positions
  <2>2. PICK k : k = h + 1
    OBVIOUS
  <2>3. k \in 0 .. Size(v) /\ w = [v EXCEPT !.head = k]
    BY <2>1, <2>2, <1>9
  <2>4. /\ Sound(w) /\ w.mode = v.mode /\ w.head = k
        /\ Size(w) = Size(v) /\ Positions(w) = Positions(v) /\ \A p : At(w, p) = At(v, p)
    BY <2>3, <1>8, HeadChangeSound
  <2> QED BY <2>1, <2>2, <2>4, <1>7, <1>8
<1>12. t = SwapAt(w, q, h)
  <2>1. t = EmplaceSwapOnly(u, id)
    BY <1>1 DEF TryEmplace, Good
  <2> QED BY <2>1, <1>6, <1>7, <1>8, <1>9 DEF EmplaceSwapOnly
<1>13. ~ IsTombstone(At(w, q)) /\ ~ IsTombstone(At(w, h))
  BY <1>10, <1>11 DEF Sound, HeadSound
<1>14. /\ Sound(t) /\ t.mode = "swap_only" /\ t.head = h + 1 /\ Size(t) = m
       /\ Positions(t) = 0 .. m - 1
       /\ \A p \in 0 .. m - 1 :
            At(t, p) = IF p = h THEN At(w, q) ELSE IF p = q THEN At(w, h) ELSE At(w, p)
  <2>1. q \in Positions(w) /\ h \in Positions(w)
    BY <1>10, <1>11
  <2>2. /\ Sound(t) /\ t.mode = w.mode /\ t.head = w.head /\ Size(t) = Size(w)
        /\ Positions(t) = Positions(w)
        /\ \A p \in Positions(w) :
             At(t, p) = IF p = h THEN At(w, q) ELSE IF p = q THEN At(w, h) ELSE At(w, p)
    <3>1. Sound(w)
      BY <1>11
    <3> QED BY ONLY <2>1, <3>1, <1>12, <1>13, SwapAtSound
  <2> QED BY <2>2, <1>11
<1>15. ASSUME NEW p \in 0 .. m - 1
       PROVE  At(t, p) = IF p = h THEN id ELSE IF p = q THEN At(s, h) ELSE At(s, p)
  <2>1. At(w, q) = id /\ (p # q => At(w, p) = At(s, p)) /\ (h # q => At(w, h) = At(s, h))
    BY <1>8, <1>10, <1>11
  <2> QED BY <2>1, <1>14
<1>16. Placed(s, id, q, t)
  BY <1>1, <1>8, <1>14, <1>15 DEF Placed
<1> QED BY <1>14, <1>16

(* What is held and in use afterwards.                                     *)
LEMMA EmplaceHolds ==
  ASSUME NEW s, Good(s), NEW id \in ValidIdentifiers, NotLive(s, id.entity),
         NEW t, t = TryEmplace(s, id, TRUE)
  PROVE  /\ Good(t) /\ t.head = s.head + 1 /\ At(t, s.head) = id
         /\ Held(t) = {x \in Held(s) : x.entity # id.entity} \cup {id}
         /\ Live(t) = Live(s) \cup {id}
<1>1. PICK q : Placed(s, id, q, t)
  BY MayPlace, EmplacePlaces
<1>2. PICK h, n, m : h = s.head /\ n = Size(s) /\ m = Size(t)
  OBVIOUS
<1>3. /\ n \in Nat /\ h \in 0 .. n /\ Positions(s) = 0 .. n - 1
      /\ \A p, r \in 0 .. n - 1 : At(s, p).entity = At(s, r).entity => p = r
      /\ m \in Nat /\ h \in 0 .. m - 1 /\ Positions(t) = 0 .. m - 1
  <2>1. /\ n \in Nat /\ h \in 0 .. n /\ Positions(s) = 0 .. n - 1
        /\ \A p, r \in 0 .. n - 1 : At(s, p).entity = At(s, r).entity => p = r
    BY <1>2, GoodFacts
  <2>2. q \in 0 .. n /\ h <= q /\ m = IF q = n THEN n + 1 ELSE n
    BY <1>1, <1>2 DEF Placed
  <2>3. m \in Nat /\ h \in 0 .. m - 1
    BY <2>1, <2>2
  <2> QED BY <2>1, <2>3, <1>2 DEF Positions
<1>4. /\ q \in 0 .. n /\ h <= q /\ m = IF q = n THEN n + 1 ELSE n
      /\ q = n => \A p \in 0 .. n - 1 : At(s, p).entity # id.entity
      /\ q < n => At(s, q).entity = id.entity
      /\ \A p \in 0 .. m - 1 : At(t, p) = IF p = h THEN id ELSE IF p = q THEN At(s, h) ELSE At(s, p)
  BY <1>1, <1>2, <1>3 DEF Placed, Known
<1>5. At(t, h) = id
  BY <1>3, <1>4
<1>6. ASSUME NEW p \in 0 .. m - 1, p # h
      PROVE  At(t, p) \in Held(s) /\ At(t, p).entity # id.entity
  <2>1. CASE p = q
    <3>1. h \in 0 .. n - 1 /\ h # q
      BY <1>3, <1>4, <1>6, <2>1
    <3>2. At(t, p) = At(s, h)
      BY <2>1, <1>4, <1>6
    <3>3. At(s, h).entity # id.entity
      BY <3>1, <1>3, <1>4
    <3> QED BY <3>1, <3>2, <3>3, <1>3 DEF Held
  <2>2. CASE p # q
    <3>1. At(t, p) = At(s, p)
      BY <2>2, <1>4, <1>6
    <3>0. p \in 0 .. n - 1
      BY <2>2, <1>3, <1>4
    <3>2. At(s, p).entity # id.entity
      BY <3>0, <2>2, <1>3, <1>4
    <3> QED BY <3>0, <3>1, <3>2, <1>3 DEF Held
  <2> QED BY <2>1, <2>2
<1>7. ASSUME NEW x \in Held(s), x.entity # id.entity PROVE x \in Held(t)
  <2>1. PICK p \in 0 .. n - 1 : At(s, p) = x
    BY <1>3 DEF Held
  <2>2. p # q
    BY <2>1, <1>4, <1>7
  <2>3. CASE p = h
    <3>0. q \in 0 .. m - 1 /\ q # h
      BY <2>2, <2>3, <1>3, <1>4
    <3>1. At(t, q) = x
      BY <3>0, <2>1, <2>3, <1>4
    <3> QED BY <3>0, <3>1, <1>3 DEF Held
  <2>4. CASE p # h
    <3>0. p \in 0 .. m - 1
      BY <2>1, <1>3, <1>4
    <3>1. At(t, p) = x
      BY <3>0, <2>1, <2>2, <2>4, <1>4
    <3> QED BY <3>0, <3>1, <1>3 DEF Held
  <2> QED BY <2>3, <2>4
<1>8. Held(t) = {x \in Held(s) : x.entity # id.entity} \cup {id}
  <2>1. id \in Held(t)
    BY <1>3, <1>5 DEF Held
  <2>2. \A x \in Held(t) : x = id \/ (x \in Held(s) /\ x.entity # id.entity)
    BY <1>3, <1>5, <1>6 DEF Held
  <2> QED BY <2>1, <2>2, <1>7
<1>9. Good(t)
  <2>1. Sound(t) /\ t.mode = "swap_only"
    BY MayPlace, EmplacePlaces
  <2> QED BY <2>1, <1>8 DEF Good
<1>10. Live(t) = Live(s) \cup {id}
  <2>0. t.head = h + 1
    BY <1>1, <1>2 DEF Placed
  <2>1. ASSUME NEW p \in 0 .. h - 1 PROVE At(t, p) = At(s, p)
    <3>1. p \in 0 .. m - 1 /\ p # h /\ p # q
      BY <1>3, <1>4
    <3> QED BY <3>1, <1>4
  <2>5. {At(t, p) : p \in 0 .. h} = {At(t, p) : p \in 0 .. h - 1} \cup {At(t, h)}
    <3>1. h \in Nat
      BY <1>3
    <3>2. \A p : p \in 0 .. h <=> p \in 0 .. h - 1 \/ p = h
      BY <3>1
    <3> QED BY ONLY <3>2
  <2>6. {At(t, p) : p \in 0 .. h - 1} = {At(s, p) : p \in 0 .. h - 1}
    BY <2>1
  <2>3. Live(t) = {At(t, p) : p \in 0 .. h}
    <3>1. t.head - 1 = h
      <4>1. h \in Nat
        BY <1>3
      <4>2. PICK k : k = t.head
        OBVIOUS
      <4>3. k \in Nat /\ k - 1 = h
        BY ONLY <4>1, <4>2, <2>0
      <4> QED BY <4>2, <4>3
    <3> QED BY <3>1 DEF Live
  <2>4. Live(s) = {At(s, p) : p \in 0 .. h - 1}
    BY <1>2 DEF Live
  <2> QED BY <2>3, <2>4, <2>5, <2>6, <1>5
<1> QED BY <1>1, <1>2, <1>5, <1>8, <1>9, <1>10 DEF Placed

(* bump gives the element at position p another version.                   *)
LEMMA BumpHolds ==
  ASSUME NEW s, Good(s), NEW p \in Positions(s), NEW new \in ValidIdentifiers,
         new.entity = At(s, p).entity, NEW t, t = Bump(s, new)
  PROVE  /\ Good(t) /\ t.head = s.head /\ Positions(t) = Positions(s) /\ Size(t) = Size(s)
         /\ \A r \in Positions(s) : At(t, r) = IF r = p THEN new ELSE At(s, r)
         /\ Held(t) = (Held(s) \ {At(s, p)}) \cup {new}
         /\ Live(t) = IF p < s.head THEN (Live(s) \ {At(s, p)}) \cup {new} ELSE Live(s)
<1>1. new \in Identifiers /\ ~ IsTombstone(new)
  BY EntityMaskAssumption, VersionMaskAssumption
     DEF ValidIdentifiers, Identifiers, EntityParts, VersionParts, IsTombstone
<1>2. /\ new.entity \in Allocated(s) /\ Elem(s, new).entity = p /\ ~ IsNull(Elem(s, new))
  <2>1. /\ p \in 0 .. EntityMask - 1 /\ At(s, p).entity \in Allocated(s)
        /\ s.sparse[At(s, p).entity] = [entity |-> p, version |-> At(s, p).version]
    BY GoodFacts
  <2> QED BY <2>1, EntityMaskAssumption DEF Elem, IsNull
<1>3. /\ Sound(t) /\ t.mode = s.mode /\ t.head = s.head /\ Size(t) = Size(s)
      /\ Positions(t) = Positions(s)
      /\ \A r \in Positions(s) : At(t, r) = IF r = p THEN new ELSE At(s, r)
  BY <1>1, <1>2, BumpSound DEF Good
<1>4. \A r \in Positions(s) : At(s, r) = At(s, p) => r = p
  BY GoodFacts
<1>5. Held(t) = (Held(s) \ {At(s, p)}) \cup {new}
  BY <1>3, <1>4 DEF Held
<1>6. Good(t)
  BY <1>3, <1>5 DEF Good
<1>7. \A r \in 0 .. s.head - 1 : r \in Positions(s)
  BY GoodFacts
<1>8. Live(t) = {At(t, r) : r \in 0 .. s.head - 1} /\ Live(s) = {At(s, r) : r \in 0 .. s.head - 1}
  BY <1>3 DEF Live
<1>9. CASE p < s.head
  <2>1. p \in 0 .. s.head - 1
    BY <1>9, GoodFacts
  <2>2. Live(t) = (Live(s) \ {At(s, p)}) \cup {new}
    BY <2>1, <1>3, <1>4, <1>7, <1>8
  <2> QED BY <2>2, <1>3, <1>5, <1>6, <1>9
<1>10. CASE ~ (p < s.head)
  <2>1. \A r \in 0 .. s.head - 1 : r # p
    BY <1>10, GoodFacts
  <2>2. Live(t) = Live(s)
    BY <2>1, <1>3, <1>7, <1>8
  <2> QED BY <2>2, <1>3, <1>5, <1>6, <1>10
<1> QED BY <1>9, <1>10

(* t is s with the contents of two positions exchanged.                    *)
Swapped(s, lhs, rhs, t) ==
  \A p \in Positions(s) :
    At(t, p) = IF p = rhs THEN At(s, lhs) ELSE IF p = lhs THEN At(s, rhs) ELSE At(s, p)

(* swap_at keeps what is held.                                             *)
LEMMA SwapHolds ==
  ASSUME NEW s, Good(s), NEW lhs \in Positions(s), NEW rhs \in Positions(s),
         NEW t, t = SwapAt(s, lhs, rhs)
  PROVE  /\ Good(t) /\ t.head = s.head /\ Positions(t) = Positions(s) /\ Size(t) = Size(s)
         /\ Swapped(s, lhs, rhs, t) /\ Held(t) = Held(s)
<1>1. ~ IsTombstone(At(s, lhs)) /\ ~ IsTombstone(At(s, rhs))
  BY GoodFacts
<1>2. /\ Sound(t) /\ t.mode = s.mode /\ t.head = s.head /\ Size(t) = Size(s)
      /\ Positions(t) = Positions(s)
      /\ \A p \in Positions(s) :
           At(t, p) = IF p = rhs THEN At(s, lhs) ELSE IF p = lhs THEN At(s, rhs) ELSE At(s, p)
  BY <1>1, SwapAtSound DEF Good
<1>3. Held(t) = Held(s)
  <2>1. ASSUME NEW p \in Positions(s) PROVE At(t, p) \in Held(s)
    BY <1>2 DEF Held
  <2>2. ASSUME NEW p \in Positions(s) PROVE At(s, p) \in Held(t)
    <3>1. PICK q : q = IF p = rhs THEN lhs ELSE IF p = lhs THEN rhs ELSE p
      OBVIOUS
    <3>2. q \in Positions(s) /\ At(t, q) = At(s, p)
      BY <3>1, <1>2
    <3> QED BY <3>2, <1>2 DEF Held
  <2> QED BY <2>1, <2>2, <1>2 DEF Held
<1> QED BY <1>2, <1>3 DEF Good, Swapped

(* The swap-only erase gives the element its next version and puts it at   *)
(* the head of those that wait to be recycled.                             *)
LEMMA EraseHolds ==
  ASSUME NEW s, Good(s), NEW id \in Held(s), NEW t, t = Erase(s, id)
  PROVE  /\ Good(t) /\ Size(t) = Size(s)
         /\ Held(t) = (Held(s) \ {id}) \cup {NextVersion(id)}
         /\ Live(t) = Live(s) \ {id}
         /\ t.head = IF id \in Live(s) THEN s.head - 1 ELSE s.head
         /\ \A p \in Positions(s) : p < t.head /\ At(s, p) # id => At(t, p) = At(s, p)
<1>1. PICK p \in Positions(s) : At(s, p) = id
  BY DEF Held
<1>2. PICK n, h, k : n = Size(s) /\ h = s.head /\ k = IF p < h THEN h - 1 ELSE h
  OBVIOUS
<1>3. /\ n \in Nat /\ h \in 0 .. n /\ Positions(s) = 0 .. n - 1 /\ p \in 0 .. n - 1
      /\ p \in 0 .. EntityMask - 1
      /\ \A r, q \in Positions(s) : At(s, r).entity = At(s, q).entity => r = q
  BY <1>1, <1>2, GoodFacts
<1>4. k \in 0 .. n - 1 /\ k \in 0 .. n /\ k <= h
  BY <1>2, <1>3
<1>5. Index(s, id) = p
  <2>1. s.sparse[At(s, p).entity] = [entity |-> p, version |-> At(s, p).version]
    BY <1>1, GoodFacts
  <2> QED BY <2>1, <1>1 DEF Index, Elem
<1>6. PICK new, u : new = NextVersion(id) /\ u = Bump(s, new)
  OBVIOUS
<1>7. new \in ValidIdentifiers /\ new.entity = id.entity
  BY <1>6, NextIs DEF Good
<1>8. /\ Good(u) /\ u.head = h /\ Positions(u) = Positions(s) /\ Size(u) = n
      /\ \A r \in Positions(s) : At(u, r) = IF r = p THEN new ELSE At(s, r)
      /\ Held(u) = (Held(s) \ {id}) \cup {new}
  BY <1>1, <1>2, <1>6, <1>7, BumpHolds
<1>9. PICK w : w = [u EXCEPT !.head = k]
  OBVIOUS
<1>10. /\ Good(w) /\ w.head = k /\ Size(w) = n /\ Positions(w) = Positions(s)
       /\ (\A r : At(w, r) = At(u, r)) /\ Held(w) = Held(u)
  <2>1. Sound(u) /\ u.mode = "swap_only" /\ k \in 0 .. Size(u)
    BY <1>4, <1>8 DEF Good
  <2>2. /\ Sound(w) /\ w.mode = u.mode /\ w.head = k
        /\ Size(w) = Size(u) /\ Positions(w) = Positions(u) /\ \A r : At(w, r) = At(u, r)
    BY <2>1, <1>9, HeadChangeSound
  <2>3. Held(w) = Held(u)
    BY <2>2 DEF Held
  <2> QED BY <2>2, <2>3, <1>8 DEF Good
<1>11. t = SwapAt(w, p, k)
  <2>1. t = SwapOnly(s, id)
    BY DEF Erase, Good
  <2> QED BY <2>1, <1>2, <1>5, <1>6, <1>9 DEF SwapOnly
<1>12. k \in Positions(s) /\ p \in Positions(w) /\ k \in Positions(w)
  BY <1>3, <1>4, <1>10
<1>13. /\ Good(t) /\ t.head = w.head /\ Positions(t) = Positions(w) /\ Size(t) = Size(w)
       /\ \A r \in Positions(w) :
            At(t, r) = IF r = k THEN At(w, p) ELSE IF r = p THEN At(w, k) ELSE At(w, r)
       /\ Held(t) = Held(w)
  <2>1. Good(w)
    BY <1>10
  <2>2. p \in Positions(w)
    BY <1>12
  <2>3. k \in Positions(w)
    BY <1>12
  <2>4. Good(t)
    BY ONLY <2>1, <2>2, <2>3, <1>11, SwapHolds
  <2>5. t.head = w.head /\ Positions(t) = Positions(w) /\ Size(t) = Size(w)
    BY ONLY <2>1, <2>2, <2>3, <1>11, SwapHolds
  <2>8. Swapped(w, p, k, t)
    BY ONLY <2>1, <2>2, <2>3, <1>11, SwapHolds
  <2>6. ASSUME NEW r \in Positions(w)
        PROVE  At(t, r) = IF r = k THEN At(w, p) ELSE IF r = p THEN At(w, k) ELSE At(w, r)
    BY <2>8 DEF Swapped
  <2>7. Held(t) = Held(w)
    BY ONLY <2>1, <2>2, <2>3, <1>11, SwapHolds
  <2> QED BY <2>4, <2>5, <2>6, <2>7
<1>14. ASSUME NEW r \in Positions(s)
       PROVE  At(t, r) = IF r = k THEN new ELSE IF r = p THEN At(s, k) ELSE At(s, r)
  <2>1. At(w, p) = new /\ (r # p => At(w, r) = At(s, r)) /\ (k # p => At(w, k) = At(s, k))
    BY <1>8, <1>10, <1>12
  <2> QED BY <2>1, <1>10, <1>13
<1>15. id \in Live(s) <=> p < h
  BY <1>1, <1>2, LiveAt
<1>16. t.head = k
  BY <1>10, <1>13
<1>17. Live(t) = {At(t, r) : r \in 0 .. k - 1} /\ Live(s) = {At(s, r) : r \in 0 .. h - 1}
  BY <1>2, <1>16 DEF Live
<1>18. \A r \in 0 .. k - 1 : r \in Positions(s) /\ r # k /\ r \in 0 .. h - 1
  BY <1>3, <1>4
<1>19. \A r \in Positions(s) : r < k /\ r # p => At(t, r) = At(s, r)
  <2>1. \A r \in Positions(s) : r < k => r # k
    BY <1>3, <1>4
  <2> QED BY <2>1, <1>14
<1>20. Live(t) = Live(s) \ {id}
  <2>1. CASE p < h
    <3>1. k = h - 1 /\ p \in 0 .. h - 1 /\ k \in 0 .. h - 1 /\ k \in Nat
      BY <2>1, <1>2, <1>3, <1>4
    <3>2. ASSUME NEW r \in 0 .. k - 1 PROVE At(t, r) \in Live(s) \ {id}
      <4>1. r \in Positions(s) /\ r # k /\ r \in 0 .. h - 1
        BY <1>18
      <4>2. CASE r = p
        <5>1. At(t, r) = At(s, k) /\ At(s, k) # At(s, p)
          BY <4>1, <4>2, <1>3, <1>12, <1>14
        <5> QED BY <5>1, <3>1, <1>1, <1>17
      <4>3. CASE r # p
        <5>1. At(t, r) = At(s, r) /\ At(s, r) # At(s, p)
          BY <4>1, <4>3, <1>3, <1>14
        <5> QED BY <5>1, <4>1, <1>1, <1>17
      <4> QED BY <4>2, <4>3
    <3>3. ASSUME NEW r \in 0 .. h - 1, At(s, r) # id PROVE At(s, r) \in Live(t)
      <4>1. r # p /\ r \in Positions(s)
        BY <3>3, <1>1, <1>3
      <4>2. CASE r = k
        <5>1. p \in 0 .. k - 1 /\ p # k
          BY <4>1, <4>2, <3>1
        <5>2. At(t, p) = At(s, k)
          BY <5>1, <1>14, <1>1
        <5> QED BY <5>1, <5>2, <4>2, <1>17
      <4>3. CASE r # k
        <5>1. r \in 0 .. k - 1
          BY <4>3, <3>1
        <5>2. At(t, r) = At(s, r)
          BY <4>1, <4>3, <1>14
        <5> QED BY <5>1, <5>2, <1>17
      <4> QED BY <4>2, <4>3
    <3> QED BY <3>2, <3>3, <1>17
  <2>2. CASE ~ (p < h)
    <3>1. k = h
      BY <2>2, <1>2
    <3>2. ASSUME NEW r \in 0 .. h - 1 PROVE At(t, r) = At(s, r) /\ At(s, r) # id
      <4>1. r \in Positions(s) /\ r # p /\ r # k
        BY <2>2, <3>1, <1>3, <1>18
      <4> QED BY <4>1, <1>1, <1>3, <1>14
    <3>3. id \notin Live(s)
      BY <2>2, <1>15
    <3>4. Live(t) = Live(s)
      BY <3>1, <3>2, <1>17
    <3> QED BY <3>3, <3>4
  <2> QED BY <2>1, <2>2
<1> QED BY <1>1, <1>2, <1>6, <1>8, <1>10, <1>13, <1>15, <1>16, <1>19, <1>20

-------------------------------------------------------------------------------
(* Folds: one lemma for the steps of every fold of this module.            *)

(* Step number k of the fold what, from x.                                 *)
Above(id, other) == \/ id.version > other.version
                    \/ id.version = other.version /\ id.entity > other.entity

FoldStep(what, x, k) ==
  CASE what.step = "generate" -> GenerateStep(x)
    [] what.step = "place"    -> TryEmplace(x, what.ids[k], TRUE)
    [] what.step = "erase"    -> Erase(x, At(x, what.first - k))
    [] what.step = "greatest" -> IF Above(what.ids[k], x) THEN what.ids[k] ELSE x

(* h is that fold over the sets of the first n positions.                  *)
IsFoldOf(h, what, n, b) ==
  h = [u \in SUBSET (1 .. n) |->
         IF u = {} THEN b ELSE FoldStep(what, h[u \ {Max(u)}], Max(u))]

(* There is such a function: recursion over the number of positions.       *)
LEMMA StepsExist ==
  ASSUME NEW n \in Nat, NEW what, NEW b
  PROVE  \E h : IsFoldOf(h, what, n, b)
<1> DEFINE T == {k \in Nat : \E h : IsFoldOf(h, what, k, b)}
<1>1. 0 \in T
  <2>1. PICK h : h = [u \in SUBSET (1 .. 0) |-> b]
    OBVIOUS
  <2>2. \A u \in SUBSET (1 .. 0) : u = {}
    OBVIOUS
  <2>3. h = [u \in SUBSET (1 .. 0) |->
               IF u = {} THEN b ELSE FoldStep(what, h[u \ {Max(u)}], Max(u))]
    BY <2>1, <2>2
  <2> QED BY <2>3 DEF IsFoldOf
<1>2. ASSUME NEW k \in 1 .. n, k - 1 \in T PROVE k \in T
  <2>1. PICK g : IsFoldOf(g, what, k - 1, b)
    BY <1>2
  <2>2. \A u \in SUBSET (1 .. k - 1) :
          g[u] = IF u = {} THEN b ELSE FoldStep(what, g[u \ {Max(u)}], Max(u))
    BY <2>1 DEF IsFoldOf
  <2>3. PICK h : h = [u \in SUBSET (1 .. k) |->
                        IF k \in u THEN FoldStep(what, g[u \ {k}], k) ELSE g[u]]
    OBVIOUS
  <2>4. ASSUME NEW u \in SUBSET (1 .. k)
        PROVE  (IF k \in u THEN FoldStep(what, g[u \ {k}], k) ELSE g[u])
                 = IF u = {} THEN b ELSE FoldStep(what, h[u \ {Max(u)}], Max(u))
    <3>1. CASE k \in u
      <4>1. u # {} /\ u \subseteq 1 .. k /\ k \in Nat
        BY <3>1
      <4>2. Max(u) \in u /\ \A x \in u : x <= Max(u)
        BY <4>1, LastExists
      <4>3. Max(u) = k
        <5>1. PICK m : m = Max(u)
          OBVIOUS
        <5>2. m \in 1 .. k /\ k <= m
          BY <3>1, <4>2, <5>1
        <5> QED BY <5>1, <5>2
      <4>4. u \ {k} \in SUBSET (1 .. k) /\ k \notin u \ {k}
        OBVIOUS
      <4>5. h[u \ {k}] = g[u \ {k}]
        BY <4>4, <2>3
      <4> QED BY <3>1, <4>1, <4>3, <4>5
    <3>2. CASE k \notin u
      <4>1. u \in SUBSET (1 .. k - 1)
        BY <3>2
      <4>2. u \ {Max(u)} \in SUBSET (1 .. k) /\ k \notin u \ {Max(u)}
        BY <3>2
      <4>3. h[u \ {Max(u)}] = g[u \ {Max(u)}]
        BY <4>2, <2>3
      <4>4. g[u] = IF u = {} THEN b ELSE FoldStep(what, g[u \ {Max(u)}], Max(u))
        BY <4>1, <2>2
      <4> QED BY <3>2, <4>3, <4>4
    <3> QED BY <3>1, <3>2
  <2>5. h = [u \in SUBSET (1 .. k) |->
               IF u = {} THEN b ELSE FoldStep(what, h[u \ {Max(u)}], Max(u))]
    BY <2>3, <2>4
  <2>6. IsFoldOf(h, what, k, b)
    BY ONLY <2>5 DEF IsFoldOf
  <2> QED BY <2>6
<1>3. \A k \in 0 .. n : k \in T
  <2> HIDE DEF T
  <2> QED BY <1>1, <1>2, CountUp
<1>4. n \in 0 .. n
  OBVIOUS
<1> QED BY <1>3, <1>4

(* Its values on the first positions are its steps.                        *)
LEMMA StepsChain ==
  ASSUME NEW n \in Nat, NEW what, NEW b, NEW h, IsFoldOf(h, what, n, b)
  PROVE  /\ h[1 .. 0] = b
         /\ \A k \in 1 .. n : h[1 .. k] = FoldStep(what, h[1 .. k - 1], k)
<1>1. \A u \in SUBSET (1 .. n) :
        h[u] = IF u = {} THEN b ELSE FoldStep(what, h[u \ {Max(u)}], Max(u))
  BY DEF IsFoldOf
<1>2. h[1 .. 0] = b
  <2>1. 1 .. 0 = {} /\ 1 .. 0 \in SUBSET (1 .. n)
    OBVIOUS
  <2> QED BY <2>1, <1>1
<1>3. ASSUME NEW k \in 1 .. n PROVE h[1 .. k] = FoldStep(what, h[1 .. k - 1], k)
  <2>1. k \in Nat /\ 1 .. k \subseteq 1 .. n /\ 1 .. k # {} /\ 1 .. k \subseteq 1 .. k
    OBVIOUS
  <2>2. Max(1 .. k) \in 1 .. k /\ \A x \in 1 .. k : x <= Max(1 .. k)
    BY <2>1, LastExists
  <2>3. Max(1 .. k) = k
    <3>1. PICK m : m = Max(1 .. k)
      OBVIOUS
    <3>2. m \in 1 .. k /\ k <= m
      BY <2>1, <2>2, <3>1
    <3> QED BY <3>1, <3>2
  <2>4. (1 .. k) \ {k} = 1 .. k - 1
    OBVIOUS
  <2> QED BY <1>1, <2>1, <2>3, <2>4
<1> QED BY <1>2, <1>3

(* The fold of fewer positions has the same values on them.                *)
LEMMA StepsAgree ==
  ASSUME NEW n \in Nat, NEW m \in 0 .. n, NEW what, NEW b,
         NEW h, IsFoldOf(h, what, n, b), NEW g, IsFoldOf(g, what, m, b)
  PROVE  h[1 .. m] = g[1 .. m]
<1> DEFINE T == {k \in 0 .. m : h[1 .. k] = g[1 .. k]}
<1>1. h[1 .. 0] = b /\ \A k \in 1 .. n : h[1 .. k] = FoldStep(what, h[1 .. k - 1], k)
  BY StepsChain
<1>2. m \in Nat /\ \A k \in 1 .. m : k \in 1 .. n /\ k \in 0 .. m
  OBVIOUS
<1>3. g[1 .. 0] = b /\ \A k \in 1 .. m : g[1 .. k] = FoldStep(what, g[1 .. k - 1], k)
  BY <1>2, StepsChain
<1>4. 0 \in T
  BY <1>1, <1>2, <1>3
<1>5. ASSUME NEW k \in 1 .. m, k - 1 \in T PROVE k \in T
  <2>1. h[1 .. k - 1] = g[1 .. k - 1]
    BY <1>5
  <2>2. h[1 .. k] = FoldStep(what, h[1 .. k - 1], k) /\ g[1 .. k] = FoldStep(what, g[1 .. k - 1], k)
    BY <1>1, <1>2, <1>3
  <2> QED BY <2>1, <2>2, <1>2
<1>6. \A k \in 0 .. m : k \in T
  <2> HIDE DEF T
  <2> QED BY <1>2, <1>4, <1>5, CountUp
<1> QED BY <1>2, <1>6

(* generate(first, last) is generate, once for each identifier.            *)
LEMMA GenerateFold ==
  ASSUME NEW n \in Nat
  PROVE  \E h : IsFoldOf(h, [step |-> "generate"], n, Storage) /\ GenerateRun(n) = h[1 .. n]
<1>1. PICK q, what, b : q = [k \in 1 .. n |-> k] /\ what = [step |-> "generate"] /\ b = Storage
  OBVIOUS
<1>2. DOMAIN q = 1 .. n
  BY <1>1
<1>3. \A x, k : FoldStep(what, x, k) = GenerateStep(x)
  BY <1>1 DEF FoldStep
<1>4. PICK f : IsFoldOf(f, what, n, b)
  BY StepsExist
<1>5. f = [u \in SUBSET (1 .. n) |-> IF u = {} THEN b ELSE GenerateStep(f[u \ {Max(u)}])]
  BY <1>3, <1>4 DEF IsFoldOf
<1>6. PICK h :
        /\ h = [u \in SUBSET (1 .. n) |-> IF u = {} THEN b ELSE GenerateStep(h[u \ {Max(u)}])]
        /\ GenerateRun(n) = h[1 .. n]
  BY ZenonT(60), <1>1, <1>2, <1>5 DEF GenerateRun, FoldLeft, MapThenFoldSet
<1>7. IsFoldOf(h, what, n, b)
  <2>1. ASSUME NEW u \in SUBSET (1 .. n)
        PROVE  (IF u = {} THEN b ELSE GenerateStep(h[u \ {Max(u)}]))
                 = IF u = {} THEN b ELSE FoldStep(what, h[u \ {Max(u)}], Max(u))
    BY <1>3
  <2> QED BY <2>1, <1>6 DEF IsFoldOf
<1> QED BY <1>1, <1>6, <1>7

(* A run of n is a run of n - 1 and one more identifier.                   *)
LEMMA GenerateRunIs ==
  /\ GenerateRun(0) = Storage
  /\ \A n \in Nat \ {0} : GenerateRun(n) = GenerateStep(GenerateRun(n - 1))
<1>1. PICK what : what = [step |-> "generate"]
  OBVIOUS
<1>2. GenerateRun(0) = Storage
  <2>1. 0 \in Nat
    OBVIOUS
  <2>2. PICK h : IsFoldOf(h, [step |-> "generate"], 0, Storage) /\ GenerateRun(0) = h[1 .. 0]
    BY ONLY <2>1, GenerateFold
  <2> QED BY <2>1, <2>2, StepsChain
<1>3. ASSUME NEW n \in Nat \ {0} PROVE GenerateRun(n) = GenerateStep(GenerateRun(n - 1))
  <2>1. n \in Nat /\ n - 1 \in Nat /\ n - 1 \in 0 .. n /\ n \in 1 .. n
    OBVIOUS
  <2>2. PICK h : IsFoldOf(h, what, n, Storage) /\ GenerateRun(n) = h[1 .. n]
    BY <1>1, <2>1, GenerateFold
  <2>3. PICK m : m = n - 1
    OBVIOUS
  <2>4. PICK g : IsFoldOf(g, what, m, Storage) /\ GenerateRun(m) = g[1 .. m]
    BY <1>1, <2>1, <2>3, GenerateFold
  <2>5. h[1 .. m] = g[1 .. m]
    BY ONLY <2>1, <2>2, <2>3, <2>4, StepsAgree
  <2>6. h[1 .. n] = FoldStep(what, h[1 .. n - 1], n)
    BY <2>1, <2>2, StepsChain
  <2>7. \A x : FoldStep(what, x, n) = GenerateStep(x)
    BY <1>1 DEF FoldStep
  <2> QED BY <2>2, <2>3, <2>4, <2>5, <2>6, <2>7
<1> QED BY <1>2, <1>3

(* pop of a range of iterators.                                            *)
Pops(h, s, n) ==
  /\ h[1 .. 0] = s /\ PopRange(s, n, 0) = h[1 .. n]
  /\ \A k \in 1 .. n : h[1 .. k] = Erase(h[1 .. k - 1], At(h[1 .. k - 1], n - k))

(* The last elements are erased one by one.                                *)
LEMMA PopFold ==
  ASSUME NEW s, NEW n \in Nat
  PROVE  \E h : Pops(h, s, n)
<1> DEFINE q == [k \in 1 .. n - 0 |-> k]
<1>1. PICK what : what = [step |-> "erase", first |-> n]
  OBVIOUS
<1>2. DOMAIN q = 1 .. n /\ \A k \in 1 .. n : q[k] = k
  OBVIOUS
<1> HIDE DEF q
<1>3. \A x, k : FoldStep(what, x, k) = Erase(x, At(x, n - k))
  BY <1>1 DEF FoldStep
<1>4. PICK f : IsFoldOf(f, what, n, s)
  BY StepsExist
<1>5. \A u \in SUBSET (1 .. n) : u # {} => q[Max(u)] = Max(u)
  <2> SUFFICES ASSUME NEW u \in SUBSET (1 .. n), u # {} PROVE q[Max(u)] = Max(u)
    OBVIOUS
  <2>1. Max(u) \in 1 .. n
    BY LastExists
  <2> QED BY <2>1, <1>2
<1>6. f = [u \in SUBSET (1 .. n) |->
             IF u = {} THEN s ELSE Erase(f[u \ {Max(u)}], At(f[u \ {Max(u)}], n - q[Max(u)]))]
  <2>1. ASSUME NEW u \in SUBSET (1 .. n)
        PROVE  (IF u = {} THEN s ELSE Erase(f[u \ {Max(u)}], At(f[u \ {Max(u)}], n - q[Max(u)])))
                 = IF u = {} THEN s ELSE FoldStep(what, f[u \ {Max(u)}], Max(u))
    BY <1>3, <1>5
  <2> QED BY <2>1, <1>4 DEF IsFoldOf
<1>7. PICK h :
        /\ h = [u \in SUBSET (1 .. n) |->
             IF u = {} THEN s ELSE Erase(h[u \ {Max(u)}], At(h[u \ {Max(u)}], n - q[Max(u)]))]
        /\ PopRange(s, n, 0) = h[1 .. n]
  <2>1. PopRange(s, n, 0) = FoldLeft(LAMBDA t, k : Erase(t, At(t, n - k)), s, q)
    BY DEF q, PopRange
  <2> QED BY <2>1, <1>2, <1>6 DEF FoldLeft, MapThenFoldSet
<1>8. IsFoldOf(h, what, n, s)
  <2>1. ASSUME NEW u \in SUBSET (1 .. n)
        PROVE  (IF u = {} THEN s ELSE Erase(h[u \ {Max(u)}], At(h[u \ {Max(u)}], n - q[Max(u)])))
                 = IF u = {} THEN s ELSE FoldStep(what, h[u \ {Max(u)}], Max(u))
    BY <1>3, <1>5
  <2> QED BY <2>1, <1>7 DEF IsFoldOf
<1>9. /\ h[1 .. 0] = s
      /\ \A k \in 1 .. n : h[1 .. k] = FoldStep(what, h[1 .. k - 1], k)
  BY <1>8, StepsChain
<1>10. \A k \in 1 .. n : h[1 .. k] = Erase(h[1 .. k - 1], At(h[1 .. k - 1], n - k))
  BY <1>3, <1>9
<1> QED BY <1>7, <1>9, <1>10 DEF Pops

(* Loading the identifiers one by one.                                     *)
Loads(h, s, ids) ==
  /\ h[1 .. 0] = s /\ PushRange(s, ids) = h[1 .. Len(ids)]
  /\ \A k \in 1 .. Len(ids) : h[1 .. k] = TryEmplace(h[1 .. k - 1], ids[k], TRUE)

(* They are placed one by one.                                             *)
LEMMA PushFold ==
  ASSUME NEW s, NEW S, NEW ids \in Seq(S)
  PROVE  \E h : Loads(h, s, ids)
<1>1. PICK n, what : n = Len(ids) /\ what = [step |-> "place", ids |-> ids]
  OBVIOUS
<1>2. DOMAIN ids = 1 .. n /\ n \in Nat
  BY <1>1
<1>3. \A x, k : FoldStep(what, x, k) = TryEmplace(x, ids[k], TRUE)
  BY <1>1 DEF FoldStep
<1>4. PICK f : IsFoldOf(f, what, n, s)
  BY <1>2, StepsExist
<1>5. f = [u \in SUBSET (1 .. n) |->
             IF u = {} THEN s ELSE TryEmplace(f[u \ {Max(u)}], ids[Max(u)], TRUE)]
  BY <1>3, <1>4 DEF IsFoldOf
<1>6. PICK h :
        /\ h = [u \in SUBSET (1 .. n) |->
             IF u = {} THEN s ELSE TryEmplace(h[u \ {Max(u)}], ids[Max(u)], TRUE)]
        /\ PushRange(s, ids) = h[1 .. n]
  BY <1>2, <1>5 DEF PushRange, FoldLeft, MapThenFoldSet
<1>7. IsFoldOf(h, what, n, s)
  <2>1. ASSUME NEW u \in SUBSET (1 .. n)
        PROVE  (IF u = {} THEN s ELSE TryEmplace(h[u \ {Max(u)}], ids[Max(u)], TRUE))
                 = IF u = {} THEN s ELSE FoldStep(what, h[u \ {Max(u)}], Max(u))
    BY <1>3
  <2> QED BY <2>1, <1>6 DEF IsFoldOf
<1>8. /\ h[1 .. 0] = s
      /\ \A k \in 1 .. n : h[1 .. k] = FoldStep(what, h[1 .. k - 1], k)
  BY <1>2, <1>7, StepsChain
<1>9. \A k \in 1 .. n : h[1 .. k] = TryEmplace(h[1 .. k - 1], ids[k], TRUE)
  BY <1>3, <1>8
<1> QED BY <1>1, <1>6, <1>8, <1>9 DEF Loads

(* The greatest identifier is one of them, if there is any.                *)
LEMMA GreatestIs ==
  ASSUME NEW s, s.packed \in Seq(ValidIdentifiers)
  PROVE  Greatest(s) \in ValidIdentifiers \cup {Construct(0, 0)}
<1> DEFINE ids == s.packed
           b   == Construct(0, 0)
<1>1. PICK n, what : n = Len(ids) /\ what = [step |-> "greatest", ids |-> ids]
  OBVIOUS
<1>2. DOMAIN ids = 1 .. n /\ n \in Nat /\ \A k \in 1 .. n : ids[k] \in ValidIdentifiers
  BY <1>1
<1> HIDE DEF ids, b
<1>3. \A x, k : FoldStep(what, x, k) = IF Above(ids[k], x) THEN ids[k] ELSE x
  BY <1>1 DEF FoldStep
<1>4. PICK f : IsFoldOf(f, what, n, b)
  BY <1>2, StepsExist
<1>5. f = [u \in SUBSET (1 .. n) |->
             IF u = {} THEN b
             ELSE IF Above(ids[Max(u)], f[u \ {Max(u)}]) THEN ids[Max(u)] ELSE f[u \ {Max(u)}]]
  BY <1>3, <1>4 DEF IsFoldOf
<1>6. PICK h :
        /\ h = [u \in SUBSET (1 .. n) |->
             IF u = {} THEN b
             ELSE IF Above(ids[Max(u)], h[u \ {Max(u)}]) THEN ids[Max(u)] ELSE h[u \ {Max(u)}]]
        /\ Greatest(s) = h[1 .. n]
  BY <1>2, <1>5 DEF ids, b, Greatest, FoldLeft, MapThenFoldSet, Above
<1>7. IsFoldOf(h, what, n, b)
  BY <1>3, <1>6 DEF IsFoldOf
<1>8. /\ h[1 .. 0] = b
      /\ \A k \in 1 .. n : h[1 .. k] = IF Above(ids[k], h[1 .. k - 1]) THEN ids[k] ELSE h[1 .. k - 1]
  BY <1>2, <1>3, <1>7, StepsChain
<1> DEFINE T == {k \in 0 .. n : h[1 .. k] \in ValidIdentifiers \cup {b}}
<1>9. 0 \in T
  BY <1>2, <1>8
<1>10. ASSUME NEW k \in 1 .. n, k - 1 \in T PROVE k \in T
  <2>1. h[1 .. k] = IF Above(ids[k], h[1 .. k - 1]) THEN ids[k] ELSE h[1 .. k - 1]
    BY <1>8
  <2>2. h[1 .. k - 1] \in ValidIdentifiers \cup {b}
    BY <1>10
  <2>3. ids[k] \in ValidIdentifiers
    BY <1>2
  <2>4. h[1 .. k] \in ValidIdentifiers \cup {b}
    BY <2>1, <2>2, <2>3
  <2>5. k \in 0 .. n
    BY <1>2
  <2> QED BY <2>4, <2>5
<1>11. \A k \in 0 .. n : k \in T
  <2> HIDE DEF T
  <2> QED BY <1>2, <1>9, <1>10, CountUp
<1>12. n \in 0 .. n
  BY <1>2
<1> QED BY <1>6, <1>11, <1>12 DEF b

-------------------------------------------------------------------------------
(* The inductive invariant.                                                *)

(* The entities between the start and a placeholder are known.             *)
Covered(s, from, to) == to \in 0 .. EntityMask /\ from .. to - 1 \subseteq Known(s)

(* What is remembered of an entity the set holds are the versions before   *)
(* the one it has, or waits with; of another entity it is nothing.         *)
Remembers(s, r) ==
  /\ r \in [AllEntities -> Seq(ValidIdentifiers)]
  /\ \A x \in Held(s) : Recalls(r[x.entity], x.entity, x.version)
  /\ \A e \in AllEntities : e \notin Known(s) => r[e] = << >>

Inv ==
  /\ Good(set)
  /\ Covered(set, start, placeholder) /\ start \in 0 .. EntityMask
  /\ Remembers(set, retired)

(* Generating: the storage, and the identifiers that were generated.       *)
GoodRun(g) ==
  /\ Good(g.set)
  /\ Covered(g.set, start, g.placeholder)
  /\ Remembers(g.set, retired)
  /\ Live(g.set) = Live(set) \cup g.ids
  /\ g.ids \subseteq ValidIdentifiers
  /\ \A x \in g.ids, y \in Live(set) : x.entity # y.entity
  /\ \A x \in g.ids : x \notin ToSet(retired[x.entity])

(* Nothing to recall.                                                      *)
LEMMA RecallsNothing ==
  ASSUME NEW e, NEW v
  PROVE  Recalls(<< >>, e, v) /\ ToSet(<< >>) = {}
<1>1. << >> \in Seq(ValidIdentifiers) /\ Len(<< >>) = 0
  OBVIOUS
<1> QED BY <1>1, VersionMaskAssumption DEF Recalls, ToSet

(* One more identifier.                                                    *)
LEMMA PlacedRun ==
  ASSUME NEW g, GoodRun(g), start \in 0 .. EntityMask,
         NEW id \in ValidIdentifiers, NotLive(g.set, id.entity),
         Recalls(retired[id.entity], id.entity, id.version),
         NEW to \in 0 .. EntityMask,
         start .. to - 1 \subseteq Known(g.set) \cup {id.entity},
         NEW s, s = TryEmplace(g.set, id, TRUE),
         NEW t, t = [set |-> s, placeholder |-> to, ids |-> g.ids \cup {At(s, s.head - 1)}]
  PROVE  GoodRun(t)
<1>1. PICK u : u = g.set
  OBVIOUS
<1>2. /\ Good(s) /\ s.head = u.head + 1 /\ At(s, u.head) = id
      /\ Held(s) = {x \in Held(u) : x.entity # id.entity} \cup {id}
      /\ Live(s) = Live(u) \cup {id}
  BY ZenonT(60), <1>1, EmplaceHolds DEF GoodRun
<1>3. s.head - 1 = u.head
  <2>1. PICK k : k = s.head
    OBVIOUS
  <2>2. u.head \in Nat
    BY <1>1, GoodFacts DEF GoodRun
  <2> QED BY ONLY <2>1, <2>2, <1>2
<1>4. t.set = s /\ t.placeholder = to /\ t.ids = g.ids \cup {id}
  BY <1>2, <1>3
<1>5. Known(s) = Known(u) \cup {id.entity}
  <2>1. Known(s) = {x.entity : x \in Held(s)} /\ Known(u) = {x.entity : x \in Held(u)}
    BY <1>1, <1>2, KnownIs DEF GoodRun
  <2> QED BY <2>1, <1>2
<1>6. Covered(s, start, to)
  BY <1>1, <1>5 DEF Covered
<1>7. Remembers(s, retired)
  <2>1. /\ retired \in [AllEntities -> Seq(ValidIdentifiers)]
        /\ \A x \in Held(u) : Recalls(retired[x.entity], x.entity, x.version)
        /\ \A e \in AllEntities : e \notin Known(u) => retired[e] = << >>
    BY <1>1 DEF GoodRun, Remembers
  <2> QED BY <2>1, <1>2, <1>5 DEF Remembers
<1>8. id \notin ToSet(retired[id.entity])
  <2>1. PICK e, v : e = id.entity /\ v = id.version
    OBVIOUS
  <2>2. v \in 0 .. VersionMask - 1 /\ id = [entity |-> e, version |-> v]
    BY <2>1 DEF ValidIdentifiers
  <2>3. [entity |-> e, version |-> v] \notin ToSet(retired[e])
    BY <2>1, <2>2, NotRecalled
  <2> QED BY <2>1, <2>2, <2>3
<1>9. Live(set) \subseteq Live(u)
  BY <1>1 DEF GoodRun
<1>10. \A y \in Live(set) : id.entity # y.entity
  BY <1>1, <1>9 DEF NotLive
<1> QED BY <1>1, <1>2, <1>4, <1>6, <1>7, <1>8, <1>10 DEF GoodRun

(* next() finds an entity the set does not know, and skips only entities   *)
(* it does.                                                                *)
LEMMA NextFreshIs ==
  ASSUME NEW s, Good(s), NEW from \in 0 .. EntityMask, Fresh(s, from) # {},
         NEW id, id = NextFresh(s, from)
  PROVE  /\ id \in ValidIdentifiers /\ id.entity \notin Known(s) /\ from <= id.entity
         /\ \A e \in from .. id.entity - 1 : e \in Known(s)
<1>1. \A e \in from .. EntityMask - 1 : e \in Fresh(s, from) <=> e \notin Known(s)
  <2> SUFFICES ASSUME NEW e \in from .. EntityMask - 1
               PROVE  e \in Fresh(s, from) <=> e \notin Known(s)
    OBVIOUS
  <2>1. PICK x : x = [entity |-> e, version |-> 0]
    OBVIOUS
  <2>2. x.entity = e
    BY <2>1
  <2>3. e \in Known(s) => Current(s, x) # VersionMask
    BY <2>2, SparseIs
  <2>4. e \notin Known(s) => Current(s, x) = VersionMask
    BY <2>2, SparseIs
  <2> QED BY <2>1, <2>3, <2>4 DEF Fresh
<1>2. PICK m, T : m = Min(T) /\ T = Fresh(s, from)
  OBVIOUS
<1>3. T \subseteq from .. EntityMask - 1
  BY <1>2 DEF Fresh
<1>4. T \subseteq Nat
  BY <1>3
<1>5. m \in T /\ \A x \in T : m <= x
  BY <1>2, <1>4, LeastExists
<1>6. id = [entity |-> m, version |-> 0]
  BY <1>2 DEF NextFresh
<1>7. m \in from .. EntityMask - 1
  BY <1>3, <1>5
<1>8. ASSUME NEW e \in from .. m - 1 PROVE e \in Known(s)
  <2>0. m \in 0 .. EntityMask - 1 /\ from <= m
    BY <1>7
  <2>1. e \in from .. EntityMask - 1 /\ ~ (m <= e)
    BY <2>0, <1>8, EntityMaskAssumption
  <2>2. e \notin T
    BY <2>1, <1>5
  <2> QED BY <2>1, <2>2, <1>1, <1>2
<1>9. m \in 0 .. EntityMask - 1 /\ from <= m
  BY <1>7
<1>10. id \in ValidIdentifiers
  BY <1>6, <1>9, VersionMaskAssumption DEF ValidIdentifiers
<1>11. id.entity = m
  BY <1>6
<1> QED BY <1>1, <1>2, <1>5, <1>7, <1>8, <1>9, <1>10, <1>11

(* generate keeps the run good.                                            *)
LEMMA GenerateStepGood ==
  ASSUME NEW g, GoodRun(g), start \in 0 .. EntityMask, CanGenerate(g)
  PROVE  GoodRun(GenerateStep(g))
<1>1. PICK u, h, from : u = g.set /\ h = u.head /\ from = g.placeholder
  OBVIOUS
<1>2. /\ Good(u) /\ Covered(u, start, from) /\ Remembers(u, retired)
  BY <1>1 DEF GoodRun
<1>3. /\ Size(u) \in Nat /\ h \in 0 .. Size(u) /\ Positions(u) = 0 .. Size(u) - 1
  BY <1>1, <1>2, GoodFacts
<1>4. CASE h < Size(u)
  <2>1. PICK id, s : id = At(u, h) /\ s = TryEmplace(u, id, TRUE)
    OBVIOUS
  <2>2. GenerateStep(g) = [set |-> s, placeholder |-> from, ids |-> g.ids \cup {At(s, s.head - 1)}]
    BY <1>1, <1>4, <2>1 DEF GenerateStep
  <2>3. h \in Positions(u)
    BY <1>3, <1>4
  <2>4. id \in ValidIdentifiers /\ id \in Held(u)
    BY <1>2, <2>1, <2>3, GoodFacts DEF Held
  <2>5. id \notin Live(u)
    <3>1. ~ (h < u.head)
      BY <1>1, <1>3
    <3> QED BY <3>1, <1>2, <2>1, <2>3, LiveAt
  <2>6. NotLive(u, id.entity)
    BY <1>2, <2>4, <2>5, KnownIs DEF NotLive
  <2>7. Recalls(retired[id.entity], id.entity, id.version)
    BY <1>2, <2>4 DEF Remembers
  <2>8. from \in 0 .. EntityMask /\ start .. from - 1 \subseteq Known(u) \cup {id.entity}
    BY <1>2 DEF Covered
  <2>10. PICK t : t = GenerateStep(g)
    OBVIOUS
  <2>11. t = [set |-> s, placeholder |-> from, ids |-> g.ids \cup {At(s, s.head - 1)}]
    BY <2>2, <2>10
  <2>12. NotLive(g.set, id.entity) /\ s = TryEmplace(g.set, id, TRUE)
    BY <1>1, <2>1, <2>6
  <2>13. from \in 0 .. EntityMask /\ start .. from - 1 \subseteq Known(g.set) \cup {id.entity}
    BY <1>1, <2>8
  <2>14. id \in ValidIdentifiers
    BY <2>4
  <2>15. GoodRun(t)
    BY ONLY GoodRun(g), start \in 0 .. EntityMask, <2>7, <2>11, <2>12, <2>13, <2>14, PlacedRun
  <2> QED BY <2>10, <2>15
<1>5. CASE ~ (h < Size(u))
  <2>1. PICK id, s, to : /\ id = NextFresh(u, from) /\ s = TryEmplace(u, id, TRUE)
                         /\ to = id.entity + 1
    OBVIOUS
  <2>2. GenerateStep(g) = [set |-> s, placeholder |-> to, ids |-> g.ids \cup {At(s, s.head - 1)}]
    BY <1>1, <1>5, <2>1 DEF GenerateStep
  <2>3. Fresh(u, from) # {} /\ from \in 0 .. EntityMask
    BY <1>1, <1>2, <1>5 DEF CanGenerate, Covered
  <2>4. /\ id \in ValidIdentifiers /\ id.entity \notin Known(u) /\ from <= id.entity
        /\ \A e \in from .. id.entity - 1 : e \in Known(u)
    BY <1>2, <2>1, <2>3, NextFreshIs
  <2>5. id.entity \in 0 .. EntityMask - 1 /\ id.entity \in AllEntities
    BY <2>4 DEF ValidIdentifiers, AllEntities
  <2>6. NotLive(u, id.entity)
    BY <1>2, <2>4, KnownIs DEF NotLive
  <2>7. Recalls(retired[id.entity], id.entity, id.version)
    <3>1. retired[id.entity] = << >>
      BY <1>2, <2>4, <2>5 DEF Remembers
    <3> QED BY <3>1, RecallsNothing
  <2>8. to \in 0 .. EntityMask
    BY <2>1, <2>5, EntityMaskAssumption
  <2>9. start .. to - 1 \subseteq Known(u) \cup {id.entity}
    <3>1. \A e \in start .. to - 1 : e \in start .. from - 1 \/ e \in from .. id.entity - 1 \/ e = id.entity
      BY <2>1, <2>3, <2>5
    <3> QED BY <3>1, <2>4, <1>2 DEF Covered
  <2>10. PICK t : t = GenerateStep(g)
    OBVIOUS
  <2>11. t = [set |-> s, placeholder |-> to, ids |-> g.ids \cup {At(s, s.head - 1)}]
    BY <2>2, <2>10
  <2>12. NotLive(g.set, id.entity) /\ s = TryEmplace(g.set, id, TRUE)
    BY <1>1, <2>1, <2>6
  <2>13. to \in 0 .. EntityMask /\ start .. to - 1 \subseteq Known(g.set) \cup {id.entity}
    BY <1>1, <2>8, <2>9
  <2>14. id \in ValidIdentifiers
    BY <2>4
  <2>15. GoodRun(t)
    BY ONLY GoodRun(g), start \in 0 .. EntityMask, <2>7, <2>11, <2>12, <2>13, <2>14, PlacedRun
  <2> QED BY <2>10, <2>15
<1> QED BY <1>4, <1>5

(* generate for a range, while identifiers are left.                       *)
LEMMA GenerateRunGood ==
  ASSUME Inv, NEW n \in Nat, \A k \in 0 .. n - 1 : CanGenerate(GenerateRun(k))
  PROVE  GoodRun(GenerateRun(n))
<1>0. GoodRun(Storage)
  BY DEF Inv, GoodRun, Storage
<1> DEFINE T == {k \in 0 .. n : GoodRun(GenerateRun(k))}
<1>1. 0 \in T
  BY <1>0, GenerateRunIs
<1>2. ASSUME NEW k \in 1 .. n, k - 1 \in T PROVE k \in T
  <2>1. PICK g : g = GenerateRun(k - 1)
    OBVIOUS
  <2>2. GoodRun(g) /\ k - 1 \in 0 .. n - 1 /\ k \in Nat \ {0} /\ k \in 0 .. n
    BY <1>2, <2>1
  <2>3. CanGenerate(g)
    BY <2>1, <2>2
  <2>4. GenerateRun(k) = GenerateStep(g)
    BY <2>1, <2>2, GenerateRunIs
  <2>5. start \in 0 .. EntityMask
    BY DEF Inv
  <2> QED BY <2>2, <2>3, <2>4, <2>5, GenerateStepGood
<1>3. \A k \in 0 .. n : k \in T
  <2> HIDE DEF T
  <2> QED BY <1>1, <1>2, CountUp
<1> QED BY <1>3

-------------------------------------------------------------------------------
(* Snapshots.                                                              *)

(* t holds the first k identifiers of s, in their order, all in use.       *)
LoadedSoFar(s, k, t) ==
  /\ Good(t) /\ Size(t) = k /\ t.head = k
  /\ \A p \in 0 .. k - 1 : At(t, p) = At(s, p)

(* One more identifier is loaded.                                          *)
LEMMA LoadOne ==
  ASSUME NEW s, Good(s), NEW k \in 1 .. Size(s), NEW t, LoadedSoFar(s, k - 1, t),
         NEW u, u = TryEmplace(t, s.packed[k], TRUE)
  PROVE  LoadedSoFar(s, k, u)
<1>1. PICK n, m, id : n = Size(s) /\ m = k - 1 /\ id = At(s, m)
  OBVIOUS
<1>2. /\ n \in Nat /\ Positions(s) = 0 .. n - 1
      /\ \A p \in Positions(s) : At(s, p) \in ValidIdentifiers
      /\ \A p, q \in Positions(s) : At(s, p).entity = At(s, q).entity => p = q
  BY <1>1, GoodFacts
<1>3. m \in 0 .. n - 1 /\ m \in Positions(s) /\ m + 1 = k /\ m \in Nat
  BY <1>1, <1>2
<1>4. s.packed[k] = id /\ id \in ValidIdentifiers
  BY <1>1, <1>2, <1>3 DEF At
<1>5. Good(t) /\ Size(t) = m /\ t.head = m /\ \A p \in 0 .. m - 1 : At(t, p) = At(s, p)
  BY <1>1 DEF LoadedSoFar
<1>6. Positions(t) = 0 .. m - 1
  BY <1>5 DEF Positions
<1>7. NotLive(t, id.entity)
  <2>1. ASSUME NEW p \in 0 .. t.head - 1 PROVE At(t, p).entity # id.entity
    <3>1. p \in 0 .. m - 1
      BY <1>5
    <3>2. p \in Positions(s) /\ p # m /\ At(t, p) = At(s, p)
      BY <3>1, <1>2, <1>3, <1>5
    <3> QED BY <3>2, <1>1, <1>2, <1>3
  <2> QED BY <2>1 DEF NotLive, Live
<1>8. Good(u)
  BY <1>4, <1>5, <1>7, EmplaceHolds
<1>9. PICK q : Placed(t, id, q, u)
  BY <1>4, <1>5, <1>7, MayPlace, EmplacePlaces
<1>10. /\ q \in 0 .. m /\ m <= q /\ u.head = m + 1 /\ Size(u) = IF q = m THEN m + 1 ELSE m
       /\ \A p \in Positions(u) : At(u, p) = IF p = m THEN id
                                              ELSE IF p = q THEN At(t, m) ELSE At(t, p)
  BY <1>5, <1>9 DEF Placed
<1>11. q = m
  BY <1>3, <1>10
<1>12. Size(u) = k /\ u.head = k /\ Positions(u) = 0 .. k - 1
  BY <1>3, <1>10, <1>11 DEF Positions
<1>13. ASSUME NEW p \in 0 .. k - 1 PROVE At(u, p) = At(s, p)
  <2>1. p = m \/ (p # m /\ p \in 0 .. m - 1)
    BY <1>1, <1>3
  <2>2. p \in Positions(u)
    BY <1>12
  <2> QED BY <2>1, <2>2, <1>1, <1>5, <1>10, <1>11
<1> QED BY <1>8, <1>12, <1>13 DEF LoadedSoFar

(* A snapshot loads the same packed array and head.                        *)
LEMMA LoadedIs ==
  ASSUME NEW s, Good(s), NEW t, t = Loaded(s)
  PROVE  Good(t) /\ t.packed = s.packed /\ t.head = s.head
<1>1. PICK n, b, ids, x : /\ n = Size(s) /\ b = EmptySet("swap_only") /\ ids = s.packed
                          /\ x = PushRange(b, ids)
  OBVIOUS
<1>2. n \in Nat /\ s.head \in 0 .. n /\ ids \in Seq(Identifiers) /\ Len(ids) = n
  <2>1. s.packed \in Seq(Identifiers)
    BY PositionsFit DEF Good, SetsOver
  <2> QED BY <2>1, <1>1, GoodFacts DEF Size
<1>3. PICK h : /\ h[1 .. 0] = b /\ x = h[1 .. n]
               /\ \A k \in 1 .. n : h[1 .. k] = TryEmplace(h[1 .. k - 1], ids[k], TRUE)
  <2>1. PICK h : Loads(h, b, ids)
    BY <1>2, PushFold
  <2>2. Len(ids) = n /\ x = PushRange(b, ids)
    BY <1>1, <1>2
  <2> QED BY <2>1, <2>2 DEF Loads
<1> DEFINE T == {k \in 0 .. n : LoadedSoFar(s, k, h[1 .. k])}
<1>4. 0 \in T
  <2>1. Sound(b) /\ b.mode = "swap_only" /\ Size(b) = 0 /\ b.head = 0
    BY <1>1, EmptySound DEF Modes, EmptySet, PolicyToHead
  <2>2. Held(b) = {}
    BY <2>1 DEF Held, Positions
  <2> QED BY <2>1, <2>2, <1>2, <1>3 DEF LoadedSoFar, Good
<1>5. ASSUME NEW k \in 1 .. n, k - 1 \in T PROVE k \in T
  <2>1. PICK g, u : g = h[1 .. k - 1] /\ u = h[1 .. k]
    OBVIOUS
  <2>2. LoadedSoFar(s, k - 1, g) /\ u = TryEmplace(g, s.packed[k], TRUE) /\ k \in 1 .. Size(s)
    BY <1>1, <1>3, <1>5, <2>1
  <2>3. LoadedSoFar(s, k, u)
    BY <2>2, LoadOne
  <2> QED BY <2>1, <2>3
<1>6. \A k \in 0 .. n : k \in T
  <2> HIDE DEF T
  <2> QED BY <1>2, <1>4, <1>5, CountUp
<1>7. LoadedSoFar(s, n, x)
  BY <1>2, <1>3, <1>6
<1>8. PICK k : k = s.head
  OBVIOUS
<1>9. t = [x EXCEPT !.head = k]
  BY <1>1, <1>8 DEF Loaded
<1>10. Sound(x) /\ x.mode = "swap_only" /\ k \in 0 .. Size(x) /\ Size(x) = n
  BY <1>2, <1>7, <1>8 DEF LoadedSoFar, Good
<1>11. /\ Sound(t) /\ t.mode = "swap_only" /\ t.head = k
       /\ Size(t) = n /\ \A p : At(t, p) = At(x, p)
  BY <1>9, <1>10, HeadChangeSound
<1>12. \A p \in 0 .. n - 1 : At(t, p) = At(s, p)
  BY <1>7, <1>11 DEF LoadedSoFar
<1>13. t.packed = s.packed
  <2>1. t.packed \in Seq(Identifiers) /\ Len(t.packed) = n
    BY <1>11, PositionsFit DEF SetsOver, Size
  <2>2. ASSUME NEW i \in 1 .. n PROVE t.packed[i] = ids[i]
    <3>1. PICK p : p = i - 1
      OBVIOUS
    <3>2. p \in 0 .. n - 1 /\ p + 1 = i
      BY ONLY <3>1, <1>2, i \in 1 .. n
    <3> QED BY <3>2, <1>1, <1>12 DEF At
  <2> QED BY <2>1, <2>2, <1>1, <1>2
<1>14. Held(t) = Held(s)
  BY <1>13 DEF Held, At, Positions, Size
<1> QED BY <1>8, <1>11, <1>13, <1>14 DEF Good

(* Sets with the same packed array and head answer alike.                  *)
LEMMA SameAnswers ==
  ASSUME NEW s, Good(s), NEW t, Good(t), t.packed = s.packed, t.head = s.head
  PROVE  /\ Held(t) = Held(s) /\ Live(t) = Live(s) /\ Known(t) = Known(s) /\ Size(t) = Size(s)
         /\ \A id \in ValidIdentifiers : SetContains(t, id) <=> SetContains(s, id)
<1>1. Held(t) = Held(s) /\ Live(t) = Live(s) /\ Known(t) = Known(s) /\ Size(t) = Size(s)
  BY DEF Held, Live, Known, At, Positions, Size
<1> QED BY <1>1, ContainsIs

-------------------------------------------------------------------------------
(* Erasing the range of each().                                            *)

(* The last k identifiers in use.                                          *)
Gone(s, k) == {At(s, p) : p \in s.head - k .. s.head - 1}

(* t is s after they were erased.                                          *)
ErasedSoFar(s, k, t) ==
  /\ Good(t) /\ t.head = s.head - k
  /\ \A p \in 0 .. s.head - k - 1 : At(t, p) = At(s, p)
  /\ Held(t) = {IF y \in Gone(s, k) THEN NextVersion(y) ELSE y : y \in Held(s)}

(* One more is erased.                                                     *)
LEMMA EraseOneMore ==
  ASSUME NEW s, Good(s), NEW k \in 1 .. s.head, NEW t, ErasedSoFar(s, k - 1, t),
         NEW u, u = Erase(t, At(t, s.head - k))
  PROVE  ErasedSoFar(s, k, u)
<1>1. PICK n, m, id : n = s.head /\ m = n - k /\ id = At(s, m)
  OBVIOUS
<1>2. /\ Size(s) \in Nat /\ n \in 0 .. Size(s) /\ Positions(s) = 0 .. Size(s) - 1
      /\ \A p, q \in Positions(s) : At(s, p).entity = At(s, q).entity => p = q
  BY <1>1, GoodFacts
<1>3. n \in Nat /\ k \in 1 .. n /\ m \in 0 .. n - 1 /\ n - (k - 1) = m + 1 /\ n - k = m /\ m \in Nat
  BY <1>1, <1>2
<1>4. /\ Good(t) /\ t.head = m + 1 /\ \A p \in 0 .. m : At(t, p) = At(s, p)
      /\ Held(t) = {IF y \in Gone(s, k - 1) THEN NextVersion(y) ELSE y : y \in Held(s)}
  <2>1. n - (k - 1) - 1 = m
    BY <1>3
  <2> QED BY <2>1, <1>1, <1>3 DEF ErasedSoFar
<1>5. Gone(s, k - 1) = {At(s, p) : p \in m + 1 .. n - 1} /\ Gone(s, k) = {At(s, p) : p \in m .. n - 1}
  BY <1>1, <1>3 DEF Gone
<1>6. /\ m \in Positions(s) /\ \A p \in m + 1 .. n - 1 : p \in Positions(s) /\ p # m
      /\ \A p \in 0 .. m : p \in Positions(s)
  BY <1>2, <1>3
<1>7. Gone(s, k) = Gone(s, k - 1) \cup {id} /\ id \notin Gone(s, k - 1)
  <2>1. \A p : p \in m .. n - 1 <=> p \in m + 1 .. n - 1 \/ p = m
    BY <1>3
  <2>2. {At(s, p) : p \in m .. n - 1} = {At(s, p) : p \in m + 1 .. n - 1} \cup {At(s, m)}
    BY ONLY <2>1
  <2>3. \A p \in m + 1 .. n - 1 : At(s, p) # At(s, m)
    BY <1>2, <1>6
  <2> QED BY <2>2, <2>3, <1>1, <1>5
<1>8. id \in Held(s) /\ \A y \in Held(s) : y.entity = id.entity => y = id
  <2>1. id \in Held(s)
    BY <1>1, <1>6 DEF Held
  <2> QED BY <2>1, KnownIs
<1>9. id \in Held(t)
  BY <1>4, <1>7, <1>8
<1>10. u = Erase(t, id)
  <2>1. At(t, m) = id /\ s.head - k = m
    BY <1>1, <1>3, <1>4
  <2> QED BY <2>1
<1>11. id \in Live(t)
  <2>1. m \in 0 .. t.head - 1 /\ At(t, m) = id
    <3>1. t.head - 1 = m
      <4>1. PICK h : h = t.head
        OBVIOUS
      <4> QED BY ONLY <4>1, <1>3, <1>4
    <3> QED BY <3>1, <1>1, <1>3, <1>4
  <2> QED BY <2>1 DEF Live
<1>12. /\ Good(u) /\ Held(u) = (Held(t) \ {id}) \cup {NextVersion(id)}
       /\ u.head = t.head - 1
       /\ \A p \in Positions(t) : p < u.head /\ At(t, p) # id => At(u, p) = At(t, p)
  BY <1>4, <1>9, <1>10, <1>11, EraseHolds
<1>13. u.head = m
  <2>1. PICK h : h = t.head
    OBVIOUS
  <2>2. h - 1 = m
    BY ONLY <2>1, <1>3, <1>4
  <2> QED BY <2>1, <2>2, <1>12
<1>14. ASSUME NEW p \in 0 .. m - 1 PROVE At(u, p) = At(s, p)
  <2>1. p \in 0 .. m /\ p # m /\ p < m
    BY <1>3
  <2>2. p \in Positions(t)
    <3>1. t.head \in 0 .. Size(t) /\ Positions(t) = 0 .. Size(t) - 1 /\ Size(t) \in Nat
      BY <1>4, GoodFacts
    <3>2. PICK z \in Nat : z = Size(t)
      BY <3>1
    <3>3. m + 1 \in 0 .. z
      BY <3>1, <3>2, <1>4
    <3>4. p \in 0 .. z - 1
      BY ONLY <2>1, <3>2, <3>3, <1>3
    <3> QED BY <3>1, <3>2, <3>4
  <2>3. At(t, p) = At(s, p) /\ At(s, p) # At(s, m)
    BY <2>1, <1>2, <1>4, <1>6
  <2> QED BY <2>1, <2>2, <2>3, <1>1, <1>12, <1>13
<1>15. Held(u) = {IF y \in Gone(s, k) THEN NextVersion(y) ELSE y : y \in Held(s)}
  <2>1. \A y \in Held(s) : y # id => (y \in Gone(s, k) <=> y \in Gone(s, k - 1))
    BY <1>7
  <2>2. \A y \in Held(s) : NextVersion(y).entity = y.entity
    BY NextIs DEF Good
  <2>3. ASSUME NEW y \in Held(s), y # id
        PROVE  (IF y \in Gone(s, k - 1) THEN NextVersion(y) ELSE y) # id
    BY <2>2, <2>3, <1>8
  <2>4. ASSUME NEW x \in Held(u)
        PROVE  \E y \in Held(s) : x = IF y \in Gone(s, k) THEN NextVersion(y) ELSE y
    <3>1. CASE x = NextVersion(id)
      BY <3>1, <1>7, <1>8
    <3>2. CASE x # NextVersion(id)
      <4>1. x \in Held(t) /\ x # id
        BY <3>2, <1>12
      <4>2. PICK y \in Held(s) : x = IF y \in Gone(s, k - 1) THEN NextVersion(y) ELSE y
        BY <4>1, <1>4
      <4>3. y # id
        BY <4>1, <4>2, <1>7
      <4> QED BY <4>2, <4>3, <2>1
    <3> QED BY <3>1, <3>2
  <2>5. ASSUME NEW y \in Held(s)
        PROVE  (IF y \in Gone(s, k) THEN NextVersion(y) ELSE y) \in Held(u)
    <3>1. CASE y = id
      BY <3>1, <1>7, <1>12
    <3>2. CASE y # id
      <4>1. (IF y \in Gone(s, k) THEN NextVersion(y) ELSE y)
              = IF y \in Gone(s, k - 1) THEN NextVersion(y) ELSE y
        BY <3>2, <2>1
      <4>2. (IF y \in Gone(s, k - 1) THEN NextVersion(y) ELSE y) \in Held(t)
        BY <1>4
      <4> QED BY <4>1, <4>2, <3>2, <2>3, <1>12
    <3> QED BY <3>1, <3>2
  <2> QED BY <2>4, <2>5
<1> QED BY <1>1, <1>3, <1>12, <1>13, <1>14, <1>15 DEF ErasedSoFar

(* All identifiers in use get their next version and wait.                 *)
LEMMA EraseAllHolds ==
  ASSUME NEW s, Good(s), NEW t, t = PopRange(s, s.head, 0)
  PROVE  /\ Good(t) /\ Live(t) = {}
         /\ Held(t) = {IF y \in Live(s) THEN NextVersion(y) ELSE y : y \in Held(s)}
<1>1. PICK n : n = s.head
  OBVIOUS
<1>2. n \in Nat
  BY <1>1, GoodFacts
<1>0. PICK h : Pops(h, s, n)
  BY ONLY <1>2, PopFold
<1>3. /\ h[1 .. 0] = s /\ PopRange(s, n, 0) = h[1 .. n]
      /\ \A k \in 1 .. n : h[1 .. k] = Erase(h[1 .. k - 1], At(h[1 .. k - 1], n - k))
  BY ONLY <1>0 DEF Pops
<1> DEFINE T == {k \in 0 .. n : ErasedSoFar(s, k, h[1 .. k])}
<1>4. 0 \in T
  <2>1. Gone(s, 0) = {}
    BY <1>1, <1>2 DEF Gone
  <2>2. n - 0 = n
    BY <1>2
  <2> QED BY <2>1, <2>2, <1>1, <1>2, <1>3 DEF ErasedSoFar
<1>5. ASSUME NEW k \in 1 .. n, k - 1 \in T PROVE k \in T
  <2>1. PICK g, u : g = h[1 .. k - 1] /\ u = h[1 .. k]
    OBVIOUS
  <2>2. ErasedSoFar(s, k - 1, g) /\ u = Erase(g, At(g, s.head - k)) /\ k \in 1 .. s.head
    BY <1>1, <1>3, <1>5, <2>1
  <2>3. ErasedSoFar(s, k, u)
    BY <2>2, EraseOneMore
  <2> QED BY <2>1, <2>3
<1>6. \A k \in 0 .. n : k \in T
  <2> HIDE DEF T
  <2> QED BY <1>2, <1>4, <1>5, CountUp
<1>7. ErasedSoFar(s, n, t)
  <2>1. n \in 0 .. n
    BY <1>2
  <2> QED BY <2>1, <1>1, <1>3, <1>6
<1>8. n - n = 0 /\ Gone(s, n) = Live(s)
  BY <1>1, <1>2 DEF Gone, Live
<1>9. Live(t) = {}
  <2>1. t.head = 0
    BY <1>1, <1>7, <1>8 DEF ErasedSoFar
  <2> QED BY <2>1 DEF Live
<1> QED BY <1>7, <1>8, <1>9 DEF ErasedSoFar

-------------------------------------------------------------------------------
(* What is remembered.                                                     *)

(* A version the caller chose makes the entity's past forgotten.           *)
LEMMA Forget ==
  ASSUME NEW s, NEW r, Remembers(s, r), NEW e \in AllEntities,
         NEW t, Known(s) \subseteq Known(t) \cup {e},
         \A x \in Held(t) : x.entity = e \/ x \in Held(s), Held(t) \subseteq ValidIdentifiers,
         NEW q, q = [r EXCEPT ![e] = << >>]
  PROVE  Remembers(t, q)
<1>1. /\ r \in [AllEntities -> Seq(ValidIdentifiers)]
      /\ \A x \in Held(s) : Recalls(r[x.entity], x.entity, x.version)
      /\ \A d \in AllEntities : d \notin Known(s) => r[d] = << >>
  BY DEF Remembers
<1>2. << >> \in Seq(ValidIdentifiers)
  OBVIOUS
<1>3. /\ q \in [AllEntities -> Seq(ValidIdentifiers)]
      /\ \A d \in AllEntities : q[d] = IF d = e THEN << >> ELSE r[d]
  BY <1>1, <1>2
<1>4. ASSUME NEW x \in Held(t) PROVE Recalls(q[x.entity], x.entity, x.version)
  <2>1. x.entity \in AllEntities
    BY DEF ValidIdentifiers, AllEntities
  <2>2. CASE x.entity = e
    BY <2>1, <2>2, <1>3, RecallsNothing
  <2>3. CASE x.entity # e
    BY <2>1, <2>3, <1>1, <1>3
  <2> QED BY <2>2, <2>3
<1>5. \A d \in AllEntities : d \notin Known(t) => q[d] = << >>
  BY <1>1, <1>3
<1> QED BY <1>3, <1>4, <1>5 DEF Remembers

(* The identifiers in D are destroyed and remembered.                      *)
Reminded(r, D, q) ==
  /\ q \in [AllEntities -> Seq(ValidIdentifiers)]
  /\ \A y \in D : q[y.entity] = Pool!Remember(r[y.entity], y)
  /\ \A e \in AllEntities : (\A y \in D : y.entity # e) => q[e] = r[e]

(* Then what is remembered is right for the set after the destruction.     *)
LEMMA RemindHolds ==
  ASSUME NEW s, Good(s), NEW r, Remembers(s, r), NEW D, D \subseteq Held(s),
         NEW t, Good(t), Held(t) = {IF y \in D THEN NextVersion(y) ELSE y : y \in Held(s)},
         NEW q, Reminded(r, D, q)
  PROVE  Remembers(t, q)
<1>1. /\ \A x \in Held(s) : Recalls(r[x.entity], x.entity, x.version)
      /\ \A d \in AllEntities : d \notin Known(s) => r[d] = << >>
  BY DEF Remembers
<1>2. \A x, y \in Held(s) : x.entity = y.entity => x = y
  BY KnownIs
<1>3. ASSUME NEW y \in Held(s)
      PROVE  y \in ValidIdentifiers /\ y.entity \in AllEntities
  BY DEF Good, ValidIdentifiers, AllEntities
<1>4. ASSUME NEW x \in Held(t)
      PROVE  /\ Recalls(q[x.entity], x.entity, x.version)
             /\ \E y \in Held(s) : x.entity = y.entity
  <2>1. PICK y \in Held(s) : x = IF y \in D THEN NextVersion(y) ELSE y
    OBVIOUS
  <2>2. CASE y \in D
    <3>1. x = NextVersion(y) /\ x.entity = y.entity
      BY <2>1, <2>2, <1>3, NextIs
    <3>2. Recalls(Pool!Remember(r[y.entity], y), y.entity, NextVersion(y).version)
      BY <1>1, <1>3, RememberNext
    <3>3. q[y.entity] = Pool!Remember(r[y.entity], y)
      BY <2>2 DEF Reminded
    <3> QED BY <3>1, <3>2, <3>3
  <2>3. CASE y \notin D
    <3>1. x = y
      BY <2>1, <2>3
    <3>2. \A z \in D : z.entity # y.entity
      BY <2>3, <1>2
    <3>3. q[y.entity] = r[y.entity]
      BY <3>2, <1>3 DEF Reminded
    <3> QED BY <3>1, <3>3, <1>1
  <2> QED BY <2>2, <2>3
<1>5. Known(t) = Known(s)
  <2>1. Known(t) = {x.entity : x \in Held(t)} /\ Known(s) = {x.entity : x \in Held(s)}
    BY KnownIs
  <2>2. \A y \in Held(s) : (IF y \in D THEN NextVersion(y) ELSE y).entity = y.entity
    BY <1>3, NextIs
  <2>3. \A y \in Held(s) : (IF y \in D THEN NextVersion(y) ELSE y) \in Held(t)
    OBVIOUS
  <2>4. \A y \in Held(s) : \E x \in Held(t) : x.entity = y.entity
    BY <2>2, <2>3
  <2> QED BY <2>1, <2>4, <1>4
<1>6. ASSUME NEW d \in AllEntities, d \notin Known(t) PROVE q[d] = << >>
  <2>1. \A y \in Held(s) : y.entity # d
    BY <1>5, <1>6, KnownIs
  <2>2. \A y \in D : y.entity # d
    BY <2>1
  <2> QED BY <2>2, <1>1, <1>5, <1>6 DEF Reminded
<1> QED BY <1>4, <1>6 DEF Remembers, Reminded

(* The pool remembers the same.                                            *)
LEMMA PoolReminds ==
  ASSUME NEW r, NEW D, \A x, y \in D : x.entity = y.entity => x = y,
         \A y \in D : y.entity \in AllEntities,
         NEW q, Reminded(r, D, q)
  PROVE  q = [e \in Pool!PoolEntities |->
                Pool!FoldLeft(Pool!Remember, r[e], Pool!SetToSeq({id \in D : id.entity = e}))]
<1>1. Pool!PoolEntities = AllEntities
  BY DEF Pool!PoolEntities, AllEntities
<1>2. ASSUME NEW e \in AllEntities
      PROVE  q[e] = Pool!FoldLeft(Pool!Remember, r[e], Pool!SetToSeq({id \in D : id.entity = e}))
  <2>1. CASE \A y \in D : y.entity # e
    <3>1. {id \in D : id.entity = e} = {}
      BY <2>1
    <3>2. q[e] = r[e]
      BY <2>1 DEF Reminded
    <3> QED BY <3>1, <3>2, NoneToSeq, FoldNone
  <2>2. CASE ~ (\A y \in D : y.entity # e)
    <3>1. PICK y \in D : y.entity = e
      BY <2>2
    <3>2. {id \in D : id.entity = e} = {y}
      BY <3>1
    <3>3. q[e] = Pool!Remember(r[e], y)
      BY <3>1 DEF Reminded
    <3> QED BY <3>2, <3>3, OneToSeq, FoldOne
  <2> QED BY <2>1, <2>2
<1>3. q \in [AllEntities -> Seq(ValidIdentifiers)]
  BY DEF Reminded
<1> QED BY <1>1, <1>2, <1>3

-------------------------------------------------------------------------------
(* The initial state, and one lemma for each action: it keeps the          *)
(* invariant, and it is a step of the pool or changes nothing there.       *)

PoolStep == [Pool!PoolNext]_(Pool!poolVars)

(* The identifiers in use afterwards are those of the next set.            *)
LEMMA LivePrimed == Live(set)' = Live(set')
BY DEF Live, At

(* A set without elements.                                                 *)
LEMMA NothingHeld ==
  ASSUME NEW s, Size(s) = 0
  PROVE  Held(s) = {} /\ Known(s) = {}
<1>1. Positions(s) = {}
  BY DEF Positions
<1> QED BY <1>1 DEF Held, Known

(* With nothing held there is nothing to remember.                         *)
LEMMA NothingRemembered ==
  ASSUME NEW s, Held(s) = {}, Known(s) = {}, NEW r, r = [e \in AllEntities |-> << >>]
  PROVE  Remembers(s, r)
<1>1. << >> \in Seq(ValidIdentifiers)
  OBVIOUS
<1> QED BY <1>1 DEF Remembers

(* An empty storage is a pool without identifiers.                         *)
LEMMA InitInv ==
  ASSUME Init
  PROVE  Inv /\ Pool!PoolInit
<1>1. Sound(set) /\ set.mode = "swap_only" /\ Size(set) = 0 /\ set.head = 0
  BY EmptySound DEF Init, Modes, EmptySet, PolicyToHead
<1>2. Held(set) = {} /\ Known(set) = {}
  BY <1>1, NothingHeld
<1>3. Good(set)
  BY <1>1, <1>2 DEF Good
<1>4. 0 \in 0 .. EntityMask /\ 0 .. 0 - 1 = {} /\ placeholder = 0 /\ start = 0
  BY EntityMaskAssumption DEF Init
<1>5. Remembers(set, retired)
  BY <1>2, NothingRemembered DEF Init
<1>6. Live(set) = {}
  BY <1>1 DEF Live
<1>7. Pool!PoolInit
  BY <1>6 DEF Init, Pool!PoolInit, Pool!PoolEntities, AllEntities
<1> QED BY <1>3, <1>4, <1>5, <1>7 DEF Inv, Covered

(* generate: the pool creates the identifiers of the run.                  *)
LEMMA GenerateInv ==
  ASSUME Inv, NEW n \in Nat, Generate(n)
  PROVE  Inv' /\ PoolStep
<1>1. PICK g : g = GenerateRun(n)
  OBVIOUS
<1>2. GoodRun(g)
  BY <1>1, GenerateRunGood DEF Generate
<1>3. set' = g.set /\ placeholder' = g.placeholder /\ start' = start /\ retired' = retired
  BY <1>1 DEF Generate
<1>4. Inv'
  BY <1>2, <1>3 DEF Inv, GoodRun, Good, Sound, Covered, Remembers
<1>5. PICK ids : ids = g.ids
  OBVIOUS
<1>6. Live(set)' = Live(set) \cup ids
  BY <1>2, <1>3, <1>5, LivePrimed DEF GoodRun
<1>7. /\ ids \in SUBSET ValidIdentifiers
      /\ \A x \in ids, y \in Live(set) : x.entity # y.entity
      /\ \A x \in ids : x \notin ToSet(retired[x.entity])
      /\ ids \subseteq Live(g.set)
  BY <1>2, <1>5 DEF GoodRun
<1>8. \A x, y \in ids : x.entity = y.entity => x = y
  <2>1. Live(g.set) \subseteq Held(g.set) /\ \A x, y \in Held(g.set) : x.entity = y.entity => x = y
    BY <1>2, KnownIs DEF GoodRun
  <2> QED BY <2>1, <1>7
<1>9. Pool!Create(ids)
  BY <1>3, <1>6, <1>7, <1>8 DEF Pool!Create, Pool!NamesOf, Pool!ValidIdentifiers, ValidIdentifiers,
                                Pool!ToSet, ToSet
<1>10. ids \in SUBSET Pool!ValidIdentifiers
  BY <1>7 DEF Pool!ValidIdentifiers, ValidIdentifiers
<1> QED BY <1>4, <1>9, <1>10 DEF PoolStep, Pool!PoolNext

(* The invariant after a step, and what it says of the identifiers in use. *)
LEMMA InvAfter ==
  ASSUME NEW s, Good(s), set' = s,
         placeholder' \in 0 .. EntityMask, start' \in 0 .. EntityMask,
         start' .. placeholder' - 1 \subseteq Known(s), Remembers(s, retired')
  PROVE  Inv'
<1>1. Good(set') /\ Covered(set', start', placeholder') /\ Remembers(set', retired')
  BY DEF Covered
<1> QED BY <1>1 DEF Inv, Good, Sound, Covered, Remembers

(* What the invariant says of the set.                                     *)
LEMMA InvNow ==
  ASSUME Inv
  PROVE  /\ Good(set) /\ Remembers(set, retired)
         /\ placeholder \in 0 .. EntityMask /\ start \in 0 .. EntityMask
         /\ start .. placeholder - 1 \subseteq Known(set)
         /\ Held(set) \subseteq ValidIdentifiers /\ Live(set) \subseteq Held(set)
         /\ Known(set) = {x.entity : x \in Held(set)}
         /\ \A x, y \in Held(set) : x.entity = y.entity => x = y
         /\ \A x \in Held(set) : x.entity \in AllEntities
<1>1. \A x \in ValidIdentifiers : x.entity \in AllEntities
  BY DEF ValidIdentifiers, AllEntities
<1> QED BY <1>1, KnownIs DEF Inv, Covered, Good

(* generate(hint): the pool is claimed an identifier.                      *)
LEMMA HintInv ==
  ASSUME Inv, NEW hint \in ValidIdentifiers, GenerateHint(hint)
  PROVE  Inv' /\ PoolStep
<1>1. PICK s, e : s = TryEmplace(set, hint, TRUE) /\ e = hint.entity
  OBVIOUS
<1>2. e \in 0 .. EntityMask - 1 /\ e \in AllEntities
  BY <1>1 DEF ValidIdentifiers, AllEntities
<1>3. NotLive(set, e)
  <2>1. CASE e \notin Known(set)
    BY <2>1, InvNow DEF NotLive
  <2>2. CASE e \in Known(set)
    <3>1. PICK p \in Positions(set) :
            /\ Elem(set, hint) = [entity |-> p, version |-> At(set, p).version]
            /\ At(set, p).entity = e /\ Current(set, hint) = At(set, p).version
      BY <2>2, <1>1, InvNow, SparseIs
    <3>2. At(set, p) \in ValidIdentifiers
      BY InvNow, GoodFacts
    <3>3. PICK curr : curr = Construct(hint.entity, Current(set, hint))
      OBVIOUS
    <3>4. curr = [entity |-> e, version |-> At(set, p).version]
      <4>1. PICK v : v = At(set, p).version
        OBVIOUS
      <4>2. v \in 0 .. VersionMask - 1
        BY <3>2, <4>1 DEF ValidIdentifiers
      <4>3. v % (VersionMask + 1) = v
        BY <4>2, VersionMaskAssumption
      <4>4. e % (EntityMask + 1) = e
        BY <1>2, MaskIdentity, EntityMaskAssumption
      <4> QED BY <3>1, <3>3, <4>1, <4>3, <4>4, <1>1 DEF Construct
    <3>5. ~ IsTombstone(curr)
      BY <3>2, <3>4, VersionMaskAssumption DEF IsTombstone, ValidIdentifiers
    <3>6. Index(set, curr) = p
      BY <3>1, <3>4, <1>1 DEF Index, Elem
    <3>7. p >= set.head
      BY <3>3, <3>5, <3>6 DEF GenerateHint, HintIsFree
    <3>8. ~ (p < set.head)
      <4>1. p \in Nat /\ set.head \in Nat
        BY InvNow, GoodFacts
      <4> QED BY <3>7, <4>1
    <3>9. At(set, p) \notin Live(set)
      BY <3>8, InvNow, LiveAt
    <3>10. At(set, p) \in Held(set)
      BY DEF Held
    <3> QED BY <3>1, <3>9, <3>10, InvNow DEF NotLive
  <2> QED BY <2>1, <2>2
<1>4. /\ Good(s) /\ Live(s) = Live(set) \cup {hint}
      /\ Held(s) = {x \in Held(set) : x.entity # e} \cup {hint}
  <2>1. Good(set) /\ NotLive(set, hint.entity) /\ s = TryEmplace(set, hint, TRUE)
    BY <1>1, <1>3, InvNow
  <2>2. /\ Good(s) /\ Live(s) = Live(set) \cup {hint}
        /\ Held(s) = {x \in Held(set) : x.entity # hint.entity} \cup {hint}
    BY <2>1, EmplaceHolds
  <2> QED BY <2>2, <1>1
<1>5. Known(s) = Known(set) \cup {e}
  <2>1. Known(s) = {x.entity : x \in Held(s)}
    BY <1>4, KnownIs
  <2> QED BY ZenonT(60), <2>1, <1>1, <1>4, InvNow
<1>6. /\ set' = s /\ placeholder' = placeholder /\ start' = start
      /\ retired' = [retired EXCEPT ![e] = << >>]
  BY <1>1 DEF GenerateHint
<1>7. Remembers(s, retired')
  <2>1. PICK q : q = [retired EXCEPT ![e] = << >>]
    OBVIOUS
  <2>2. \A x \in Held(s) : x.entity = e \/ x \in Held(set)
    BY <1>1, <1>4
  <2>3. Known(set) \subseteq Known(s) \cup {e}
    BY <1>5
  <2>4. Held(s) \subseteq ValidIdentifiers
    BY <1>4 DEF Good
  <2>5. Remembers(set, retired)
    BY InvNow
  <2>6. PICK r : r = retired
    OBVIOUS
  <2>7. q = [r EXCEPT ![e] = << >>] /\ Remembers(set, r)
    BY <2>1, <2>5, <2>6
  <2>8. Remembers(s, q)
    BY ONLY <2>2, <2>3, <2>4, <2>7, <1>2, Forget
  <2> QED BY <2>1, <2>8, <1>6
<1>8. Inv'
  BY <1>4, <1>5, <1>6, <1>7, InvNow, InvAfter
<1>9. Pool!Claim(hint)
  BY <1>1, <1>3, <1>4, <1>6, LivePrimed DEF Pool!Claim, Pool!NamesOf, NotLive
<1>10. hint \in Pool!ValidIdentifiers
  BY DEF Pool!ValidIdentifiers, ValidIdentifiers
<1> QED BY <1>8, <1>9, <1>10 DEF PoolStep, Pool!PoolNext

(* Destroying the identifiers in D, all in use.                            *)
LEMMA DestroyInv ==
  ASSUME Inv, NEW D, D \subseteq Live(set),
         NEW s, Good(s), set' = s, Live(s) = Live(set) \ D,
         Held(s) = {IF y \in D THEN NextVersion(y) ELSE y : y \in Held(set)},
         Reminded(retired, D, retired'), UNCHANGED <<placeholder, start>>
  PROVE  Inv' /\ PoolStep
<1>1. D \subseteq Held(set) /\ Good(set) /\ Remembers(set, retired)
  BY InvNow
<1>2. PICK q : q = retired'
  OBVIOUS
<1>3. Remembers(s, q)
  <2>1. Reminded(retired, D, q)
    BY <1>2
  <2> QED BY ONLY <1>1, <2>1, Good(s), RemindHolds,
               Held(s) = {IF y \in D THEN NextVersion(y) ELSE y : y \in Held(set)}
<1>4. Known(set) \subseteq Known(s)
  <2>1. \A y \in Held(set) : (IF y \in D THEN NextVersion(y) ELSE y).entity = y.entity
    BY InvNow, NextIs
  <2>2. \A y \in Held(set) : (IF y \in D THEN NextVersion(y) ELSE y) \in Held(s)
    OBVIOUS
  <2>3. Known(s) = {x.entity : x \in Held(s)}
    BY KnownIs
  <2> QED BY <2>1, <2>2, <2>3, InvNow
<1>5. Inv'
  <2>1. placeholder' = placeholder /\ start' = start
    OBVIOUS
  <2>2. start' .. placeholder' - 1 \subseteq Known(s)
    BY <2>1, <1>4, InvNow
  <2>3. Remembers(s, retired')
    BY <1>2, <1>3
  <2> QED BY <2>1, <2>2, <2>3, InvNow, InvAfter
<1>6. q = [e \in Pool!PoolEntities |->
             Pool!FoldLeft(Pool!Remember, retired[e], Pool!SetToSeq({id \in D : id.entity = e}))]
  <2>1. \A x, y \in D : x.entity = y.entity => x = y
    BY <1>1, InvNow
  <2>2. \A y \in D : y.entity \in AllEntities
    BY <1>1, InvNow
  <2>3. Reminded(retired, D, q)
    BY <1>2
  <2> QED BY ONLY <2>1, <2>2, <2>3, PoolReminds
<1>7. Live(set)' = Live(set) \ D
  BY LivePrimed
<1>8. Pool!Destroy(D)
  BY <1>2, <1>6, <1>7 DEF Pool!Destroy
<1> QED BY <1>5, <1>8 DEF PoolStep, Pool!PoolNext

(* An identifier that is remembered is valid.                              *)
LEMMA RemembersValid ==
  ASSUME NEW s, Good(s), NEW r, Remembers(s, r), NEW y \in Held(s)
  PROVE  Pool!Remember(r[y.entity], y) \in Seq(ValidIdentifiers)
<1>1. y \in ValidIdentifiers
  BY DEF Good
<1>2. Recalls(r[y.entity], y.entity, y.version)
  BY DEF Remembers
<1>3. PICK t : t = Pool!Remember(r[y.entity], y)
  OBVIOUS
<1>4. Recalls(t, y.entity, NextVersion(y).version)
  BY <1>1, <1>2, <1>3, RememberNext
<1> QED BY <1>3, <1>4 DEF Recalls

(* erase of an identifier in use: the pool destroys it.                    *)
LEMMA EraseOneInv ==
  ASSUME Inv, NEW id, EraseOne(id)
  PROVE  Inv' /\ PoolStep
<1>1. PICK s, D : s = Erase(set, id) /\ D = {id}
  OBVIOUS
<1>2. id \in Live(set) /\ id \in Held(set) /\ Good(set) /\ Remembers(set, retired) /\ id.entity \in AllEntities
  BY InvNow DEF EraseOne
<1>3. /\ Good(s) /\ Held(s) = (Held(set) \ {id}) \cup {NextVersion(id)}
      /\ Live(s) = Live(set) \ {id}
  BY <1>1, <1>2, EraseHolds
<1>4. Held(s) = {IF y \in D THEN NextVersion(y) ELSE y : y \in Held(set)}
  BY <1>1, <1>2, <1>3
<1>5. PICK r, q : r = retired /\ q = retired'
  OBVIOUS
<1>6. q = [r EXCEPT ![id.entity] = Pool!Remember(r[id.entity], id)]
  BY <1>5 DEF EraseOne
<1>7. Pool!Remember(r[id.entity], id) \in Seq(ValidIdentifiers)
  BY <1>2, <1>5, RemembersValid
<1>8. r \in [AllEntities -> Seq(ValidIdentifiers)]
  BY <1>2, <1>5 DEF Remembers
<1>9. Reminded(r, D, q)
  <2>1. /\ q \in [AllEntities -> Seq(ValidIdentifiers)]
        /\ q[id.entity] = Pool!Remember(r[id.entity], id)
        /\ \A e \in AllEntities : e # id.entity => q[e] = r[e]
    BY <1>2, <1>6, <1>7, <1>8
  <2> QED BY <2>1, <1>1 DEF Reminded
<1>10. D \subseteq Live(set) /\ Live(s) = Live(set) \ D
  BY <1>1, <1>2, <1>3
<1>11. set' = s /\ UNCHANGED <<placeholder, start>> /\ Reminded(retired, D, retired')
  BY <1>1, <1>5, <1>9 DEF EraseOne
<1> QED BY <1>3, <1>4, <1>10, <1>11, DestroyInv

(* erase of the range of each(): the pool destroys all of them.            *)
LEMMA EraseEachInv ==
  ASSUME Inv, EraseEach
  PROVE  Inv' /\ PoolStep
<1>1. PICK s, D : s = PopRange(set, set.head, 0) /\ D = Live(set)
  OBVIOUS
<1>2. /\ Good(set) /\ Remembers(set, retired) /\ D \subseteq Held(set)
      /\ \A x, y \in Held(set) : x.entity = y.entity => x = y
      /\ \A x \in Held(set) : x.entity \in AllEntities
  BY <1>1, InvNow
<1>3. /\ Good(s) /\ Live(s) = {}
      /\ Held(s) = {IF y \in D THEN NextVersion(y) ELSE y : y \in Held(set)}
  <2>1. PICK g : g = set
    OBVIOUS
  <2>2. Good(g) /\ s = PopRange(g, g.head, 0) /\ D = Live(g)
    BY <1>1, <1>2, <2>1
  <2>3. /\ Good(s) /\ Live(s) = {}
        /\ Held(s) = {IF y \in Live(g) THEN NextVersion(y) ELSE y : y \in Held(g)}
    BY ONLY <2>2, EraseAllHolds
  <2> QED BY <2>1, <2>2, <2>3
<1>4. PICK r, q : r = retired /\ q = retired'
  OBVIOUS
<1>5. q = [e \in AllEntities |->
             IF \E id \in D : id.entity = e
             THEN Pool!Remember(r[e], CHOOSE id \in D : id.entity = e) ELSE r[e]]
  BY <1>1, <1>4 DEF EraseEach
<1>6. ASSUME NEW y \in D
      PROVE  /\ y.entity \in AllEntities /\ q[y.entity] = Pool!Remember(r[y.entity], y)
             /\ q[y.entity] \in Seq(ValidIdentifiers)
  <2>1. y \in Held(set) /\ y.entity \in AllEntities
    BY <1>2
  <2>2. PICK e : e = y.entity
    OBVIOUS
  <2>3. \E id \in D : id.entity = e
    BY <2>2
  <2>4. PICK z : z = CHOOSE id \in D : id.entity = e
    OBVIOUS
  <2>5. z \in D /\ z.entity = e
    BY <2>3, <2>4
  <2>6. z = y
    BY <2>1, <2>2, <2>5, <1>2
  <2>7. q[e] = Pool!Remember(r[e], y)
    BY <2>1, <2>2, <2>3, <2>4, <2>6, <1>5
  <2>8. Pool!Remember(r[y.entity], y) \in Seq(ValidIdentifiers)
    BY <2>1, <1>2, <1>4, RemembersValid
  <2> QED BY <2>1, <2>2, <2>7, <2>8
<1>7. \A e \in AllEntities : (\A y \in D : y.entity # e) => q[e] = r[e]
  BY <1>5
<1>8. r \in [AllEntities -> Seq(ValidIdentifiers)]
  BY <1>2, <1>4 DEF Remembers
<1>9. \A e \in AllEntities : q[e] \in Seq(ValidIdentifiers)
  <2> SUFFICES ASSUME NEW e \in AllEntities PROVE q[e] \in Seq(ValidIdentifiers)
    OBVIOUS
  <2>1. CASE \A y \in D : y.entity # e
    BY <2>1, <1>7, <1>8
  <2>2. CASE ~ (\A y \in D : y.entity # e)
    BY <2>2, <1>6
  <2> QED BY <2>1, <2>2
<1>10. Reminded(r, D, q)
  <2>1. q = [e \in AllEntities |-> q[e]]
    BY <1>5
  <2>2. q \in [AllEntities -> Seq(ValidIdentifiers)]
    BY ONLY <2>1, <1>9
  <2> QED BY <2>2, <1>6, <1>7 DEF Reminded
<1>11. D \subseteq Live(set) /\ Live(s) = Live(set) \ D
  BY <1>1, <1>3
<1>12. set' = s /\ UNCHANGED <<placeholder, start>> /\ Reminded(retired, D, retired')
  BY <1>1, <1>4, <1>10 DEF EraseEach
<1> QED BY <1>3, <1>11, <1>12, DestroyInv

(* The set changes for the entity e only, and its past is forgotten.       *)
LEMMA ForgetInv ==
  ASSUME Inv, NEW e \in AllEntities, NEW s, Good(s), set' = s,
         Known(set) \subseteq Known(s), \A x \in Held(s) : x.entity = e \/ x \in Held(set),
         retired' = [retired EXCEPT ![e] = << >>], UNCHANGED <<placeholder, start>>
  PROVE  Inv'
<1>1. PICK r, q : r = retired /\ q = retired'
  OBVIOUS
<1>2. q = [r EXCEPT ![e] = << >>] /\ Remembers(set, r)
  BY <1>1, InvNow
<1>3. Held(s) \subseteq ValidIdentifiers /\ Known(set) \subseteq Known(s) \cup {e}
  BY DEF Good
<1>4. Remembers(s, q)
  BY ONLY <1>2, <1>3, e \in AllEntities, Forget, \A x \in Held(s) : x.entity = e \/ x \in Held(set)
<1>5. Remembers(s, retired')
  BY <1>1, <1>4
<1> QED BY <1>5, InvNow, InvAfter

(* erase of an identifier not in use: its entity skips a version.          *)
LEMMA EraseUnusedInv ==
  ASSUME Inv, NEW id \in ValidIdentifiers, EraseUnused(id)
  PROVE  Inv' /\ PoolStep
<1>1. PICK s, e : s = Erase(set, id) /\ e = id.entity
  OBVIOUS
<1>2. id \in Held(set) /\ id \notin Live(set) /\ Good(set)
  BY InvNow, ContainsIs DEF EraseUnused
<1>3. /\ Good(s) /\ Held(s) = (Held(set) \ {id}) \cup {NextVersion(id)}
      /\ Live(s) = Live(set) \ {id}
  BY <1>1, <1>2, EraseHolds
<1>4. NextVersion(id).entity = e /\ e \in AllEntities
  BY <1>1, <1>2, NextIs, InvNow
<1>5. Known(set) \subseteq Known(s)
  <2>1. Known(s) = {x.entity : x \in Held(s)}
    BY <1>3, KnownIs
  <2> QED BY <2>1, <1>1, <1>3, <1>4, InvNow
<1>6. \A x \in Held(s) : x.entity = e \/ x \in Held(set)
  BY <1>3, <1>4
<1>7. /\ set' = s /\ retired' = [retired EXCEPT ![e] = << >>]
      /\ UNCHANGED <<placeholder, start>>
  BY <1>1 DEF EraseUnused
<1>8. Inv'
  BY <1>3, <1>4, <1>5, <1>6, <1>7, ForgetInv
<1>9. \A x \in Live(set) : x.entity # e
  BY <1>1, <1>2, InvNow
<1>10. Live(set)' = Live(set)
  BY <1>2, <1>3, <1>7, LivePrimed
<1>11. Pool!Skip(e) /\ e \in Pool!PoolEntities
  BY <1>4, <1>7, <1>9, <1>10 DEF Pool!Skip, Pool!NamesOf, Pool!PoolEntities, AllEntities
<1> QED BY <1>8, <1>11 DEF PoolStep, Pool!PoolNext

(* bump: the pool renews an identifier.                                    *)
LEMMA BumpInv ==
  ASSUME Inv, NEW id \in ValidIdentifiers, NEW version \in 0 .. VersionMask - 1, BumpOne(id, version)
  PROVE  Inv' /\ PoolStep
<1>1. PICK new, s, e : new = [id EXCEPT !.version = version] /\ s = Bump(set, new) /\ e = id.entity
  OBVIOUS
<1>2. new \in ValidIdentifiers /\ new.entity = e /\ e \in AllEntities
  BY <1>1 DEF ValidIdentifiers, AllEntities
<1>3. id \in Live(set) /\ id \in Held(set) /\ Good(set)
  BY InvNow DEF BumpOne
<1>4. PICK p \in Positions(set) : At(set, p) = id
  BY <1>3 DEF Held
<1>5. p < set.head
  BY <1>3, <1>4, LiveAt
<1>6. /\ Good(s) /\ Held(s) = (Held(set) \ {id}) \cup {new}
      /\ Live(s) = (Live(set) \ {id}) \cup {new}
  <2>1. new.entity = At(set, p).entity
    BY <1>1, <1>2, <1>4
  <2>2. /\ Good(s) /\ Held(s) = (Held(set) \ {At(set, p)}) \cup {new}
        /\ Live(s) = IF p < set.head THEN (Live(set) \ {At(set, p)}) \cup {new} ELSE Live(set)
    <3>1. PICK g : g = set
      OBVIOUS
    <3>2. /\ Good(g) /\ p \in Positions(g) /\ new \in ValidIdentifiers
          /\ new.entity = At(g, p).entity /\ s = Bump(g, new)
      BY <3>1, <2>1, <1>1, <1>2, <1>3
    <3>3. /\ Good(s) /\ Held(s) = (Held(g) \ {At(g, p)}) \cup {new}
          /\ Live(s) = IF p < g.head THEN (Live(g) \ {At(g, p)}) \cup {new} ELSE Live(g)
      BY ONLY <3>2, BumpHolds
    <3> QED BY <3>1, <3>3
  <2> QED BY <2>2, <1>4, <1>5
<1>7. Known(set) \subseteq Known(s)
  <2>1. Known(s) = {x.entity : x \in Held(s)}
    BY <1>6, KnownIs
  <2>2. ASSUME NEW x \in Held(set) PROVE \E y \in Held(s) : y.entity = x.entity
    <3>1. CASE x = id
      BY <3>1, <1>1, <1>2, <1>6
    <3>2. CASE x # id
      BY <3>2, <1>6
    <3> QED BY <3>1, <3>2
  <2> QED BY <2>1, <2>2, InvNow
<1>8. \A x \in Held(s) : x.entity = e \/ x \in Held(set)
  BY <1>2, <1>6
<1>9. /\ set' = s /\ retired' = [retired EXCEPT ![e] = << >>]
      /\ UNCHANGED <<placeholder, start>>
  BY <1>1 DEF BumpOne
<1>10. Inv'
  BY <1>2, <1>6, <1>7, <1>8, <1>9, ForgetInv
<1>11. Live(set)' = (Live(set) \ {id}) \cup {new}
  BY <1>6, <1>9, LivePrimed
<1>12. Pool!Renew(id, new)
  BY <1>1, <1>2, <1>3, <1>9, <1>11 DEF Pool!Renew
<1>13. id \in Pool!ValidIdentifiers /\ new \in Pool!ValidIdentifiers
  BY <1>2 DEF Pool!ValidIdentifiers, ValidIdentifiers
<1> QED BY <1>10, <1>12, <1>13 DEF PoolStep, Pool!PoolNext

(* start_from: nothing changes for the pool.                               *)
LEMMA StartInv ==
  ASSUME Inv, NEW hint \in ValidIdentifiers, StartFrom(hint)
  PROVE  Inv' /\ PoolStep
<1>1. PICK e : e = hint.entity
  OBVIOUS
<1>2. e \in 0 .. EntityMask /\ e .. e - 1 = {}
  BY <1>1, EntityMaskAssumption DEF ValidIdentifiers
<1>3. /\ placeholder' = e /\ start' = e /\ set' = set /\ retired' = retired
  BY <1>1 DEF StartFrom
<1>4. Inv'
  BY <1>2, <1>3, InvNow, InvAfter
<1>5. Live(set)' = Live(set)
  BY <1>3, LivePrimed
<1> QED BY <1>3, <1>4, <1>5 DEF PoolStep, Pool!poolVars

(* The storage is emptied and forgets.                                     *)
LEMMA ResetInv ==
  ASSUME Inv, NEW s, Sound(s), s.mode = "swap_only", Size(s) = 0, s.head = 0, set' = s,
         placeholder' = start', placeholder' \in 0 .. EntityMask,
         retired' = [e \in AllEntities |-> << >>]
  PROVE  Inv' /\ PoolStep
<1>1. Held(s) = {} /\ Known(s) = {}
  BY NothingHeld
<1>2. Good(s)
  BY <1>1 DEF Good
<1>3. PICK q, e : q = retired' /\ e = start'
  OBVIOUS
<1>4. Remembers(s, q)
  BY <1>1, <1>3, NothingRemembered
<1>5. e .. e - 1 = {} /\ e \in 0 .. EntityMask
  <2>1. e \in 0 .. EntityMask
    BY <1>3
  <2>2. e \in Nat
    BY ONLY <2>1, EntityMaskAssumption
  <2>3. e .. e - 1 = {}
    BY ONLY <2>2
  <2> QED BY <2>1, <2>3
<1>6. start' .. placeholder' - 1 \subseteq Known(s)
  BY <1>3, <1>5
<1>7. Inv'
  BY <1>2, <1>3, <1>4, <1>5, <1>6, InvAfter
<1>8. Live(s) = {}
  BY DEF Live
<1>9. Pool!Reset
  BY <1>8, LivePrimed DEF Pool!Reset, Pool!PoolEntities, AllEntities
<1> QED BY <1>7, <1>9 DEF PoolStep, Pool!PoolNext

(* clear.                                                                  *)
LEMMA ClearInv ==
  ASSUME Inv, Clear
  PROVE  Inv' /\ PoolStep
<1>1. PICK s : s = PopAll(set)
  OBVIOUS
<1>2. Sound(set) /\ set.mode = "swap_only"
  BY InvNow DEF Good
<1>3. Sound(s) /\ s.mode = "swap_only" /\ Size(s) = 0
  BY <1>1, <1>2, PopAllSound
<1>4. s.head = 0
  BY <1>1, <1>2 DEF PopAll, PolicyToHead
<1>5. /\ set' = s /\ placeholder' = start' /\ placeholder' \in 0 .. EntityMask
      /\ retired' = [e \in AllEntities |-> << >>]
  BY <1>1, EntityMaskAssumption DEF Clear
<1> QED BY <1>3, <1>4, <1>5, ResetInv

(* The move constructor.                                                   *)
LEMMA MoveOutInv ==
  ASSUME Inv, MoveOut
  PROVE  Inv' /\ PoolStep
<1>1. PICK s : s = EmptySet("swap_only")
  OBVIOUS
<1>2. set.mode = "swap_only"
  BY InvNow DEF Good
<1>3. Sound(s) /\ s.mode = "swap_only" /\ Size(s) = 0 /\ s.head = 0
  BY <1>1, EmptySound DEF Modes, EmptySet, PolicyToHead
<1>4. /\ set' = s /\ placeholder' = start' /\ placeholder' \in 0 .. EntityMask
      /\ retired' = [e \in AllEntities |-> << >>]
  BY <1>1, <1>2, InvNow DEF MoveOut, MovedFrom
<1> QED BY <1>3, <1>4, ResetInv

(* A snapshot is loaded: nothing changes for the pool.                     *)
LEMMA ReloadInv ==
  ASSUME Inv, Reload
  PROVE  Inv' /\ PoolStep
<1>1. PICK s, g, e : s = Loaded(set) /\ g = Greatest(set) /\ e = NextVersion(g).entity
  OBVIOUS
<1>2. Good(s) /\ s.packed = set.packed /\ s.head = set.head
  BY <1>1, InvNow, LoadedIs
<1>3. Held(s) = Held(set) /\ Live(s) = Live(set) /\ Known(s) = Known(set)
  BY <1>2, InvNow, SameAnswers
<1>4. set.packed \in Seq(ValidIdentifiers)
  <2>1. PICK n, q : q = set.packed /\ n = Size(set)
    OBVIOUS
  <2>2. q \in Seq(Identifiers) /\ n = Len(q) /\ n \in Nat
    <3>1. Sound(set)
      BY InvNow DEF Good
    <3> QED BY <3>1, <2>1, PositionsFit DEF SetsOver, Size
  <2>3. \A p \in 0 .. n - 1 : At(set, p) \in ValidIdentifiers
    BY <2>1, InvNow, GoodFacts
  <2>4. ASSUME NEW i \in 1 .. n PROVE q[i] \in ValidIdentifiers
    <3>1. PICK p : p = i - 1
      OBVIOUS
    <3>2. p \in 0 .. n - 1 /\ p + 1 = i
      BY ONLY <3>1, <2>2, i \in 1 .. n
    <3> QED BY <3>2, <2>1, <2>3 DEF At
  <2>5. q \in Seq(ValidIdentifiers)
    BY <2>2, <2>4
  <2> QED BY <2>1, <2>5
<1>5. g \in ValidIdentifiers \cup {Construct(0, 0)}
  BY <1>1, <1>4, GreatestIs
<1>6. g.entity \in Nat
  BY <1>5, EntityMaskAssumption DEF ValidIdentifiers, Construct
<1>7. e = g.entity % (EntityMask + 1)
  BY <1>1 DEF NextVersion, Construct
<1>8. e \in 0 .. EntityMask /\ e .. e - 1 = {}
  BY <1>6, <1>7, EntityMaskAssumption
<1>9. set' = s /\ placeholder' = e /\ start' = e /\ retired' = retired
  BY <1>1 DEF Reload
<1>10. Remembers(s, retired')
  BY <1>3, <1>9, InvNow DEF Remembers
<1>11. Inv'
  BY <1>2, <1>8, <1>9, <1>10, InvAfter
<1>12. Live(set)' = Live(set)
  BY <1>3, <1>9, LivePrimed
<1> QED BY <1>9, <1>11, <1>12 DEF PoolStep, Pool!poolVars

-------------------------------------------------------------------------------
(* The theorems.                                                           *)

(* Every step keeps the invariant, and is a step of the pool or none.      *)
LEMMA StepInv == Inv /\ [Next]_vars => Inv' /\ PoolStep
<1> SUFFICES ASSUME Inv, [Next]_vars PROVE Inv' /\ PoolStep
  OBVIOUS
<1>1. ASSUME NEW n \in 1 .. MaxBatch, Generate(n) PROVE Inv' /\ PoolStep
  <2>1. n \in Nat
    BY MaxBatchAssumption
  <2> QED BY <2>1, <1>1, GenerateInv
<1>2. ASSUME NEW hint \in ValidIdentifiers, GenerateHint(hint) PROVE Inv' /\ PoolStep
  BY <1>2, HintInv
<1>3. ASSUME NEW hint \in Identifiers, GenerateInstead(hint) PROVE Inv' /\ PoolStep
  <2>1. Generate(1) /\ 1 \in Nat
    BY <1>3 DEF GenerateInstead
  <2> QED BY <2>1, GenerateInv
<1>4. ASSUME NEW id \in ValidIdentifiers, EraseOne(id) PROVE Inv' /\ PoolStep
  BY <1>4, EraseOneInv
<1>5. CASE EraseEach
  BY <1>5, EraseEachInv
<1>6. ASSUME NEW id \in ValidIdentifiers, EraseUnused(id) PROVE Inv' /\ PoolStep
  BY <1>6, EraseUnusedInv
<1>7. ASSUME NEW id \in ValidIdentifiers, NEW version \in 0 .. VersionMask - 1, BumpOne(id, version)
      PROVE  Inv' /\ PoolStep
  BY <1>7, BumpInv
<1>8. ASSUME NEW hint \in ValidIdentifiers, StartFrom(hint) PROVE Inv' /\ PoolStep
  BY <1>8, StartInv
<1>9. CASE Clear
  BY <1>9, ClearInv
<1>10. CASE MoveOut
  BY <1>10, MoveOutInv
<1>11. CASE Reload
  BY <1>11, ReloadInv
<1>12. CASE UNCHANGED vars
  <2>1. set' = set /\ placeholder' = placeholder /\ start' = start /\ retired' = retired
    BY <1>12 DEF vars
  <2>2. Inv'
    BY <2>1, InvNow, InvAfter
  <2>3. Live(set)' = Live(set)
    BY <2>1, LivePrimed
  <2> QED BY <2>1, <2>2, <2>3 DEF PoolStep, Pool!poolVars
<1> QED BY <1>1, <1>2, <1>3, <1>4, <1>5, <1>6, <1>7, <1>8, <1>9, <1>10, <1>11, <1>12 DEF Next

(* The invariant holds in every state.                                     *)
LEMMA Invariant == Spec => []Inv
<1>1. Init => Inv
  BY InitInv
<1>2. Inv /\ [Next]_vars => Inv'
  BY StepInv
<1> QED BY <1>1, <1>2, PTL DEF Spec

(* TypeOK holds, an entity between the start and placeholder is known to   *)
(* the set, and what the set holds are valid identifiers: next() may skip  *)
(* entities that hints claimed, but it loses none, for every number of     *)
(* entities, versions and identifiers generated at once.                   *)
THEOREM EntityNoEntityLost == Spec => []NoEntityLost
<1>1. Inv => NoEntityLost
  <2> SUFFICES ASSUME Inv PROVE NoEntityLost
    OBVIOUS
  <2>1. set.head \in 0 .. Size(set)
    BY InvNow, GoodFacts
  <2>2. ToSet(set.packed) \subseteq ValidIdentifiers
    <3>1. set.packed \in Seq(Identifiers) /\ Len(set.packed) = Size(set)
      <4>1. Sound(set)
        BY InvNow DEF Good
      <4> QED BY <4>1, PositionsFit DEF SetsOver, Size
    <3>2. PICK n \in Nat : n = Size(set)
      BY InvNow, GoodFacts
    <3>3. ToSet(set.packed) = {set.packed[i] : i \in 1 .. n}
      BY <3>1, <3>2, ElementsIs
    <3>4. ASSUME NEW i \in 1 .. n PROVE set.packed[i] \in ValidIdentifiers
      <4>1. PICK p : p = i - 1
        OBVIOUS
      <4>2. p \in 0 .. n - 1 /\ p + 1 = i
        BY ONLY <4>1, <3>2, i \in 1 .. n
      <4>3. At(set, p) \in ValidIdentifiers
        BY <4>2, <3>2, InvNow, GoodFacts
      <4> QED BY <4>2, <4>3 DEF At
    <3> QED BY <3>3, <3>4
  <2> QED BY <2>1, <2>2, InvNow DEF NoEntityLost, TypeOK
<1> QED BY <1>1, Invariant, PTL

(* A snapshot of the storage loads into one that answers as the original:  *)
(* the same identifiers are in use and contained, and those that wait are  *)
(* recycled in the same order.                                             *)
THEOREM EntitySnapshotExact == Spec => []SnapshotExact
<1>1. Inv => SnapshotExact
  <2> SUFFICES ASSUME Inv PROVE SnapshotExact
    OBVIOUS
  <2>1. PICK s : s = Loaded(set)
    OBVIOUS
  <2>2. Good(set) /\ Good(s) /\ s.packed = set.packed /\ s.head = set.head
    BY <2>1, InvNow, LoadedIs
  <2>3. /\ Live(s) = Live(set) /\ Size(s) = Size(set)
        /\ \A id \in ValidIdentifiers : SetContains(s, id) <=> SetContains(set, id)
    BY <2>2, SameAnswers
  <2> QED BY <2>1, <2>2, <2>3 DEF SnapshotExact
<1> QED BY <1>1, Invariant, PTL

(* The storage implements the pool of identifiers: no two identifiers in   *)
(* use for one entity, and no destroyed identifier handed out again before *)
(* its entity used up all its other versions, whatever mix of generate,    *)
(* hints, destruction, ranges and snapshots came before.                   *)
THEOREM EntityImplementsPool == Spec => ImplementsPool
<1>1. Init => Pool!PoolInit
  BY InitInv
<1>2. Inv /\ [Next]_vars => [Pool!PoolNext]_(Pool!poolVars)
  BY StepInv DEF PoolStep
<1> QED BY <1>1, <1>2, Invariant, PTL DEF Spec, ImplementsPool, Pool!PoolSpec
===============================================================================
