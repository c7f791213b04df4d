------------------------------ MODULE GroupsProofs -----------------------------
(***************************************************************************)
(* Proofs for Groups: the owned pools begin with the same entities; the    *)
(* groups are exact but for what is still to be published; an insertion    *)
(* publishes its range, each element once.                                 *)
(*                                                                         *)
(* The invariant says of every group and entity that the group has the     *)
(* entity exactly when it should, unless a call in progress has still to   *)
(* tell the group (Fits, Waits).  The order of the listeners does not      *)
(* matter: each one makes the group it belongs to exact for one entity     *)
(* (Told) and leaves the elements of all pools alone (Reacted).  What it   *)
(* permutes is before the group's end or at the entity (Kept), so that the *)
(* positions an insertion has still to visit do not move (Calm).           *)
(*                                                                         *)
(* The last three theorems assume that the listeners of an insertion stay  *)
(* with the entity they are called for (~ Foreign).  Otherwise a listener  *)
(* can move, or erase, an element the loop has still to publish.           *)
(***************************************************************************)
EXTENDS Groups, SequenceFacts, FiniteSetTheorems

(* The registries: the values of reg.                                      *)
Regs == [pools : [Types -> Seq(Entities)], len : Nat, elem : Seq(Entities)]

(* The two groups: the pools they ask for, and those they exclude.         *)
Groupings == {"owning", "observing"}
Need(g) == IF g = "owning" THEN Members ELSE ToSet(Observed)
Bars(g) == IF g = "owning" THEN Exclude ELSE Filtered
Concerns(g) == Need(g) \cup Bars(g)

(* The entities of a group, in the registry r.                             *)
In(r, g, e) ==
  IF g = "owning" THEN \E n \in 1 .. r.len : r.pools[Owned[1]][n] = e
                  ELSE e \in ToSet(r.elem)

(* The owned pools begin with the same entities; no sequence has one       *)
(* twice.                                                                  *)
Placed(r) ==
  /\ r \in Regs
  /\ \A t \in Types : IsInjective(r.pools[t])
  /\ IsInjective(r.elem)
  /\ \A t \in ToSet(Owned) :
       /\ r.len <= Len(r.pools[t])
       /\ \A n \in 1 .. r.len : r.pools[t][n] = r.pools[Owned[1]][n]

(* r and u have the same elements in every pool.                           *)
Same(r, u) ==
  \A t \in Types : ToSet(u.pools[t]) = ToSet(r.pools[t]) /\ Len(u.pools[t]) = Len(r.pools[t])

-------------------------------------------------------------------------------
(* What the assumptions on the constants say of the pools of the two       *)
(* groups.                                                                 *)
LEMMA TypeFacts ==
  /\ Owned \in Seq(Types) /\ 1 \in 1 .. Len(Owned) /\ Owned[1] \in ToSet(Owned)
  /\ ToSet(Owned) \subseteq Types /\ Owned[1] \in Types
  /\ ToSet(Owned) \subseteq Members /\ Members \subseteq Types /\ Exclude \subseteq Types
  /\ ToSet(Observed) \subseteq Types /\ Filtered \subseteq Types
  /\ \A g \in Groupings : Need(g) \cap Bars(g) = {} /\ Need(g) \cup Bars(g) \subseteq Types
<1>1. Owned \in Seq(Types) /\ Observed \in Seq(Types) /\ Owned # << >>
  BY GroupAssumption
<1>2. ToSet(Owned) = {Owned[i] : i \in 1 .. Len(Owned)} /\ ToSet(Owned) \subseteq Types
      /\ ToSet(Observed) \subseteq Types
  BY <1>1, ElementsIs
<1>3. 1 \in 1 .. Len(Owned)
  BY <1>1, SeqFacts
<1>4. Members \subseteq Types /\ Exclude \subseteq Types /\ Filtered \subseteq Types
      /\ Members \cap Exclude = {} /\ ToSet(Observed) \cap Filtered = {}
  BY GroupAssumption
<1>5. Owned[1] \in ToSet(Owned) /\ Owned[1] \in Types
  BY <1>2, <1>3
<1>6. ToSet(Owned) \subseteq Members
  BY DEF Members
<1>7. \A g \in Groupings : Need(g) \cap Bars(g) = {} /\ Need(g) \cup Bars(g) \subseteq Types
  BY <1>2, <1>4 DEF Need, Bars, Groupings
<1> QED BY <1>1, <1>2, <1>3, <1>4, <1>5, <1>6, <1>7

(* The position of an element.                                             *)
LEMMA PosFacts ==
  ASSUME NEW S, NEW s \in Seq(S), IsInjective(s), NEW e \in ToSet(s)
  PROVE  /\ Pos(s, e) \in 1 .. Len(s) /\ s[Pos(s, e)] = e
         /\ \A n \in 1 .. Len(s) : s[n] = e => n = Pos(s, e)
<1>1. DOMAIN s = 1 .. Len(s) /\ ToSet(s) = {s[i] : i \in 1 .. Len(s)}
      /\ \A i, j \in 1 .. Len(s) : s[i] = s[j] => i = j
  BY ElementsIs, SeqFacts
<1>2. \E n \in DOMAIN s : s[n] = e
  BY <1>1
<1>3. Pos(s, e) \in DOMAIN s /\ s[Pos(s, e)] = e
  BY <1>2 DEF Pos
<1> QED BY <1>1, <1>3

(* t is s with the elements at m and n in each other's place.              *)
Swapped(s, m, n, t) ==
  /\ Len(t) = Len(s) /\ t[m] = s[n] /\ t[n] = s[m]
  /\ \A i \in 1 .. Len(s) : i # m /\ i # n => t[i] = s[i]

(* Two elements change places.                                             *)
LEMMA ExchangedFacts ==
  ASSUME NEW S, NEW s \in Seq(S), IsInjective(s), NEW m \in 1 .. Len(s), NEW n \in 1 .. Len(s),
         NEW t, t = Exchanged(s, m, n)
  PROVE  t \in Seq(S) /\ IsInjective(t) /\ ToSet(t) = ToSet(s) /\ Swapped(s, m, n, t)
<1>1. PICK l \in Nat : l = Len(s) /\ DOMAIN s = 1 .. l
  BY SeqFacts
<1>2. s \in [1 .. l -> S] /\ m \in 1 .. l /\ n \in 1 .. l
  BY <1>1
<1>3. t = [s EXCEPT ![m] = s[n], ![n] = s[m]]
  BY DEF Exchanged
<1>4. t \in [1 .. l -> S]
  BY ONLY <1>2, <1>3
<1>5. t \in Seq(S) /\ Len(t) = l
  BY <1>4, <1>1
<1>6. \A i \in 1 .. l : t[i] = IF i = n THEN s[m] ELSE IF i = m THEN s[n] ELSE s[i]
  BY ONLY <1>2, <1>3
<1>7. t[m] = s[n] /\ t[n] = s[m] /\ \A i \in 1 .. l : i # m /\ i # n => t[i] = s[i]
  BY ONLY <1>2, <1>6
<1>8. \A i, j \in 1 .. l : s[i] = s[j] => i = j
  BY <1>1, ElementsIs
<1>9. \A i, j \in 1 .. l : t[i] = t[j] => i = j
  BY ONLY <1>2, <1>6, <1>8
<1>10. IsInjective(t)
  BY <1>5, <1>9, ElementsIs
<1>11. ToSet(t) = {t[i] : i \in 1 .. l} /\ ToSet(s) = {s[i] : i \in 1 .. l}
  BY <1>1, <1>5, ElementsIs
<1>12. {t[i] : i \in 1 .. l} = {s[i] : i \in 1 .. l}
  <2>1. \A i \in 1 .. l : \E j \in 1 .. l : t[i] = s[j]
    BY ONLY <1>2, <1>6
  <2>2. \A i \in 1 .. l : \E j \in 1 .. l : s[i] = t[j]
    BY ONLY <1>2, <1>7
  <2>3. PICK A, B : A = {t[i] : i \in 1 .. l} /\ B = {s[i] : i \in 1 .. l}
    OBVIOUS
  <2>4. ASSUME NEW x \in A PROVE x \in B
    BY <2>1, <2>3
  <2>5. ASSUME NEW x \in B PROVE x \in A
    BY <2>2, <2>3
  <2> QED BY <2>3, <2>4, <2>5
<1>13. Swapped(s, m, n, t)
  BY <1>1, <1>5, <1>7 DEF Swapped
<1> QED BY <1>5, <1>10, <1>11, <1>12, <1>13

(* The last element takes the place of one that goes.                      *)
LEMMA WithoutFacts ==
  ASSUME NEW S, NEW s \in Seq(S), IsInjective(s), NEW e \in ToSet(s), NEW t, t = Without(s, e)
  PROVE  /\ t \in Seq(S) /\ IsInjective(t) /\ ToSet(t) = ToSet(s) \ {e}
         /\ SwapPopped(s, Pos(s, e), t)
<1>1. Pos(s, e) \in 1 .. Len(s) /\ s[Pos(s, e)] = e
  BY PosFacts
<1>2. t \in Seq(S) /\ SwapPopped(s, Pos(s, e), t)
  BY <1>1, SwapPopFacts DEF Without
<1> QED BY <1>1, <1>2, SwapPopElements

-------------------------------------------------------------------------------
(* The fields of a registry.                                               *)
LEMMA RegParts ==
  ASSUME NEW r \in Regs
  PROVE  /\ r.pools \in [Types -> Seq(Entities)] /\ r.len \in Nat /\ r.elem \in Seq(Entities)
         /\ \A t \in Types : r.pools[t] \in Seq(Entities)
BY DEF Regs

(* One place and the one an entity has are exchanged in all owned pools.   *)
LEMMA SwapFacts ==
  ASSUME NEW r \in Regs, \A t \in Types : IsInjective(r.pools[t]),
         NEW pos, NEW e,
         \A t \in ToSet(Owned) : pos \in 1 .. Len(r.pools[t]) /\ e \in ToSet(r.pools[t]),
         NEW u, u = SwapElements(r, pos, e)
  PROVE  /\ u \in Regs /\ u.len = r.len /\ u.elem = r.elem
         /\ \A t \in Types : IsInjective(u.pools[t])
         /\ Same(r, u)
         /\ \A t \in Types \ ToSet(Owned) : u.pools[t] = r.pools[t]
         /\ \A t \in ToSet(Owned) : Swapped(r.pools[t], pos, Pos(r.pools[t], e), u.pools[t])
<1>1. PICK q : q = [t \in Types |-> IF t \in ToSet(Owned)
                                    THEN Exchanged(r.pools[t], pos, Pos(r.pools[t], e))
                                    ELSE r.pools[t]]
  OBVIOUS
<1>2. u = [r EXCEPT !.pools = q]
  BY <1>1 DEF SwapElements
<1>3. r.pools \in [Types -> Seq(Entities)] /\ \A t \in Types : r.pools[t] \in Seq(Entities)
  BY RegParts
<1>4. ToSet(Owned) \subseteq Types
  BY TypeFacts
<1>5. ASSUME NEW t \in ToSet(Owned)
      PROVE  /\ q[t] \in Seq(Entities) /\ IsInjective(q[t]) /\ ToSet(q[t]) = ToSet(r.pools[t])
             /\ Swapped(r.pools[t], pos, Pos(r.pools[t], e), q[t])
  <2>1. PICK s \in Seq(Entities) : s = r.pools[t] /\ IsInjective(s)
    BY <1>3, <1>4
  <2>2. pos \in 1 .. Len(s) /\ e \in ToSet(s)
    BY <2>1
  <2>3. PICK n : n = Pos(s, e)
    OBVIOUS
  <2>4. n \in 1 .. Len(s) /\ s[n] = e
    BY <2>1, <2>2, <2>3, PosFacts
  <2>5. PICK w : w = q[t] /\ w = Exchanged(s, pos, n)
    BY <1>1, <1>4, <2>1, <2>3
  <2>6. w \in Seq(Entities) /\ IsInjective(w) /\ ToSet(w) = ToSet(s) /\ Swapped(s, pos, n, w)
    BY <2>1, <2>2, <2>4, <2>5, ExchangedFacts
  <2> QED BY <2>1, <2>3, <2>5, <2>6
<1>6. \A t \in Types \ ToSet(Owned) : q[t] = r.pools[t]
  BY <1>1
<1>7. q \in [Types -> Seq(Entities)]
  BY <1>1, <1>3, <1>5, <1>6
<1>8. u.pools = q /\ u.len = r.len /\ u.elem = r.elem /\ u \in Regs
  BY <1>2, <1>7 DEF Regs
<1>9. \A t \in Types : IsInjective(u.pools[t])
  BY <1>5, <1>6, <1>8
<1>10. Same(r, u)
  BY <1>5, <1>6, <1>8 DEF Same, Swapped
<1> QED BY <1>5, <1>6, <1>8, <1>9, <1>10

(* What a pool has does not depend on its order.                           *)
LEMMA SameHas ==
  ASSUME NEW r, NEW u, Same(r, u)
  PROVE  /\ \A t \in Types : \A e : Has(u, t, e) <=> Has(r, t, e)
         /\ \A types \in SUBSET Types : \A e :
              /\ HasAll(u, types, e) <=> HasAll(r, types, e)
              /\ Excluded(u, types, e) = Excluded(r, types, e)
<1>1. \A t \in Types : \A e : Has(u, t, e) <=> Has(r, t, e)
  BY DEF Same, Has
<1>2. ASSUME NEW types \in SUBSET Types, NEW e
      PROVE  /\ HasAll(u, types, e) <=> HasAll(r, types, e)
             /\ Excluded(u, types, e) = Excluded(r, types, e)
  <2>1. {t \in types : Has(u, t, e)} = {t \in types : Has(r, t, e)}
    BY <1>1
  <2>2. HasAll(u, types, e) <=> HasAll(r, types, e)
    BY <1>1 DEF HasAll
  <2> QED BY <2>1, <2>2 DEF Excluded
<1> QED BY <1>1, <1>2

(* How many of the pools that exclude an entity have it.                   *)
LEMMA ExcludedFacts ==
  ASSUME NEW r, NEW types \in SUBSET Types, NEW e
  PROVE  /\ Excluded(r, types, e) = 0 <=> \A t \in types : ~ Has(r, t, e)
         /\ \A t \in types : Has(r, t, e) =>
              (Excluded(r, types, e) = 1 <=> \A s \in types : Has(r, s, e) => s = t)
<1>1. IsFiniteSet(Types)
  <2>1. Pools \in Seq(Types) /\ Types = ToSet(Pools)
    BY GroupAssumption DEF Types
  <2>2. ToSet(Pools) = {Pools[i] : i \in 1 .. Len(Pools)}
    BY <2>1, ElementsIs
  <2>3. \A t \in Types : \E i \in 1 .. Len(Pools) : Pools[i] = t
    BY <2>1, <2>2
  <2> QED BY ONLY <2>1, <2>3 DEF IsFiniteSet
<1>2. PICK D : D = {t \in types : Has(r, t, e)}
  OBVIOUS
<1>3. IsFiniteSet(D)
  <2>1. D \subseteq Types
    BY <1>2
  <2> QED BY <1>1, <2>1, FS_Subset
<1>4. Excluded(r, types, e) = Cardinality(D)
  BY <1>2 DEF Excluded
<1>5. Cardinality(D) = 0 <=> D = {}
  BY <1>3, FS_EmptySet
<1>6. Cardinality(D) = 1 <=> \E x : D = {x}
  BY <1>3, FS_Singleton
<1> QED BY <1>2, <1>4, <1>5, <1>6

-------------------------------------------------------------------------------
(* Joining and leaving the group that owns pools.                          *)

(* What is behind the group and behind e is not moved.                     *)
Kept(r, u, e) ==
  \A p \in Types, m \in Nat :
    (p \in ToSet(Owned) => r.len <= m /\ \E n \in 1 .. Len(r.pools[p]) : n <= m /\ r.pools[p][n] = e)
      => /\ p \in ToSet(Owned) => u.len <= m
         /\ \A n \in 1 .. Len(r.pools[p]) : n > m => u.pools[p][n] = r.pools[p][n]

(* u is r after a listener was told of e.                                  *)
Reacted(r, u, e) == Placed(u) /\ Same(r, u) /\ Kept(r, u, e)

(* Nothing happened.                                                       *)
LEMMA SameRefl ==
  ASSUME NEW r, Placed(r), NEW e
  PROVE  Reacted(r, r, e)
BY DEF Reacted, Same, Kept

(* An entity of the group is at one position of all owned pools.           *)
LEMMA InFacts ==
  ASSUME NEW r, Placed(r), NEW e, NEW n \in 1 .. r.len, r.pools[Owned[1]][n] = e
  PROVE  \A t \in ToSet(Owned) :
           /\ n \in 1 .. Len(r.pools[t]) /\ r.pools[t][n] = e
           /\ e \in ToSet(r.pools[t]) /\ Pos(r.pools[t], e) = n
<1> SUFFICES ASSUME NEW t \in ToSet(Owned)
             PROVE  /\ n \in 1 .. Len(r.pools[t]) /\ r.pools[t][n] = e
                    /\ e \in ToSet(r.pools[t]) /\ Pos(r.pools[t], e) = n
  OBVIOUS
<1>1. r \in Regs /\ r.len \in Nat /\ t \in Types
  BY TypeFacts DEF Placed, Regs
<1>2. PICK s \in Seq(Entities) : s = r.pools[t] /\ IsInjective(s) /\ r.len <= Len(s)
  BY <1>1, RegParts DEF Placed
<1>3. n \in 1 .. Len(s) /\ s[n] = e
  <2>1. Len(s) \in Nat
    BY SeqFacts
  <2> QED BY <1>1, <1>2, <2>1 DEF Placed
<1>4. ToSet(s) = {s[i] : i \in 1 .. Len(s)}
  BY ElementsIs
<1>5. e \in ToSet(s)
  BY <1>3, <1>4
<1>6. Pos(s, e) = n
  BY <1>2, <1>3, <1>5, PosFacts
<1> QED BY <1>2, <1>3, <1>5, <1>6

(* An entity with all the elements that is not in the group is behind it.  *)
LEMMA OutFacts ==
  ASSUME NEW r, Placed(r), NEW e, HasAll(r, Members, e), Pos(r.pools[Owned[1]], e) > r.len
  PROVE  \A t \in ToSet(Owned) :
           LET n == Pos(r.pools[t], e)
           IN  /\ e \in ToSet(r.pools[t]) /\ n \in 1 .. Len(r.pools[t])
               /\ n > r.len /\ r.pools[t][n] = e
<1> SUFFICES ASSUME NEW t \in ToSet(Owned), NEW n, n = Pos(r.pools[t], e)
             PROVE  /\ e \in ToSet(r.pools[t]) /\ n \in 1 .. Len(r.pools[t])
                    /\ n > r.len /\ r.pools[t][n] = e
  OBVIOUS
<1>1. r \in Regs /\ r.len \in Nat /\ t \in Types /\ t \in Members
  BY TypeFacts DEF Placed, Regs
<1>2. PICK s \in Seq(Entities) : s = r.pools[t] /\ IsInjective(s)
  BY <1>1, RegParts DEF Placed
<1>3. e \in ToSet(s)
  BY <1>1, <1>2 DEF HasAll, Has
<1>4. n \in 1 .. Len(s) /\ s[n] = e
  BY <1>2, <1>3, PosFacts
<1>5. ASSUME n <= r.len PROVE FALSE
  <2>1. n \in 1 .. r.len /\ r.pools[Owned[1]][n] = e
    BY <1>1, <1>2, <1>4, <1>5 DEF Placed
  <2>2. Pos(r.pools[Owned[1]], e) = n
    BY <2>1, InFacts, TypeFacts
  <2> QED BY <1>1, <1>4, <1>5, <2>2
<1>6. Len(s) \in Nat
  BY SeqFacts
<1> QED BY <1>1, <1>2, <1>3, <1>4, <1>5, <1>6

(* An entity joins: it takes the place behind the last of the group, in    *)
(* every owned pool.                                                       *)
LEMMA JoinFacts ==
  ASSUME NEW r, Placed(r), NEW e, HasAll(r, Members, e), Pos(r.pools[Owned[1]], e) > r.len,
         NEW u, u = Joined(r, e)
  PROVE  /\ Reacted(r, u, e) /\ u.elem = r.elem
         /\ \A x : In(u, "owning", x) <=> In(r, "owning", x) \/ x = e
<1>1. r \in Regs /\ r.len \in Nat
  BY DEF Placed, Regs
<1>2. PICK v, pos : v = [r EXCEPT !.len = @ + 1] /\ pos = r.len + 1
  OBVIOUS
<1>3. u = SwapElements(v, pos, e)
  BY <1>2 DEF Joined
<1>4. v \in Regs /\ v.pools = r.pools /\ v.elem = r.elem /\ v.len = pos /\ pos \in Nat
  BY <1>1, <1>2 DEF Regs
<1>5. \A t \in Types : IsInjective(r.pools[t]) /\ Len(r.pools[t]) \in Nat
  BY <1>1, RegParts, SeqFacts DEF Placed
<1>6. ASSUME NEW t \in ToSet(Owned)
      PROVE  LET n == Pos(r.pools[t], e)
             IN  /\ pos \in 1 .. Len(r.pools[t]) /\ n \in 1 .. Len(r.pools[t]) /\ pos <= n
                 /\ e \in ToSet(r.pools[t]) /\ r.pools[t][n] = e
  BY <1>1, <1>2, <1>5, OutFacts, TypeFacts
<1>7. /\ u \in Regs /\ u.len = pos /\ u.elem = r.elem
      /\ \A t \in Types : IsInjective(u.pools[t])
      /\ Same(v, u)
      /\ \A t \in Types \ ToSet(Owned) : u.pools[t] = r.pools[t]
      /\ \A t \in ToSet(Owned) : Swapped(r.pools[t], pos, Pos(r.pools[t], e), u.pools[t])
  BY <1>3, <1>4, <1>5, <1>6, SwapFacts
<1>8. Same(r, u)
  BY <1>4, <1>7 DEF Same
<1>9. ASSUME NEW t \in ToSet(Owned)
      PROVE  /\ pos <= Len(u.pools[t]) /\ u.pools[t][pos] = e
             /\ \A n \in 1 .. r.len : u.pools[t][n] = r.pools[t][n]
  <2>1. PICK n : n = Pos(r.pools[t], e)
    OBVIOUS
  <2>2. Swapped(r.pools[t], pos, n, u.pools[t]) /\ n \in 1 .. Len(r.pools[t]) /\ pos <= n
        /\ pos \in 1 .. Len(r.pools[t]) /\ r.pools[t][n] = e
    BY <1>6, <1>7, <2>1
  <2>3. Len(r.pools[t]) \in Nat
    BY <1>5, TypeFacts
  <2> QED BY <1>1, <1>2, <2>2, <2>3 DEF Swapped
<1>10. Placed(u)
  <2>1. ASSUME NEW t \in ToSet(Owned)
        PROVE  /\ u.len <= Len(u.pools[t])
               /\ \A n \in 1 .. u.len : u.pools[t][n] = u.pools[Owned[1]][n]
    <3>1. Owned[1] \in ToSet(Owned)
      BY TypeFacts
    <3>2. \A n \in 1 .. r.len : r.pools[t][n] = r.pools[Owned[1]][n]
      BY DEF Placed
    <3>3. \A n \in 1 .. pos : n = pos \/ n \in 1 .. r.len
      BY <1>1, <1>2
    <3> QED BY <1>7, <1>9, <3>1, <3>2, <3>3
  <2>2. IsInjective(u.elem)
    BY <1>7 DEF Placed
  <2> QED BY <1>7, <2>1, <2>2 DEF Placed
<1>11. Kept(r, u, e)
  <2> SUFFICES ASSUME NEW p \in Types, NEW m \in Nat,
                      p \in ToSet(Owned) =>
                        r.len <= m /\ \E n \in 1 .. Len(r.pools[p]) : n <= m /\ r.pools[p][n] = e
               PROVE  /\ p \in ToSet(Owned) => u.len <= m
                      /\ \A n \in 1 .. Len(r.pools[p]) : n > m => u.pools[p][n] = r.pools[p][n]
    BY DEF Kept
  <2>1. CASE p \in ToSet(Owned)
    <3>1. PICK n : n = Pos(r.pools[p], e)
      OBVIOUS
    <3>2. n \in 1 .. Len(r.pools[p]) /\ pos <= n /\ e \in ToSet(r.pools[p])
          /\ Swapped(r.pools[p], pos, n, u.pools[p])
      BY <2>1, <3>1, <1>6, <1>7
    <3>3. n <= m
      <4>1. PICK k \in 1 .. Len(r.pools[p]) : k <= m /\ r.pools[p][k] = e
        BY <2>1
      <4>2. r.pools[p] \in Seq(Entities) /\ IsInjective(r.pools[p])
        BY <1>1, <1>5, RegParts
      <4>3. k = n
        BY <3>1, <3>2, <4>1, <4>2, PosFacts
      <4> QED BY <4>1, <4>3
    <3>4. PICK s, w : s = r.pools[p] /\ w = u.pools[p]
      OBVIOUS
    <3>5. n \in 1 .. Len(s) /\ pos <= n /\ n <= m /\ pos \in Nat /\ Len(s) \in Nat
          /\ Swapped(s, pos, n, w)
      BY <3>2, <3>3, <3>4, <1>4, <1>5
    <3>6. \A k \in 1 .. Len(s) : k > m => w[k] = s[k]
      BY ONLY <3>5, m \in Nat DEF Swapped
    <3>7. u.len <= m
      BY ONLY <3>5, <1>7, m \in Nat
    <3> QED BY <3>4, <3>6, <3>7
  <2>2. CASE p \notin ToSet(Owned)
    BY <2>2, <1>7
  <2> QED BY <2>1, <2>2
<1>12. ASSUME NEW x PROVE In(u, "owning", x) <=> In(r, "owning", x) \/ x = e
  <2>1. u.pools[Owned[1]][pos] = e /\ \A n \in 1 .. r.len : u.pools[Owned[1]][n] = r.pools[Owned[1]][n]
    BY <1>9, TypeFacts
  <2>2. \A n \in 1 .. pos : n = pos \/ n \in 1 .. r.len
    BY <1>1, <1>2
  <2>3. pos \in 1 .. pos /\ \A n \in 1 .. r.len : n \in 1 .. pos
    BY <1>1, <1>2
  <2> QED BY <1>7, <2>1, <2>2, <2>3 DEF In
<1> QED BY <1>7, <1>8, <1>10, <1>11, <1>12 DEF Reacted

(* It leaves for the last place of the group.                              *)
LEMMA LeaveFacts ==
  ASSUME NEW r, Placed(r), NEW e, In(r, "owning", e),
         NEW u, u = SwapElements([r EXCEPT !.len = @ - 1], r.len, e)
  PROVE  /\ Reacted(r, u, e) /\ u.elem = r.elem /\ u.len = r.len - 1
         /\ \A x : In(u, "owning", x) <=> In(r, "owning", x) /\ x # e
         /\ \A t \in ToSet(Owned) :
              \E q \in 1 .. r.len : r.pools[t][q] = e /\ Swapped(r.pools[t], r.len, q, u.pools[t])
<1>1. r \in Regs /\ r.len \in Nat
  BY DEF Placed, Regs
<1>2. PICK q \in 1 .. r.len : r.pools[Owned[1]][q] = e
  BY DEF In
<1>3. PICK v, pos : v = [r EXCEPT !.len = @ - 1] /\ pos = r.len
  OBVIOUS
<1>4. u = SwapElements(v, pos, e)
  BY <1>3
<1>5. v \in Regs /\ v.pools = r.pools /\ v.elem = r.elem /\ v.len = pos - 1 /\ pos \in Nat \ {0}
  BY <1>1, <1>2, <1>3 DEF Regs
<1>6. \A t \in Types : IsInjective(r.pools[t]) /\ Len(r.pools[t]) \in Nat
  BY <1>1, RegParts, SeqFacts DEF Placed
<1>7. ASSUME NEW t \in ToSet(Owned)
      PROVE  /\ pos \in 1 .. Len(r.pools[t]) /\ q \in 1 .. Len(r.pools[t])
             /\ e \in ToSet(r.pools[t]) /\ r.pools[t][q] = e /\ Pos(r.pools[t], e) = q
  <2>1. r.len <= Len(r.pools[t]) /\ Len(r.pools[t]) \in Nat
    BY <1>6, TypeFacts DEF Placed
  <2>2. q \in 1 .. Len(r.pools[t]) /\ e \in ToSet(r.pools[t]) /\ r.pools[t][q] = e
        /\ Pos(r.pools[t], e) = q
    BY <1>2, InFacts
  <2> QED BY <1>3, <1>5, <2>1, <2>2
<1>8. /\ u \in Regs /\ u.len = pos - 1 /\ u.elem = r.elem
      /\ \A t \in Types : IsInjective(u.pools[t])
      /\ Same(v, u)
      /\ \A t \in Types \ ToSet(Owned) : u.pools[t] = r.pools[t]
      /\ \A t \in ToSet(Owned) : Swapped(r.pools[t], pos, Pos(r.pools[t], e), u.pools[t])
  BY <1>4, <1>5, <1>6, <1>7, SwapFacts
<1>9. Same(r, u)
  BY <1>5, <1>8 DEF Same
<1>10. \A t \in ToSet(Owned) : Swapped(r.pools[t], pos, q, u.pools[t])
  BY <1>7, <1>8
<1>11. ASSUME NEW t \in ToSet(Owned), NEW n \in 1 .. pos - 1
       PROVE  u.pools[t][n] = IF n = q THEN r.pools[Owned[1]][pos] ELSE r.pools[Owned[1]][n]
  <2>1. n \in 1 .. r.len /\ pos \in 1 .. r.len /\ n # pos /\ n \in 1 .. Len(r.pools[t])
    BY <1>3, <1>5, <1>6, <1>7, TypeFacts
  <2>2. r.pools[t][n] = r.pools[Owned[1]][n] /\ r.pools[t][pos] = r.pools[Owned[1]][pos]
    BY <2>1 DEF Placed
  <2> QED BY <2>1, <2>2, <1>10 DEF Swapped
<1>12. Placed(u)
  <2>1. ASSUME NEW t \in ToSet(Owned)
        PROVE  /\ u.len <= Len(u.pools[t])
               /\ \A n \in 1 .. u.len : u.pools[t][n] = u.pools[Owned[1]][n]
    <3>1. Owned[1] \in ToSet(Owned)
      BY TypeFacts
    <3>2. u.len <= Len(u.pools[t])
      <4>1. Len(u.pools[t]) = Len(r.pools[t]) /\ Len(r.pools[t]) \in Nat
        BY <1>6, <1>10, TypeFacts DEF Swapped
      <4> QED BY <4>1, <1>5, <1>7, <1>8
    <3> QED BY <1>8, <1>11, <3>1, <3>2
  <2>2. IsInjective(u.elem)
    BY <1>8 DEF Placed
  <2> QED BY <1>8, <2>1, <2>2 DEF Placed
<1>13. Kept(r, u, e)
  <2> SUFFICES ASSUME NEW p \in Types, NEW m \in Nat,
                      p \in ToSet(Owned) =>
                        r.len <= m /\ \E n \in 1 .. Len(r.pools[p]) : n <= m /\ r.pools[p][n] = e
               PROVE  /\ p \in ToSet(Owned) => u.len <= m
                      /\ \A n \in 1 .. Len(r.pools[p]) : n > m => u.pools[p][n] = r.pools[p][n]
    BY DEF Kept
  <2>1. CASE p \in ToSet(Owned)
    <3>1. pos <= m /\ q <= pos
      BY <1>3, <2>1
    <3>2. Swapped(r.pools[p], pos, q, u.pools[p]) /\ Len(r.pools[p]) \in Nat
      BY <2>1, <1>6, <1>10
    <3> QED BY SMTT(60), <3>1, <3>2, <1>3, <1>5, <1>8 DEF Swapped
  <2>2. CASE p \notin ToSet(Owned)
    BY <2>2, <1>8
  <2> QED BY <2>1, <2>2
<1>14. ASSUME NEW x PROVE In(u, "owning", x) <=> In(r, "owning", x) /\ x # e
  <2>1. PICK s, w : s = r.pools[Owned[1]] /\ w = u.pools[Owned[1]]
    OBVIOUS
  <2>2. Owned[1] \in ToSet(Owned) /\ Owned[1] \in Types
    BY TypeFacts
  <2>3. \A n \in 1 .. pos - 1 : w[n] = IF n = q THEN s[pos] ELSE s[n]
    BY <1>11, <2>1, <2>2
  <2>4. \A i, j \in 1 .. Len(s) : s[i] = s[j] => i = j
    BY <1>1, <1>6, <2>1, <2>2, RegParts, ElementsIs
  <2>5. pos <= Len(s) /\ Len(s) \in Nat
    BY <1>6, <1>7, <2>1, <2>2
  <2>6. ASSUME NEW n \in 1 .. pos - 1, w[n] = x
        PROVE  \E i \in 1 .. pos : s[i] = x /\ x # e
    <3>1. n \in 1 .. pos /\ pos \in 1 .. pos /\ n \in 1 .. Len(s) /\ pos \in 1 .. Len(s)
          /\ q \in 1 .. Len(s) /\ s[q] = e
      BY <1>2, <1>3, <1>5, <2>1, <2>5
    <3>2. CASE n = q
      <4>1. s[pos] = x /\ pos # q
        BY <3>2, <2>3, <2>6, <1>5
      <4> QED BY <4>1, <3>1, <2>4
    <3>3. CASE n # q
      <4>1. s[n] = x
        BY <3>3, <2>3, <2>6
      <4> QED BY <4>1, <3>1, <3>3, <2>4
    <3> QED BY <3>2, <3>3
  <2>7. ASSUME NEW i \in 1 .. pos, s[i] = x, x # e
        PROVE  \E n \in 1 .. pos - 1 : w[n] = x
    <3>1. i # q
      BY <1>2, <2>1, <2>7
    <3>2. CASE i = pos
      <4>1. q \in 1 .. pos - 1
        BY <1>2, <1>3, <1>5, <3>1, <3>2
      <4>2. w[q] = x
        BY <2>3, <2>7, <3>2, <4>1
      <4> QED BY <4>1, <4>2
    <3>3. CASE i # pos
      <4>1. i \in 1 .. pos - 1
        BY <1>5, <3>3
      <4> QED BY <2>3, <2>7, <3>1, <4>1
    <3> QED BY <3>2, <3>3
  <2>8. In(u, "owning", x) <=> \E n \in 1 .. pos - 1 : w[n] = x
    BY <1>8, <2>1 DEF In
  <2>9. In(r, "owning", x) <=> \E n \in 1 .. pos : s[n] = x
    BY <1>3, <2>1 DEF In
  <2> QED BY <2>6, <2>7, <2>8, <2>9
<1>15. \A t \in ToSet(Owned) :
         \E k \in 1 .. r.len : r.pools[t][k] = e /\ Swapped(r.pools[t], r.len, k, u.pools[t])
  BY <1>3, <1>7, <1>10
<1> QED BY <1>3, <1>8, <1>9, <1>12, <1>13, <1>14, <1>15 DEF Reacted

-------------------------------------------------------------------------------
(* What the listeners of the library do.                                   *)

(* The two signals of a pool.                                              *)
Signals == {"construct", "destroy"}

(* Whether e is in the group after it was told of e.                       *)
Told(r, g, signal, t, e) ==
  CASE t \in Need(g) /\ signal = "construct" ->
         In(r, g, e) \/ (HasAll(r, Need(g), e) /\ Excluded(r, Bars(g), e) = 0)
    [] t \in Bars(g) /\ signal = "destroy" ->
         In(r, g, e) \/ (HasAll(r, Need(g), e) /\ Excluded(r, Bars(g), e) = 1)
    [] OTHER -> FALSE

(* In u the group g has e if so, and all else is as in r.                  *)
Becomes(r, u, g, e, so) ==
  /\ In(u, g, e) <=> so
  /\ \A h \in Groupings : \A x : (h # g \/ x # e) => (In(u, h, x) <=> In(r, h, x))

(* A group that stays as it is.                                            *)
LEMMA BecomesSame ==
  ASSUME NEW r, Placed(r), NEW g, NEW e, NEW so, In(r, g, e) <=> so
  PROVE  Reacted(r, r, e) /\ Becomes(r, r, g, e, so)
BY SameRefl DEF Becomes

(* The test of the handler for an entity that is in the group already.     *)
LEMMA BehindFacts ==
  ASSUME NEW r, Placed(r), NEW e, Has(r, Owned[1], e)
  PROVE  /\ Pos(r.pools[Owned[1]], e) > r.len <=> ~ In(r, "owning", e)
         /\ Pos(r.pools[Owned[1]], e) <= r.len <=> In(r, "owning", e)
<1>1. PICK s \in Seq(Entities) : s = r.pools[Owned[1]] /\ IsInjective(s)
  BY TypeFacts, RegParts DEF Placed
<1>2. e \in ToSet(s)
  BY <1>1 DEF Has
<1>3. PICK n \in 1 .. Len(s) : n = Pos(s, e) /\ s[n] = e
  BY <1>1, <1>2, PosFacts
<1>4. r.len \in Nat /\ Len(s) \in Nat
  BY SeqFacts, RegParts DEF Placed
<1>5. n <= r.len => In(r, "owning", e)
  BY <1>1, <1>3, <1>4 DEF In
<1>6. ASSUME In(r, "owning", e) PROVE n <= r.len
  <2>1. PICK k \in 1 .. r.len : s[k] = e
    BY <1>1, <1>6 DEF In
  <2>2. Pos(r.pools[Owned[1]], e) = k
    BY <1>1, <2>1, InFacts, TypeFacts
  <2> QED BY <1>1, <1>3, <1>4, <2>1, <2>2
<1>7. n > r.len <=> ~ (n <= r.len)
  BY <1>3, <1>4
<1> QED BY <1>1, <1>3, <1>5, <1>6, <1>7

(* An entity of the group that owns pools has the elements of all of them. *)
LEMMA OwnElements ==
  ASSUME NEW r, NEW u, u.elem = r.elem, NEW e, NEW so,
         \A x : In(u, "owning", x) <=> IF x = e THEN so ELSE In(r, "owning", x)
  PROVE  Becomes(r, u, "owning", e, so)
<1>1. \A x : In(u, "observing", x) <=> In(r, "observing", x)
  BY DEF In
<1> QED BY <1>1 DEF Becomes, Groupings

(* What PushOnConstruct and PushOnDestroy do, whatever they ask of the     *)
(* excluded pools.                                                         *)
LEMMA JoinIf ==
  ASSUME NEW r, Placed(r), NEW e, NEW u, NEW n \in {0, 1},
         u = IF Candidate(r, e) /\ Excluded(r, Exclude, e) = n THEN Joined(r, e) ELSE r
  PROVE  /\ Reacted(r, u, e)
         /\ Becomes(r, u, "owning", e,
                    In(r, "owning", e) \/ (HasAll(r, Members, e) /\ Excluded(r, Exclude, e) = n))
<1>1. CASE Candidate(r, e) /\ Excluded(r, Exclude, e) = n
  <2>1. HasAll(r, Members, e) /\ Pos(r.pools[Owned[1]], e) > r.len /\ u = Joined(r, e)
    BY <1>1 DEF Candidate
  <2>2. /\ Reacted(r, u, e) /\ u.elem = r.elem
        /\ \A x : In(u, "owning", x) <=> In(r, "owning", x) \/ x = e
    BY <2>1, JoinFacts
  <2> QED BY <1>1, <2>1, <2>2, OwnElements
<1>2. CASE ~ (Candidate(r, e) /\ Excluded(r, Exclude, e) = n)
  <2>1. u = r
    BY <1>2
  <2>2. HasAll(r, Members, e) => Has(r, Owned[1], e)
    BY TypeFacts DEF HasAll
  <2>3. HasAll(r, Members, e) /\ Excluded(r, Exclude, e) = n => In(r, "owning", e)
    BY <1>2, <2>2, BehindFacts DEF Candidate
  <2>4. PICK so : so = (In(r, "owning", e) \/ (HasAll(r, Members, e) /\ Excluded(r, Exclude, e) = n))
    OBVIOUS
  <2>5. In(r, "owning", e) <=> so
    BY <2>3, <2>4
  <2> QED BY <2>1, <2>4, <2>5, BecomesSame
<1> QED BY <1>1, <1>2

(* What RemoveIf does.                                                     *)
LEMMA LeaveIf ==
  ASSUME NEW r, Placed(r), NEW e, NEW u, u = RemoveIf(r, e)
  PROVE  Reacted(r, u, e) /\ Becomes(r, u, "owning", e, FALSE)
<1>1. CASE Has(r, Owned[1], e) /\ Pos(r.pools[Owned[1]], e) <= r.len
  <2>1. In(r, "owning", e)
    BY <1>1, BehindFacts
  <2>2. u = SwapElements([r EXCEPT !.len = @ - 1], r.len, e)
    BY <1>1 DEF RemoveIf
  <2>3. /\ Reacted(r, u, e) /\ u.elem = r.elem
        /\ \A x : In(u, "owning", x) <=> In(r, "owning", x) /\ x # e
    BY <2>1, <2>2, LeaveFacts
  <2> QED BY <2>3, OwnElements
<1>2. CASE ~ (Has(r, Owned[1], e) /\ Pos(r.pools[Owned[1]], e) <= r.len)
  <2>1. u = r
    BY <1>2 DEF RemoveIf
  <2>2. ~ In(r, "owning", e)
    <3>1. ASSUME In(r, "owning", e) PROVE Has(r, Owned[1], e)
      <4>1. PICK k \in 1 .. r.len : r.pools[Owned[1]][k] = e
        BY <3>1 DEF In
      <4> QED BY <4>1, InFacts, TypeFacts DEF Has
    <3> QED BY <1>2, <3>1, BehindFacts
  <2>3. PICK so : so = FALSE
    OBVIOUS
  <2>4. In(r, "owning", e) <=> so
    BY <2>2, <2>3
  <2> QED BY <2>1, <2>3, <2>4, BecomesSame
<1> QED BY <1>1, <1>2

(* A listener of the group that owns pools.                                *)
LEMMA OwningReactsFacts ==
  ASSUME NEW r, Placed(r), NEW signal \in Signals, NEW t \in Concerns("owning"), NEW e,
         NEW u, u = OwningReacts(r, signal, t, e)
  PROVE  Reacted(r, u, e) /\ Becomes(r, u, "owning", e, Told(r, "owning", signal, t, e))
<1>1. Need("owning") = Members /\ Bars("owning") = Exclude
  BY DEF Need, Bars
<1>2. Members \cap Exclude = {}
  BY GroupAssumption
<1>3. CASE t \in Members /\ signal = "construct"
  <2>1. u = PushOnConstruct(r, e)
    BY <1>3 DEF OwningReacts
  <2>2. Told(r, "owning", signal, t, e) =
          (In(r, "owning", e) \/ (HasAll(r, Members, e) /\ Excluded(r, Exclude, e) = 0))
    BY <1>1, <1>3 DEF Told
  <2> QED BY <2>1, <2>2, JoinIf DEF PushOnConstruct
<1>4. CASE t \in Exclude /\ signal = "destroy"
  <2>1. u = PushOnDestroy(r, e)
    BY <1>4 DEF OwningReacts
  <2>2. Told(r, "owning", signal, t, e) =
          (In(r, "owning", e) \/ (HasAll(r, Members, e) /\ Excluded(r, Exclude, e) = 1))
    BY <1>1, <1>4 DEF Told
  <2> QED BY <2>1, <2>2, JoinIf DEF PushOnDestroy
<1>5. CASE ~ (t \in Members /\ signal = "construct") /\ ~ (t \in Exclude /\ signal = "destroy")
  <2>1. u = RemoveIf(r, e)
    BY <1>5 DEF OwningReacts
  <2>2. Told(r, "owning", signal, t, e) = FALSE
    BY <1>1, <1>5 DEF Told
  <2> QED BY <2>1, <2>2, LeaveIf
<1> QED BY <1>3, <1>4, <1>5

-------------------------------------------------------------------------------
(* The same of the group that owns nothing.                                *)

(* The other group has nothing but elem: no pool notices what it does.     *)
LEMMA ElemChange ==
  ASSUME NEW r, Placed(r), NEW q \in Seq(Entities), IsInjective(q), NEW e,
         NEW so, ToSet(q) = IF so THEN ToSet(r.elem) \cup {e} ELSE ToSet(r.elem) \ {e},
         NEW u, u = [r EXCEPT !.elem = q]
  PROVE  Reacted(r, u, e) /\ Becomes(r, u, "observing", e, so)
<1>1. r \in Regs
  BY DEF Placed
<1>2. u \in Regs /\ u.pools = r.pools /\ u.len = r.len /\ u.elem = q
  BY <1>1 DEF Regs
<1>3. Placed(u)
  BY <1>2 DEF Placed
<1>4. Same(r, u) /\ Kept(r, u, e)
  BY <1>2 DEF Same, Kept
<1>5. \A x : In(u, "owning", x) <=> In(r, "owning", x)
  BY <1>2 DEF In
<1>6. \A x : In(u, "observing", x) <=> IF x = e THEN so ELSE In(r, "observing", x)
  BY <1>2 DEF In
<1> QED BY <1>3, <1>4, <1>5, <1>6 DEF Reacted, Becomes, Groupings

(* What ElemPushOnConstruct and ElemPushOnDestroy do.                      *)
LEMMA ElemJoinIf ==
  ASSUME NEW r, Placed(r), NEW e \in Entities, NEW u, NEW n \in {0, 1},
         u = IF Wanted(r, e) /\ Excluded(r, Filtered, e) = n
             THEN [r EXCEPT !.elem = Append(@, e)] ELSE r
  PROVE  /\ Reacted(r, u, e)
         /\ Becomes(r, u, "observing", e,
                    In(r, "observing", e) \/ (HasAll(r, ToSet(Observed), e) /\ Excluded(r, Filtered, e) = n))
<1>1. r.elem \in Seq(Entities) /\ IsInjective(r.elem) /\ \A x : In(r, "observing", x) <=> x \in ToSet(r.elem)
  BY RegParts DEF Placed, In
<1>2. CASE Wanted(r, e) /\ Excluded(r, Filtered, e) = n
  <2>1. PICK q : q = Append(r.elem, e)
    OBVIOUS
  <2>2. e \notin ToSet(r.elem) /\ HasAll(r, ToSet(Observed), e)
    BY <1>2 DEF Wanted
  <2>3. q \in Seq(Entities) /\ IsInjective(q) /\ ToSet(q) = ToSet(r.elem) \cup {e}
    BY <1>1, <2>1, <2>2, PushElements, PushInjective
  <2>4. u = [r EXCEPT !.elem = q]
    BY <1>2, <2>1
  <2>5. Reacted(r, u, e) /\ Becomes(r, u, "observing", e, TRUE)
    BY <2>3, <2>4, ElemChange
  <2> QED BY <1>2, <2>2, <2>5 DEF Becomes
<1>3. CASE ~ (Wanted(r, e) /\ Excluded(r, Filtered, e) = n)
  <2>1. u = r
    BY <1>3
  <2>2. HasAll(r, ToSet(Observed), e) /\ Excluded(r, Filtered, e) = n => In(r, "observing", e)
    BY <1>1, <1>3 DEF Wanted
  <2>3. PICK so : so = (In(r, "observing", e) \/ (HasAll(r, ToSet(Observed), e) /\ Excluded(r, Filtered, e) = n))
    OBVIOUS
  <2>4. In(r, "observing", e) <=> so
    BY <2>2, <2>3
  <2> QED BY <2>1, <2>3, <2>4, BecomesSame
<1> QED BY <1>2, <1>3

(* What ElemRemoveIf does.                                                 *)
LEMMA ElemLeaveIf ==
  ASSUME NEW r, Placed(r), NEW e, NEW u, u = ElemRemoveIf(r, e)
  PROVE  Reacted(r, u, e) /\ Becomes(r, u, "observing", e, FALSE)
<1>1. r.elem \in Seq(Entities) /\ IsInjective(r.elem) /\ \A x : In(r, "observing", x) <=> x \in ToSet(r.elem)
  BY RegParts DEF Placed, In
<1>2. CASE e \in ToSet(r.elem)
  <2>1. PICK q : q = Without(r.elem, e)
    OBVIOUS
  <2>2. q \in Seq(Entities) /\ IsInjective(q) /\ ToSet(q) = ToSet(r.elem) \ {e}
    BY <1>1, <1>2, <2>1, WithoutFacts
  <2>3. u = [r EXCEPT !.elem = q]
    BY <1>2, <2>1 DEF ElemRemoveIf
  <2> QED BY <2>2, <2>3, ElemChange
<1>3. CASE e \notin ToSet(r.elem)
  <2>1. u = r
    BY <1>3 DEF ElemRemoveIf
  <2>2. PICK so : so = FALSE
    OBVIOUS
  <2>3. In(r, "observing", e) <=> so
    BY <1>1, <1>3, <2>2
  <2> QED BY <2>1, <2>2, <2>3, BecomesSame
<1> QED BY <1>2, <1>3

(* A listener of the group that owns nothing.                              *)
LEMMA ElemReactsFacts ==
  ASSUME NEW r, Placed(r), NEW signal \in Signals, NEW t \in Concerns("observing"), NEW e \in Entities,
         NEW u, u = ElemReacts(r, signal, t, e)
  PROVE  Reacted(r, u, e) /\ Becomes(r, u, "observing", e, Told(r, "observing", signal, t, e))
<1>1. Need("observing") = ToSet(Observed) /\ Bars("observing") = Filtered
  BY DEF Need, Bars
<1>2. ToSet(Observed) \cap Filtered = {}
  BY GroupAssumption
<1>3. CASE t \in ToSet(Observed) /\ signal = "construct"
  <2>1. u = ElemPushOnConstruct(r, e)
    BY <1>3 DEF ElemReacts
  <2>2. Told(r, "observing", signal, t, e) =
          (In(r, "observing", e) \/ (HasAll(r, ToSet(Observed), e) /\ Excluded(r, Filtered, e) = 0))
    BY <1>1, <1>3 DEF Told
  <2> QED BY <2>1, <2>2, ElemJoinIf DEF ElemPushOnConstruct
<1>4. CASE t \in Filtered /\ signal = "destroy"
  <2>1. u = ElemPushOnDestroy(r, e)
    BY <1>4 DEF ElemReacts
  <2>2. Told(r, "observing", signal, t, e) =
          (In(r, "observing", e) \/ (HasAll(r, ToSet(Observed), e) /\ Excluded(r, Filtered, e) = 1))
    BY <1>1, <1>4 DEF Told
  <2> QED BY <2>1, <2>2, ElemJoinIf DEF ElemPushOnDestroy
<1>5. CASE ~ (t \in ToSet(Observed) /\ signal = "construct") /\ ~ (t \in Filtered /\ signal = "destroy")
  <2>1. u = ElemRemoveIf(r, e)
    BY <1>5 DEF ElemReacts
  <2>2. Told(r, "observing", signal, t, e) = FALSE
    BY <1>1, <1>5 DEF Told
  <2> QED BY <2>1, <2>2, ElemLeaveIf
<1> QED BY <1>3, <1>4, <1>5

(* A listener of the library, or of the program.                           *)
LEMMA ReactFacts ==
  ASSUME NEW r, Placed(r), NEW who \in Groupings, NEW signal \in Signals, NEW t \in Concerns(who),
         NEW e \in Entities, NEW u, u = React(r, who, signal, t, e)
  PROVE  Reacted(r, u, e) /\ Becomes(r, u, who, e, Told(r, who, signal, t, e))
<1>1. CASE who = "owning"
  BY <1>1, OwningReactsFacts DEF React
<1>2. CASE who = "observing"
  BY <1>2, ElemReactsFacts DEF React
<1> QED BY <1>1, <1>2 DEF Groupings

-------------------------------------------------------------------------------
(* Folds: one lemma for the steps of every fold of the module.             *)

(* What the fold what does with x and the element at place i.              *)
Turn(what, x, i) ==
  CASE what.step = "destroy" -> React(x, what.seq[i], "destroy", what.type, what.entt)
    [] what.step = "clear"   -> Destroying(x, what.type, x.pools[what.type][what.size + 1 - i])
    [] what.step = "remove"  -> RemoveFrom(x, Pools[i], what.entt)
    [] what.step = "setup"   -> PushOnConstruct(x, x.pools[Owned[1]][i])
    [] what.step = "gather"  -> ElemPushOnConstruct(x, what.seq[i])
    [] what.step = "follow"  -> Exchanged(x, what.size + 1 - i, Pos(x, what.seq[what.size + 1 - i]))

(* From the front or from the back: the place of step k, and those of the  *)
(* first k steps.                                                          *)
Ways == {"front", "back"}
Place(way, n, k)  == IF way = "back" THEN n + 1 - k ELSE k
Places(way, n, k) == IF way = "back" THEN n + 1 - k .. n ELSE 1 .. k
Newest(way, u)    == IF way = "back" THEN Min(u) ELSE Max(u)

(* h is that fold over the sets of the places of the first k steps.        *)
IsFoldOf(h, what, n, b, way, k) ==
  h = [u \in SUBSET Places(way, n, k) |->
         IF u = {} THEN b ELSE Turn(what, h[u \ {Newest(way, u)}], Newest(way, u))]

(* Step k comes to a place of its own, the newest of those of its steps.   *)
NewPlace(way, n, k) ==
  LET p == Place(way, n, k)
      P == Places(way, n, k - 1)
      Q == Places(way, n, k)
  IN  /\ p \notin P /\ p \in 1 .. n /\ Q = P \cup {p} /\ Q \subseteq 1 .. n
      /\ \A u \in SUBSET Q : p \in u => Newest(way, u) = p

(* The place that is looked at next is the newest of those looked at.      *)
LEMMA PlacesFacts ==
  ASSUME NEW n \in Nat, NEW way \in Ways
  PROVE  /\ Places(way, n, 0) = {} /\ Places(way, n, n) = 1 .. n
         /\ \A k \in 1 .. n : NewPlace(way, n, k)
<1>1. Places(way, n, 0) = {} /\ Places(way, n, n) = 1 .. n
  BY DEF Places
<1>2. ASSUME NEW k \in 1 .. n
      PROVE  /\ Place(way, n, k) \notin Places(way, n, k - 1)
             /\ Place(way, n, k) \in 1 .. n
             /\ Places(way, n, k) = Places(way, n, k - 1) \cup {Place(way, n, k)}
             /\ Places(way, n, k) \subseteq 1 .. n
  BY DEF Places, Place
<1>3. ASSUME NEW k \in 1 .. n, NEW u \in SUBSET Places(way, n, k), Place(way, n, k) \in u
      PROVE  Newest(way, u) = Place(way, n, k)
  <2>1. u \subseteq 1 .. n /\ u \subseteq Nat /\ u # {}
    BY <1>3 DEF Places
  <2>2. CASE way = "back"
    <3>1. PICK m : m = Min(u)
      OBVIOUS
    <3>2. m \in u /\ \A x \in u : m <= x
      BY <2>1, <3>1, LeastExists
    <3>3. n + 1 - k \in u /\ u \subseteq n + 1 - k .. n
      BY <1>3, <2>2 DEF Place, Places
    <3>4. m = n + 1 - k
      BY ONLY <3>2, <3>3, n \in Nat, k \in 1 .. n
    <3> QED BY <2>2, <3>1, <3>4 DEF Newest, Place
  <2>3. CASE way # "back"
    <3>1. PICK m : m = Max(u)
      OBVIOUS
    <3>2. m \in u /\ \A x \in u : x <= m
      BY <2>1, <3>1, LastExists
    <3>3. k \in u /\ u \subseteq 1 .. k
      BY <1>3, <2>3 DEF Place, Places
    <3>4. m = k
      BY ONLY <3>2, <3>3, n \in Nat, k \in 1 .. n
    <3> QED BY <2>3, <3>1, <3>4 DEF Newest, Place
  <2> QED BY <2>2, <2>3
<1>4. \A k \in 1 .. n : NewPlace(way, n, k)
  BY <1>2, <1>3 DEF NewPlace
<1> QED BY <1>1, <1>4

(* There is such a function: recursion over the number of steps.           *)
LEMMA StepsExist ==
  ASSUME NEW n \in Nat, NEW what, NEW b, NEW way \in Ways
  PROVE  \E h : IsFoldOf(h, what, n, b, way, n)
<1> DEFINE T == {k \in Nat : \E h : IsFoldOf(h, what, n, b, way, k)}
<1>1. 0 \in T
  <2>1. PICK h : h = [u \in SUBSET Places(way, n, 0) |-> b]
    OBVIOUS
  <2>2. \A u \in SUBSET Places(way, n, 0) : u = {}
    BY PlacesFacts
  <2>3. h = [u \in SUBSET Places(way, n, 0) |->
               IF u = {} THEN b ELSE Turn(what, h[u \ {Newest(way, u)}], Newest(way, u))]
    BY <2>1, <2>2
  <2> QED BY <2>3 DEF IsFoldOf
<1>2. ASSUME NEW k \in 1 .. n, k - 1 \in T PROVE k \in T
  <2>1. PICK g : IsFoldOf(g, what, n, b, way, k - 1)
    BY <1>2
  <2>2. \A u \in SUBSET Places(way, n, k - 1) :
          g[u] = IF u = {} THEN b ELSE Turn(what, g[u \ {Newest(way, u)}], Newest(way, u))
    BY <2>1 DEF IsFoldOf
  <2>3. PICK p, P, Q : p = Place(way, n, k) /\ P = Places(way, n, k - 1) /\ Q = Places(way, n, k)
    OBVIOUS
  <2>4. p \notin P /\ Q = P \cup {p} /\ \A u \in SUBSET Q : p \in u => Newest(way, u) = p
    <3>1. NewPlace(way, n, k)
      BY PlacesFacts
    <3> QED BY <3>1, <2>3 DEF NewPlace
  <2>5. PICK h : h = [u \in SUBSET Q |-> IF p \in u THEN Turn(what, g[u \ {p}], p) ELSE g[u]]
    OBVIOUS
  <2>6. ASSUME NEW u \in SUBSET Q
        PROVE  (IF p \in u THEN Turn(what, g[u \ {p}], p) ELSE g[u])
                 = IF u = {} THEN b ELSE Turn(what, h[u \ {Newest(way, u)}], Newest(way, u))
    <3>1. CASE p \in u
      <4>1. u # {} /\ Newest(way, u) = p
        BY <3>1, <2>4
      <4>2. u \ {p} \in SUBSET Q /\ p \notin u \ {p}
        OBVIOUS
      <4>3. h[u \ {p}] = g[u \ {p}]
        BY <4>2, <2>5
      <4> QED BY <3>1, <4>1, <4>3
    <3>2. CASE p \notin u
      <4>1. u \in SUBSET P
        BY <3>2, <2>4
      <4>2. u \ {Newest(way, u)} \in SUBSET Q /\ p \notin u \ {Newest(way, u)}
        BY <3>2
      <4>3. h[u \ {Newest(way, u)}] = g[u \ {Newest(way, u)}]
        BY <4>2, <2>5
      <4>4. g[u] = IF u = {} THEN b ELSE Turn(what, g[u \ {Newest(way, u)}], Newest(way, u))
        BY <4>1, <2>2, <2>3
      <4> QED BY <3>2, <4>3, <4>4
    <3> QED BY <3>1, <3>2
  <2>7. h = [u \in SUBSET Q |->
               IF u = {} THEN b ELSE Turn(what, h[u \ {Newest(way, u)}], Newest(way, u))]
    BY <2>5, <2>6
  <2>8. IsFoldOf(h, what, n, b, way, k)
    BY ONLY <2>7, <2>3 DEF IsFoldOf
  <2> QED BY <2>8
<1>3. \A k \in 0 .. n : k \in T
  <2> HIDE DEF T
  <2> QED BY <1>1, <1>2, CountUp
<1>4. n \in 0 .. n
  OBVIOUS
<1> QED BY <1>3, <1>4

(* c are the values of a fold after 0, 1, .. n steps.                      *)
IsRun(c, what, n, b, way) ==
  /\ c[0] = b
  /\ \A k \in 1 .. n : c[k] = Turn(what, c[k - 1], Place(way, n, k))

(* The fold is reached step after step.                                    *)
LEMMA StepsRun ==
  ASSUME NEW n \in Nat, NEW what, NEW b, NEW way \in Ways,
         NEW h, IsFoldOf(h, what, n, b, way, n)
  PROVE  \E c : IsRun(c, what, n, b, way) /\ c[n] = h[1 .. n]
<1>1. PICK Q : Q = Places(way, n, n) /\ Q = 1 .. n
  BY PlacesFacts
<1>2. \A u \in SUBSET Q :
        h[u] = IF u = {} THEN b ELSE Turn(what, h[u \ {Newest(way, u)}], Newest(way, u))
  BY <1>1 DEF IsFoldOf
<1>3. PICK c : c = [k \in 0 .. n |-> h[Places(way, n, k)]]
  OBVIOUS
<1>4. c[0] = b
  <2>1. Places(way, n, 0) = {} /\ {} \in SUBSET Q /\ 0 \in 0 .. n
    BY PlacesFacts
  <2>2. c[0] = h[{}]
    BY <2>1, <1>3
  <2> QED BY <2>1, <2>2, <1>2
<1>5. ASSUME NEW k \in 1 .. n PROVE c[k] = Turn(what, c[k - 1], Place(way, n, k))
  <2>1. k \in 0 .. n /\ k - 1 \in 0 .. n
    OBVIOUS
  <2>2. PICK p, P, R : p = Place(way, n, k) /\ P = Places(way, n, k - 1) /\ R = Places(way, n, k)
    OBVIOUS
  <2>3. /\ p \notin P /\ R = P \cup {p} /\ R \subseteq 1 .. n
        /\ \A u \in SUBSET R : p \in u => Newest(way, u) = p
    <3>1. NewPlace(way, n, k)
      BY PlacesFacts
    <3> QED BY <3>1, <2>2 DEF NewPlace
  <2>4. R \in SUBSET Q
    BY <1>1, <2>3
  <2>5. h[R] = Turn(what, h[R \ {p}], p)
    BY <1>2, <2>3, <2>4
  <2>6. R \ {p} = P
    BY <2>3
  <2> QED BY <1>3, <2>1, <2>2, <2>5, <2>6
<1>6. c[n] = h[1 .. n]
  <2>1. n \in 0 .. n
    OBVIOUS
  <2> QED BY <2>1, <1>1, <1>3
<1> QED BY <1>4, <1>5, <1>6 DEF IsRun

-------------------------------------------------------------------------------
(* The listeners of one signal, one after the other.                       *)

(* Two listeners, one after the other.                                     *)
LEMMA ReactedTrans ==
  ASSUME NEW r, NEW s, NEW u, NEW e, Placed(r), Reacted(r, s, e), Reacted(s, u, e)
  PROVE  Reacted(r, u, e)
<1>1. Placed(s) /\ Placed(u) /\ Same(r, s) /\ Same(s, u) /\ Kept(r, s, e) /\ Kept(s, u, e)
  BY DEF Reacted
<1>2. Same(r, u)
  BY <1>1 DEF Same
<1>3. ASSUME NEW p \in Types, NEW m \in Nat,
             p \in ToSet(Owned) =>
               r.len <= m /\ \E n \in 1 .. Len(r.pools[p]) : n <= m /\ r.pools[p][n] = e
      PROVE  /\ p \in ToSet(Owned) => u.len <= m
             /\ \A n \in 1 .. Len(r.pools[p]) : n > m => u.pools[p][n] = r.pools[p][n]
  <2>1. PICK x, y, z : x = r.pools[p] /\ y = s.pools[p] /\ z = u.pools[p]
    OBVIOUS
  <2>2. x \in Seq(Entities) /\ y \in Seq(Entities) /\ IsInjective(x) /\ IsInjective(y)
    BY <1>1, <2>1, RegParts DEF Placed
  <2>3. Len(y) = Len(x) /\ ToSet(y) = ToSet(x) /\ Len(x) \in Nat
    BY <1>1, <2>1, <2>2, SeqFacts DEF Same
  <2>4. /\ p \in ToSet(Owned) => s.len <= m
        /\ \A n \in 1 .. Len(x) : n > m => y[n] = x[n]
    BY <1>1, <1>3, <2>1 DEF Kept
  <2>5. ASSUME p \in ToSet(Owned) PROVE \E n \in 1 .. Len(y) : n <= m /\ y[n] = e
    <3>1. PICK i \in 1 .. Len(x) : i <= m /\ x[i] = e
      BY <1>3, <2>1, <2>5
    <3>2. ToSet(x) = {x[j] : j \in 1 .. Len(x)} /\ ToSet(y) = {y[j] : j \in 1 .. Len(y)}
          /\ \A j, k \in 1 .. Len(x) : x[j] = x[k] => j = k
      BY <2>2, ElementsIs
    <3>3. PICK k \in 1 .. Len(y) : y[k] = e
      BY <2>3, <3>1, <3>2
    <3>4. ASSUME k > m PROVE FALSE
      <4>1. x[k] = e
        BY <2>3, <2>4, <3>3, <3>4
      <4> QED BY <2>3, <3>1, <3>2, <3>4, <4>1
    <3> QED BY <3>3, <3>4, <2>3
  <2>6. /\ p \in ToSet(Owned) => u.len <= m
        /\ \A n \in 1 .. Len(y) : n > m => z[n] = y[n]
    BY <1>1, <2>1, <2>4, <2>5 DEF Kept
  <2> QED BY <2>1, <2>3, <2>4, <2>6
<1>4. Kept(r, u, e)
  BY <1>3 DEF Kept
<1> QED BY <1>1, <1>2, <1>4 DEF Reacted

(* What a listener decides depends on nothing that another group does.     *)
LEMMA ToldSame ==
  ASSUME NEW r, NEW s, Same(r, s), NEW g \in Groupings, NEW e, In(s, g, e) <=> In(r, g, e),
         NEW signal, NEW t
  PROVE  Told(s, g, signal, t, e) <=> Told(r, g, signal, t, e)
<1>1. Need(g) \in SUBSET Types /\ Bars(g) \in SUBSET Types
  BY TypeFacts
<1>2. /\ HasAll(s, Need(g), e) <=> HasAll(r, Need(g), e)
      /\ Excluded(s, Bars(g), e) = Excluded(r, Bars(g), e)
  BY <1>1, SameHas
<1>3. CASE t \in Need(g) /\ signal = "construct"
  BY <1>2, <1>3 DEF Told
<1>4. CASE ~ (t \in Need(g) /\ signal = "construct") /\ t \in Bars(g) /\ signal = "destroy"
  <2>1. t \notin Need(g)
    BY <1>4, TypeFacts
  <2> QED BY <1>2, <1>4, <2>1 DEF Told
<1>5. CASE ~ (t \in Need(g) /\ signal = "construct") /\ ~ (t \in Bars(g) /\ signal = "destroy")
  BY <1>5 DEF Told
<1> QED BY <1>3, <1>4, <1>5

(* u is r after the groups gs were told of e.                              *)
Notified(r, u, gs, signal, t, e) ==
  /\ Reacted(r, u, e)
  /\ \A g \in Groupings : \A x :
       In(u, g, x) <=> IF x = e /\ g \in gs THEN Told(r, g, signal, t, e) ELSE In(r, g, x)

(* No listener was told yet.                                               *)
LEMMA NotifiedNone ==
  ASSUME NEW r, Placed(r), NEW signal, NEW t, NEW e
  PROVE  Notified(r, r, {}, signal, t, e)
BY SameRefl DEF Notified

(* One listener more is told.                                              *)
LEMMA NotifiedMore ==
  ASSUME NEW r, Placed(r), NEW s, NEW gs, NEW signal \in Signals, NEW g \in Groupings \ gs,
         NEW t \in Concerns(g), NEW e \in Entities, Notified(r, s, gs, signal, t, e),
         NEW u, u = React(s, g, signal, t, e)
  PROVE  Notified(r, u, gs \cup {g}, signal, t, e)
<1>1. Reacted(r, s, e) /\ Placed(s) /\ Same(r, s)
  BY DEF Notified, Reacted
<1>2. Reacted(s, u, e) /\ Becomes(s, u, g, e, Told(s, g, signal, t, e))
  BY <1>1, ReactFacts
<1>3. Reacted(r, u, e)
  BY <1>1, <1>2, ReactedTrans
<1>4. \A h \in Groupings : \A x :
        In(s, h, x) <=> IF x = e /\ h \in gs THEN Told(r, h, signal, t, e) ELSE In(r, h, x)
  BY DEF Notified
<1>5. In(s, g, e) <=> In(r, g, e)
  BY <1>4
<1>6. Told(s, g, signal, t, e) <=> Told(r, g, signal, t, e)
  BY <1>1, <1>5, ToldSame
<1>7. /\ In(u, g, e) <=> Told(s, g, signal, t, e)
      /\ \A h \in Groupings : \A x : (h # g \/ x # e) => (In(u, h, x) <=> In(s, h, x))
  BY <1>2 DEF Becomes
<1>8. ASSUME NEW h \in Groupings, NEW x
      PROVE  In(u, h, x) <=> IF x = e /\ h \in gs \cup {g} THEN Told(r, h, signal, t, e) ELSE In(r, h, x)
  <2>1. CASE x = e /\ h = g
    BY <2>1, <1>6, <1>7
  <2>2. CASE x # e
    BY <2>2, <1>4, <1>7
  <2>3. CASE x = e /\ h # g
    BY <2>3, <1>4, <1>7
  <2> QED BY <2>1, <2>2, <2>3
<1> QED BY <1>3, <1>8 DEF Notified

(* The group leaves a pool as it is when the element that goes is behind   *)
(* it, or is the last one in it.                                           *)
Behind(r, t, e) ==
  t \in ToSet(Owned) => \E m \in 1 .. Len(r.pools[t]) : r.pools[t][m] = e /\ r.len <= m

(* A listener of the destruction of an element leaves the pool of such an  *)
(* element as it is.                                                       *)
LEMMA ReactStays ==
  ASSUME NEW r, Placed(r), NEW g \in Groupings, NEW t \in Concerns(g), NEW e \in Entities,
         Behind(r, t, e), NEW u, u = React(r, g, "destroy", t, e)
  PROVE  u.pools[t] = r.pools[t] /\ Behind(u, t, e)
<1>1. Reacted(r, u, e)
  BY ReactFacts DEF Signals
<1>2. t \in Types /\ Placed(u) /\ Same(r, u) /\ Kept(r, u, e)
  BY <1>1, TypeFacts DEF Reacted, Concerns
<1>3. PICK s \in Seq(Entities), w \in Seq(Entities) :
        s = r.pools[t] /\ w = u.pools[t] /\ IsInjective(s) /\ Len(w) = Len(s) /\ Len(s) \in Nat
  BY <1>2, RegParts, SeqFacts DEF Placed, Same
<1>4. CASE t \notin ToSet(Owned)
  <2>1. \A n \in 1 .. Len(s) : n > 0 /\ 0 \in Nat
    OBVIOUS
  <2>2. \A n \in 1 .. Len(s) : n > 0 => w[n] = s[n]
    BY <1>2, <1>3, <1>4 DEF Kept
  <2>3. w = s
    BY <1>3, <2>1, <2>2, SeqEqual
  <2> QED BY <1>3, <1>4, <2>3 DEF Behind
<1>5. CASE t \in ToSet(Owned)
  <2>1. PICK m \in 1 .. Len(s) : s[m] = e /\ r.len <= m
    BY <1>3, <1>5 DEF Behind
  <2>2. u.len <= m
    BY <1>2, <1>3, <1>5, <2>1 DEF Kept
  <2>3. w = s
    <3>1. CASE g = "observing"
      <4>1. t \notin Filtered \/ t \notin ToSet(Observed)
        BY GroupAssumption
      <4>2. u = ElemPushOnDestroy(r, e) \/ u = ElemRemoveIf(r, e)
        BY <3>1 DEF React, ElemReacts
      <4>3. u.pools = r.pools
        <5>1. r \in Regs
          BY DEF Placed
        <5> QED BY <4>2, <5>1 DEF ElemPushOnDestroy, ElemRemoveIf, Regs
      <4> QED BY <4>3, <1>3
    <3>2. CASE g = "owning"
      <4>1. t \in Members /\ t \notin Exclude
        BY <1>5, TypeFacts, GroupAssumption
      <4>2. u = RemoveIf(r, e)
        BY <3>2, <4>1 DEF React, OwningReacts
      <4>3. CASE u # r
        <5>1. Has(r, Owned[1], e) /\ Pos(r.pools[Owned[1]], e) <= r.len
              /\ u = SwapElements([r EXCEPT !.len = @ - 1], r.len, e)
          BY <4>2, <4>3 DEF RemoveIf
        <5>2. In(r, "owning", e)
          BY <5>1, BehindFacts
        <5>3. PICK q \in 1 .. r.len : s[q] = e /\ Swapped(s, r.len, q, w)
          BY <5>1, <5>2, <1>3, <1>5, LeaveFacts
        <5>4. r.len <= Len(s) /\ r.len \in Nat
          BY <1>3, <1>5, RegParts DEF Placed
        <5>5. q = m
          BY <5>3, <5>4, <1>3, <2>1, ElementsIs
        <5>6. q = r.len
          BY <5>3, <5>4, <5>5, <2>1
        <5>7. \A n \in 1 .. Len(s) : w[n] = s[n]
          BY <5>3, <5>6 DEF Swapped
        <5> QED BY <5>7, <1>3, SeqEqual
      <4> QED BY <4>3, <1>3
    <3> QED BY <3>1, <3>2 DEF Groupings
  <2> QED BY <1>3, <2>1, <2>2, <2>3 DEF Behind
<1> QED BY <1>4, <1>5

-------------------------------------------------------------------------------
(* Who listens to what.                                                    *)

(* Who listens. A group, once created, to each of its pools and to no      *)
(* other.                                                                  *)
Kinds == {"owning", "observing", "user"}

Listening ==
  /\ listeners \in [Signals -> [Types -> Seq(Kinds)]]
  /\ \A s \in Signals, t \in Types :
       /\ IsInjective(listeners[s][t])
       /\ \A g \in Groupings : g \in ToSet(listeners[s][t]) <=> Created(g) /\ t \in Concerns(g)
       /\ "user" \in ToSet(listeners[s][t]) => s = "construct"

(* The groups that pool t tells.                                           *)
Hearing(t) == {g \in Groupings : Created(g) /\ t \in Concerns(g)}

(* A group that was not created is empty.                                  *)
Absent(r) == \A g \in Groupings : ~ Created(g) => \A x : ~ In(r, g, x)

(* The list of a pool: each listener once, and exactly the groups it       *)
(* concerns.                                                               *)
LEMMA ListenersAre ==
  ASSUME Listening, NEW s \in Signals, NEW t \in Types, NEW ls, ls = listeners[s][t]
  PROVE  /\ ls \in Seq(Kinds) /\ Len(ls) \in Nat /\ DOMAIN ls = 1 .. Len(ls)
         /\ \A i, j \in 1 .. Len(ls) : ls[i] = ls[j] => i = j
         /\ \A g \in Groupings : g \in Hearing(t) <=> \E i \in 1 .. Len(ls) : ls[i] = g
         /\ \A i \in 1 .. Len(ls) : ls[i] \in Hearing(t) \/ (ls[i] = "user" /\ s = "construct")
<1>1. ls \in Seq(Kinds) /\ IsInjective(ls)
      /\ (\A g \in Groupings : g \in ToSet(ls) <=> Created(g) /\ t \in Concerns(g))
      /\ ("user" \in ToSet(ls) => s = "construct")
  BY DEF Listening
<1>2. /\ Len(ls) \in Nat /\ DOMAIN ls = 1 .. Len(ls) /\ \A i \in 1 .. Len(ls) : ls[i] \in Kinds
      /\ \A i, j \in 1 .. Len(ls) : ls[i] = ls[j] => i = j
      /\ ToSet(ls) = {ls[i] : i \in 1 .. Len(ls)}
  BY <1>1, SeqFacts, ElementsIs
<1>3. \A g \in Groupings : g \in Hearing(t) <=> \E i \in 1 .. Len(ls) : ls[i] = g
  BY <1>1, <1>2 DEF Hearing
<1>4. \A i \in 1 .. Len(ls) : ls[i] \in Hearing(t) \/ (ls[i] = "user" /\ s = "construct")
  <2> SUFFICES ASSUME NEW i \in 1 .. Len(ls)
               PROVE  ls[i] \in Hearing(t) \/ (ls[i] = "user" /\ s = "construct")
    OBVIOUS
  <2>1. ls[i] \in ToSet(ls) /\ ls[i] \in Kinds
    BY <1>2
  <2>2. CASE ls[i] = "user"
    BY <2>1, <2>2, <1>1
  <2>3. CASE ls[i] # "user"
    <3>1. ls[i] \in Groupings
      BY <2>1, <2>3 DEF Kinds, Groupings
    <3> QED BY <3>1, <1>3
  <2> QED BY <2>2, <2>3
<1> QED BY <1>1, <1>2, <1>3, <1>4

(* The c listeners of ls: the groups of t are among them.                  *)
Telling(t, ls, c) ==
  c \in Nat /\ \A g \in Groupings : g \in Hearing(t) <=> \E i \in 1 .. c : ls[i] = g

(* The listeners of a construction.                                        *)
LEMMA ConstructionTells ==
  ASSUME Listening, NEW t \in Types, NEW ls, NEW c, ls = listeners["construct"][t], c = Len(ls)
  PROVE  Telling(t, ls, c)
<1>1. PICK s \in Signals : s = "construct"
  BY DEF Signals
<1>2. ls = listeners[s][t]
  BY <1>1
<1>3. Len(ls) \in Nat /\ \A g \in Groupings : g \in Hearing(t) <=> \E i \in 1 .. Len(ls) : ls[i] = g
  BY <1>2, ListenersAre
<1>4. c \in Nat /\ \A g \in Groupings : g \in Hearing(t) <=> \E i \in 1 .. c : ls[i] = g
  BY <1>3
<1> QED BY <1>4 DEF Telling

(* The listeners of a destruction are called from the last to the first.   *)
Calling(c, r, u, t, e, q, n) ==
  /\ c[0] = r /\ c[n] = u
  /\ \A k \in 1 .. n : c[k] = React(c[k - 1], q[n + 1 - k], "destroy", t, e)

(* The fold of Destroying, as a run.                                       *)
LEMMA DestroyingFold ==
  ASSUME NEW r, NEW t, NEW e, NEW q, q = listeners["destroy"][t],
         NEW n \in Nat, DOMAIN q = 1 .. n
  PROVE  \E c : Calling(c, r, Destroying(r, t, e), t, e, q, n)
<1>1. PICK what : what = [step |-> "destroy", type |-> t, entt |-> e, seq |-> q]
  OBVIOUS
<1>2. \A x, i : Turn(what, x, i) = React(x, q[i], "destroy", t, e)
  BY <1>1 DEF Turn
<1>3. "back" \in Ways /\ \A u : Newest("back", u) = Min(u)
  BY DEF Newest, Ways
<1>4. PICK f : IsFoldOf(f, what, n, r, "back", n)
  BY <1>3, StepsExist
<1>5. Places("back", n, n) = 1 .. n
  BY <1>3, PlacesFacts
<1>6. f = [u \in SUBSET (1 .. n) |->
             IF u = {} THEN r ELSE React(f[u \ {Min(u)}], q[Min(u)], "destroy", t, e)]
  <2>1. ASSUME NEW u \in SUBSET (1 .. n)
        PROVE  (IF u = {} THEN r ELSE React(f[u \ {Min(u)}], q[Min(u)], "destroy", t, e))
                 = IF u = {} THEN r ELSE Turn(what, f[u \ {Newest("back", u)}], Newest("back", u))
    BY <1>2, <1>3
  <2> QED BY <2>1, <1>4, <1>5 DEF IsFoldOf
<1>7. PICK h :
        /\ h = [u \in SUBSET (1 .. n) |->
                 IF u = {} THEN r ELSE React(h[u \ {Min(u)}], q[Min(u)], "destroy", t, e)]
        /\ Destroying(r, t, e) = h[1 .. n]
  <2>1. Destroying(r, t, e) = FoldRight(LAMBDA who, s : React(s, who, "destroy", t, e), q, r)
    BY DEF Destroying
  <2> QED BY ZenonT(60), <2>1, <1>6, DOMAIN q = 1 .. n DEF FoldRight, MapThenFoldSet
<1>8. IsFoldOf(h, what, n, r, "back", n)
  <2>1. ASSUME NEW u \in SUBSET (1 .. n)
        PROVE  (IF u = {} THEN r ELSE React(h[u \ {Min(u)}], q[Min(u)], "destroy", t, e))
                 = IF u = {} THEN r ELSE Turn(what, h[u \ {Newest("back", u)}], Newest("back", u))
    BY <1>2, <1>3
  <2> QED BY <2>1, <1>7, <1>5 DEF IsFoldOf
<1>9. PICK c : IsRun(c, what, n, r, "back") /\ c[n] = h[1 .. n]
  BY <1>3, <1>8, StepsRun
<1>10. \A k \in 1 .. n : c[k] = React(c[k - 1], q[n + 1 - k], "destroy", t, e)
  BY <1>2, <1>9 DEF IsRun, Place
<1> QED BY <1>7, <1>9, <1>10 DEF IsRun, Calling

(* Each group that listens to the pool is told once.                       *)
LEMMA DestroyingFacts ==
  ASSUME Listening, NEW r, Placed(r), NEW t \in Types, NEW e \in Entities,
         NEW u, u = Destroying(r, t, e)
  PROVE  /\ Notified(r, u, Hearing(t), "destroy", t, e)
         /\ Behind(r, t, e) => u.pools[t] = r.pools[t] /\ Behind(u, t, e)
<1>1. PICK q, n : q = listeners["destroy"][t] /\ n = Len(q)
  OBVIOUS
<1>2. /\ n \in Nat /\ DOMAIN q = 1 .. n
      /\ \A i, j \in 1 .. n : q[i] = q[j] => i = j
      /\ \A g \in Groupings : g \in Hearing(t) <=> \E i \in 1 .. n : q[i] = g
      /\ \A i \in 1 .. n : q[i] \in Hearing(t)
  BY <1>1, ListenersAre DEF Signals
<1>3. PICK c : /\ c[0] = r /\ c[n] = u
               /\ \A k \in 1 .. n : c[k] = React(c[k - 1], q[n + 1 - k], "destroy", t, e)
  <2>1. PICK c : Calling(c, r, Destroying(r, t, e), t, e, q, n)
    BY <1>1, <1>2, DestroyingFold
  <2> QED BY <2>1 DEF Calling
<1> DEFINE Heard(k) == {q[i] : i \in n + 1 - k .. n}
           T == {k \in 0 .. n :
                   /\ Notified(r, c[k], Heard(k), "destroy", t, e)
                   /\ Behind(r, t, e) => c[k].pools[t] = r.pools[t] /\ Behind(c[k], t, e)}
<1>4. 0 \in T
  <2>1. Heard(0) = {}
    BY <1>2
  <2>2. Notified(r, c[0], {}, "destroy", t, e)
    BY <1>3, NotifiedNone
  <2>3. 0 \in 0 .. n
    BY <1>2
  <2> HIDE DEF Heard
  <2>4. Notified(r, c[0], Heard(0), "destroy", t, e)
    BY <2>1, <2>2
  <2> QED BY <2>3, <2>4, <1>3
<1>5. ASSUME NEW k \in 1 .. n, k - 1 \in T PROVE k \in T
  <2>1. PICK s, g, p : s = c[k - 1] /\ p = n + 1 - k /\ g = q[p]
    OBVIOUS
  <2>2. p \in 1 .. n /\ p = n + 1 - k
    BY <2>1, <1>2
  <2>3. g \in Hearing(t)
    BY <1>2, <2>1, <2>2
  <2>4. g \in Groupings /\ t \in Concerns(g)
    BY <2>3 DEF Hearing
  <2>5. g \notin Heard(k - 1) /\ Heard(k) = Heard(k - 1) \cup {g}
    <3>1. \A i \in n + 1 - (k - 1) .. n : i \in 1 .. n /\ i # p
      BY <2>2, <1>2
    <3>2. \A i : i \in n + 1 - k .. n <=> i = p \/ i \in n + 1 - (k - 1) .. n
      BY <2>2, <1>2
    <3>3. g \notin Heard(k - 1)
      BY <3>1, <1>2, <2>1, <2>2
    <3> QED BY <3>2, <3>3, <2>1
  <2>6. Notified(r, s, Heard(k - 1), "destroy", t, e)
        /\ (Behind(r, t, e) => s.pools[t] = r.pools[t] /\ Behind(s, t, e))
    BY <1>5, <2>1
  <2>7. c[k] = React(s, g, "destroy", t, e)
    BY <1>3, <2>1
  <2> HIDE DEF Heard
  <2>8. Notified(r, c[k], Heard(k), "destroy", t, e)
    <3>1. PICK v, H : v = c[k] /\ H = Heard(k - 1) /\ g \in Groupings \ H
      BY <2>4, <2>5
    <3>2. "destroy" \in Signals
      BY DEF Signals
    <3>3. Notified(r, v, H \cup {g}, "destroy", t, e)
      BY <2>4, <2>6, <2>7, <3>1, <3>2, NotifiedMore
    <3> QED BY <2>5, <3>1, <3>3
  <2>9. Placed(s)
    BY <2>6 DEF Notified, Reacted
  <2>10. Behind(r, t, e) => c[k].pools[t] = r.pools[t] /\ Behind(c[k], t, e)
    <3>1. ASSUME Behind(r, t, e) PROVE c[k].pools[t] = s.pools[t] /\ Behind(c[k], t, e)
      <4>1. Behind(s, t, e)
        BY <3>1, <2>6
      <4> QED BY <4>1, <2>4, <2>7, <2>9, ReactStays
    <3> QED BY <3>1, <2>6
  <2>11. k \in 0 .. n
    OBVIOUS
  <2> QED BY <2>8, <2>10, <2>11
<1>6. n \in T
  <2>1. n \in 0 .. n
    BY <1>2
  <2> HIDE DEF T
  <2> QED BY <2>1, <1>2, <1>4, <1>5, CountUp
<1>7. Heard(n) = Hearing(t)
  <2>1. \A i : i \in n + 1 - n .. n <=> i \in 1 .. n
    BY <1>2
  <2>2. Hearing(t) \subseteq Groupings
    BY DEF Hearing
  <2> QED BY <2>1, <2>2, <1>2
<1> QED BY <1>3, <1>6, <1>7

-------------------------------------------------------------------------------
(* Exactness of a group for one entity, while a listener is still to be    *)
(* called: barred, one that will take the entity out if it is excluded;    *)
(* needed, one that will put it in.                                        *)
Fits(r, g, e, barred, needed) ==
  /\ In(r, g, e) => HasAll(r, Need(g), e)
  /\ In(r, g, e) /\ (\E t \in Bars(g) : Has(r, t, e)) => barred
  /\ ~ In(r, g, e) /\ HasAll(r, Need(g), e) /\ (\A t \in Bars(g) : ~ Has(r, t, e)) => needed

(* An entity that nothing happens to.                                      *)
LEMMA FitsSame ==
  ASSUME NEW r, NEW u, NEW g \in Groupings, NEW e, NEW barred, NEW needed,
         Fits(r, g, e, barred, needed), In(u, g, e) <=> In(r, g, e),
         \A p \in Concerns(g) : Has(u, p, e) <=> Has(r, p, e)
  PROVE  Fits(u, g, e, barred, needed)
<1>1. HasAll(u, Need(g), e) <=> HasAll(r, Need(g), e)
  BY DEF HasAll, Concerns
<1>2. \A p \in Bars(g) : Has(u, p, e) <=> Has(r, p, e)
  BY DEF Concerns
<1> QED BY <1>1, <1>2 DEF Fits

(* The element of one pool goes, after the listeners were told.            *)
LEMMA FitsGone ==
  ASSUME NEW r, NEW u, NEW g \in Groupings, NEW t \in Types, NEW e, NEW barred, NEW needed,
         Fits(r, g, e, barred, needed), Has(r, t, e),
         \A p \in Types : Has(u, p, e) <=> Has(r, p, e) /\ p # t,
         In(u, g, e) <=> IF t \in Concerns(g) THEN Told(r, g, "destroy", t, e) ELSE In(r, g, e)
  PROVE  Fits(u, g, e, barred, needed)
<1>1. Need(g) \cap Bars(g) = {} /\ Concerns(g) \subseteq Types /\ Need(g) \subseteq Types
      /\ Bars(g) \subseteq Types
  BY TypeFacts DEF Concerns
<1>2. CASE t \notin Concerns(g)
  <2>1. \A p \in Concerns(g) : Has(u, p, e) <=> Has(r, p, e)
    BY <1>1, <1>2
  <2>2. In(u, g, e) <=> In(r, g, e)
    BY <1>2
  <2> QED BY <2>1, <2>2, FitsSame
<1>3. CASE t \in Need(g)
  <2>1. ~ Told(r, g, "destroy", t, e)
    BY <1>1, <1>3 DEF Told
  <2>2. ~ In(u, g, e)
    BY <2>1, <1>3 DEF Concerns
  <2>3. ~ HasAll(u, Need(g), e)
    BY <1>3 DEF HasAll
  <2> QED BY <2>2, <2>3 DEF Fits
<1>4. CASE t \in Bars(g)
  <2>1. Told(r, g, "destroy", t, e)
          <=> In(r, g, e) \/ (HasAll(r, Need(g), e) /\ Excluded(r, Bars(g), e) = 1)
    BY <1>1, <1>4 DEF Told
  <2>2. Excluded(r, Bars(g), e) = 1 <=> \A s \in Bars(g) : Has(r, s, e) => s = t
    BY <1>1, <1>4, ExcludedFacts
  <2>3. In(u, g, e) <=> In(r, g, e) \/ (HasAll(r, Need(g), e) /\ \A s \in Bars(g) : Has(r, s, e) => s = t)
    BY <2>1, <2>2, <1>4 DEF Concerns
  <2>4. HasAll(u, Need(g), e) <=> HasAll(r, Need(g), e)
    BY <1>1, <1>4 DEF HasAll
  <2>5. \A s \in Bars(g) : Has(u, s, e) <=> Has(r, s, e) /\ s # t
    BY <1>1
  <2> QED BY <2>3, <2>4, <2>5 DEF Fits
<1> QED BY <1>2, <1>3, <1>4 DEF Concerns

(* An entity of the group that owns pools is among their first.            *)
LEMMA InPool ==
  ASSUME NEW r, Placed(r), NEW t \in ToSet(Owned), NEW m \in 1 .. Len(r.pools[t]), m <= r.len
  PROVE  In(r, "owning", r.pools[t][m])
<1>1. r.len \in Nat /\ t \in Types
  BY TypeFacts, RegParts DEF Placed
<1>2. Len(r.pools[t]) \in Nat
  BY <1>1, RegParts, SeqFacts DEF Placed
<1>3. m \in 1 .. r.len
  BY <1>1, <1>2
<1>4. r.pools[t][m] = r.pools[Owned[1]][m]
  BY <1>3 DEF Placed
<1> QED BY <1>3, <1>4 DEF In

(* One pool changes behind the group.                                      *)
Changed(r, u, t, q) ==
  /\ Placed(u) /\ u.len = r.len /\ u.elem = r.elem /\ u.pools[t] = q
  /\ \A p \in Types : p # t => u.pools[p] = r.pools[p]
  /\ \A g \in Groupings : \A x : In(u, g, x) <=> In(r, g, x)

(* The change is behind the group.                                         *)
BehindOnly(r, t, q) ==
  t \in ToSet(Owned) => r.len <= Len(q) /\ \A i \in 1 .. r.len : q[i] = r.pools[t][i]

(* What such a change leaves alone.                                        *)
LEMMA ChangedPool ==
  ASSUME NEW r, Placed(r), NEW t \in Types, NEW q \in Seq(Entities), IsInjective(q),
         BehindOnly(r, t, q), NEW u, u = [r EXCEPT !.pools[t] = q]
  PROVE  Changed(r, u, t, q)
<1>1. r \in Regs /\ r.pools \in [Types -> Seq(Entities)]
  BY RegParts DEF Placed
<1>2. u \in Regs /\ u.len = r.len /\ u.elem = r.elem /\ u.pools = [r.pools EXCEPT ![t] = q]
  BY <1>1 DEF Regs
<1>3. u.pools[t] = q /\ \A p \in Types : p # t => u.pools[p] = r.pools[p]
  BY <1>1, <1>2
<1>4. \A p \in ToSet(Owned) : /\ r.len <= Len(u.pools[p])
                              /\ \A i \in 1 .. r.len : u.pools[p][i] = r.pools[p][i]
  BY <1>3, TypeFacts DEF Placed, BehindOnly
<1>5. Placed(u)
  <2>1. \A p \in ToSet(Owned) : \A i \in 1 .. r.len : r.pools[p][i] = r.pools[Owned[1]][i]
    BY DEF Placed
  <2>2. \A p \in ToSet(Owned) : \A i \in 1 .. r.len : u.pools[p][i] = u.pools[Owned[1]][i]
    BY <1>4, <2>1, TypeFacts
  <2>3. IsInjective(r.elem) /\ \A p \in Types : IsInjective(u.pools[p])
    BY <1>3 DEF Placed
  <2> QED BY <1>2, <1>4, <2>2, <2>3 DEF Placed
<1>6. \A g \in Groupings : \A x : In(u, g, x) <=> In(r, g, x)
  <2>1. \A i \in 1 .. r.len : u.pools[Owned[1]][i] = r.pools[Owned[1]][i]
    BY <1>4, TypeFacts
  <2> QED BY <1>2, <2>1 DEF In
<1> QED BY <1>2, <1>3, <1>5, <1>6 DEF Changed

(* What pop leaves: the element is gone, the groups were told.             *)
Popping(r, u, t, e) ==
  /\ Placed(u)
  /\ \A p \in Types : \A x : Has(u, p, x) <=> Has(r, p, x) /\ ~ (p = t /\ x = e)
  /\ \A g \in Groupings : \A x :
       In(u, g, x) <=> IF x = e /\ g \in Hearing(t) THEN Told(r, g, "destroy", t, e) ELSE In(r, g, x)
  /\ \E s : /\ Reacted(r, s, e) /\ u.len = s.len
            /\ \A p \in Types \ {t} : u.pools[p] = s.pools[p]

(* Popping is what Pop does.                                               *)
LEMMA PopIs ==
  ASSUME Listening, NEW r, Placed(r), Absent(r), NEW t \in Types, NEW e \in Entities, Has(r, t, e),
         NEW u, u = Pop(r, t, e)
  PROVE  Popping(r, u, t, e)
<1>1. PICK s : s = Destroying(r, t, e)
  OBVIOUS
<1>2. Notified(r, s, Hearing(t), "destroy", t, e)
  BY <1>1, DestroyingFacts
<1>3. Reacted(r, s, e) /\ Placed(s) /\ Same(r, s)
  BY <1>2 DEF Notified, Reacted
<1>4. PICK w \in Seq(Entities) : w = s.pools[t] /\ IsInjective(w) /\ e \in ToSet(w)
  BY <1>3, RegParts DEF Placed, Same, Has
<1>5. PICK q : q = Without(w, e)
  OBVIOUS
<1>6. u = [s EXCEPT !.pools[t] = q]
  BY <1>1, <1>4, <1>5 DEF Pop
<1>7. PICK k \in 1 .. Len(w) : k = Pos(w, e) /\ w[k] = e
  BY <1>4, PosFacts
<1>8. q \in Seq(Entities) /\ IsInjective(q) /\ ToSet(q) = ToSet(w) \ {e} /\ SwapPopped(w, k, q)
  BY <1>4, <1>5, <1>7, WithoutFacts
<1>9. \A g \in Groupings : \A x :
        In(s, g, x) <=> IF x = e /\ g \in Hearing(t) THEN Told(r, g, "destroy", t, e) ELSE In(r, g, x)
  BY <1>2 DEF Notified
<1>10. ASSUME t \in ToSet(Owned)
       PROVE  s.len <= Len(q) /\ \A i \in 1 .. s.len : q[i] = w[i]
  <2>1. ~ In(s, "owning", e)
    <3>1. "owning" \in Groupings
      BY DEF Groupings
    <3>2. t \in Need("owning") /\ t \notin Bars("owning")
      BY <1>10, <3>1, TypeFacts DEF Need
    <3>3. ~ Told(r, "owning", "destroy", t, e)
      BY <3>2 DEF Told
    <3>4. "owning" \in Hearing(t) <=> Created("owning")
      BY <3>1, <3>2 DEF Hearing, Concerns
    <3> QED BY <3>1, <3>3, <3>4, <1>9 DEF Absent
  <2>2. s.len \in Nat /\ s.len <= Len(w) /\ Len(w) \in Nat
    BY <1>3, <1>4, <1>10, RegParts, SeqFacts DEF Placed
  <2>3. k > s.len
    <3>1. k <= s.len => In(s, "owning", w[k])
      BY <1>3, <1>4, <1>10, InPool
    <3> QED BY <1>7, <2>1, <2>2, <3>1
  <2> QED BY <1>8, <2>2, <2>3 DEF SwapPopped
<1>11. /\ Placed(u) /\ u.len = s.len /\ u.pools[t] = q
       /\ \A p \in Types : p # t => u.pools[p] = s.pools[p]
       /\ \A g \in Groupings : \A x : In(u, g, x) <=> In(s, g, x)
  <2>1. BehindOnly(s, t, q)
    BY <1>4, <1>10 DEF BehindOnly
  <2>2. Changed(s, u, t, q)
    BY <1>3, <1>6, <1>8, <2>1, ChangedPool
  <2> QED BY <2>2 DEF Changed
<1>12. \A p \in Types : \A x : Has(u, p, x) <=> Has(r, p, x) /\ ~ (p = t /\ x = e)
  <2>1. \A p \in Types : \A x : Has(s, p, x) <=> Has(r, p, x)
    BY <1>3, SameHas
  <2> QED BY <2>1, <1>4, <1>8, <1>11 DEF Has
<1>13. \A g \in Groupings : \A x :
         In(u, g, x) <=> IF x = e /\ g \in Hearing(t) THEN Told(r, g, "destroy", t, e) ELSE In(r, g, x)
  BY <1>9, <1>11
<1> QED BY <1>3, <1>11, <1>12, <1>13 DEF Popping

(* The groups that were created fit all entities; the others are empty.    *)
Settled(r) ==
  /\ Placed(r) /\ Absent(r)
  /\ ~ Foreign => \A g \in Groupings : Created(g) => \A x \in Entities : Fits(r, g, x, FALSE, FALSE)

(* An element that goes leaves the groups as exact as they were.           *)
LEMMA PoppingFits ==
  ASSUME Listening, NEW r, NEW u, NEW t \in Types, NEW e \in Entities, Has(r, t, e), Absent(r),
         Popping(r, u, t, e)
  PROVE  /\ Absent(u)
         /\ \A g \in Groupings : Created(g) =>
              \A x, barred, needed : Fits(r, g, x, barred, needed) => Fits(u, g, x, barred, needed)
<1>1. /\ \A p \in Types : \A x : Has(u, p, x) <=> Has(r, p, x) /\ ~ (p = t /\ x = e)
      /\ \A g \in Groupings : \A x :
           In(u, g, x) <=> IF x = e /\ g \in Hearing(t) THEN Told(r, g, "destroy", t, e) ELSE In(r, g, x)
  BY DEF Popping
<1>2. Absent(u)
  BY <1>1 DEF Absent, Hearing
<1>3. ASSUME NEW g \in Groupings, Created(g), NEW x, NEW barred, NEW needed,
             Fits(r, g, x, barred, needed)
      PROVE  Fits(u, g, x, barred, needed)
  <2>1. CASE x # e
    <3>1. (In(u, g, x) <=> In(r, g, x)) /\ \A p \in Types : Has(u, p, x) <=> Has(r, p, x)
      BY <1>1, <2>1
    <3>2. \A p \in Concerns(g) : Has(u, p, x) <=> Has(r, p, x)
      BY <3>1, TypeFacts DEF Concerns
    <3> QED BY <1>3, <3>1, <3>2, FitsSame
  <2>2. CASE x = e
    <3>1. g \in Hearing(t) <=> t \in Concerns(g)
      BY <1>3 DEF Hearing
    <3>2. In(u, g, e) <=> IF t \in Concerns(g) THEN Told(r, g, "destroy", t, e) ELSE In(r, g, e)
      BY <1>1, <3>1
    <3>3. \A p \in Types : Has(u, p, e) <=> Has(r, p, e) /\ p # t
      BY <1>1
    <3>4. Fits(u, g, e, barred, needed)
      BY <1>3, <2>2, <3>2, <3>3, FitsGone
    <3> QED BY <2>2, <3>4
  <2> QED BY <2>1, <2>2
<1> QED BY <1>2, <1>3

(* The entity is taken out of one pool.                                    *)
LEMMA RemoveFromSettled ==
  ASSUME Listening, NEW r, Settled(r), NEW t \in Types, NEW e \in Entities,
         NEW u, u = RemoveFrom(r, t, e)
  PROVE  Settled(u)
<1>1. CASE Has(r, t, e)
  <2>1. u = Pop(r, t, e) /\ Placed(r) /\ Absent(r)
    BY <1>1 DEF RemoveFrom, Settled
  <2>2. Popping(r, u, t, e)
    BY <1>1, <2>1, PopIs
  <2>3. /\ Absent(u)
        /\ \A g \in Groupings : Created(g) =>
             \A x, barred, needed : Fits(r, g, x, barred, needed) => Fits(u, g, x, barred, needed)
    BY <1>1, <2>1, <2>2, PoppingFits
  <2>4. Placed(u)
    BY <2>2 DEF Popping
  <2> QED BY <2>3, <2>4 DEF Settled
<1>2. CASE ~ Has(r, t, e)
  BY <1>2 DEF RemoveFrom
<1> QED BY <1>1, <1>2

-------------------------------------------------------------------------------
(* registry.destroy: the entity leaves one pool after the other.           *)
DestroyAll(r, e) == FoldRight(LAMBDA t, s : RemoveFrom(s, t, e), Pools, r)

(* c is the run of Destroy.                                                *)
Removing(c, r, u, e, n) ==
  /\ c[0] = r /\ c[n] = u
  /\ \A k \in 1 .. n : c[k] = RemoveFrom(c[k - 1], Pools[n + 1 - k], e)

(* The fold of Destroy, as a run.                                          *)
LEMMA DestroyFold ==
  ASSUME NEW r, NEW e, NEW n \in Nat, DOMAIN Pools = 1 .. n
  PROVE  \E c : Removing(c, r, DestroyAll(r, e), e, n)
<1>1. PICK what : what = [step |-> "remove", entt |-> e]
  OBVIOUS
<1>2. \A x, i : Turn(what, x, i) = RemoveFrom(x, Pools[i], e)
  BY <1>1 DEF Turn
<1>3. "back" \in Ways /\ \A u : Newest("back", u) = Min(u)
  BY DEF Newest, Ways
<1>4. PICK f : IsFoldOf(f, what, n, r, "back", n)
  BY <1>3, StepsExist
<1>5. Places("back", n, n) = 1 .. n
  BY <1>3, PlacesFacts
<1>6. f = [u \in SUBSET (1 .. n) |->
             IF u = {} THEN r ELSE RemoveFrom(f[u \ {Min(u)}], Pools[Min(u)], e)]
  <2>1. ASSUME NEW u \in SUBSET (1 .. n)
        PROVE  (IF u = {} THEN r ELSE RemoveFrom(f[u \ {Min(u)}], Pools[Min(u)], e))
                 = IF u = {} THEN r ELSE Turn(what, f[u \ {Newest("back", u)}], Newest("back", u))
    BY <1>2, <1>3
  <2> QED BY <2>1, <1>4, <1>5 DEF IsFoldOf
<1>7. PICK h :
        /\ h = [u \in SUBSET (1 .. n) |->
                 IF u = {} THEN r ELSE RemoveFrom(h[u \ {Min(u)}], Pools[Min(u)], e)]
        /\ DestroyAll(r, e) = h[1 .. n]
  BY ZenonT(60), <1>6, DOMAIN Pools = 1 .. n DEF DestroyAll, FoldRight, MapThenFoldSet
<1>8. IsFoldOf(h, what, n, r, "back", n)
  <2>1. ASSUME NEW u \in SUBSET (1 .. n)
        PROVE  (IF u = {} THEN r ELSE RemoveFrom(h[u \ {Min(u)}], Pools[Min(u)], e))
                 = IF u = {} THEN r ELSE Turn(what, h[u \ {Newest("back", u)}], Newest("back", u))
    BY <1>2, <1>3
  <2> QED BY <2>1, <1>7, <1>5 DEF IsFoldOf
<1>9. PICK c : IsRun(c, what, n, r, "back") /\ c[n] = h[1 .. n]
  BY <1>3, <1>8, StepsRun
<1>10. \A k \in 1 .. n : c[k] = RemoveFrom(c[k - 1], Pools[n + 1 - k], e)
  BY <1>2, <1>9 DEF IsRun, Place
<1> QED BY <1>7, <1>9, <1>10 DEF IsRun, Removing

(* The entity is taken out of all pools.                                   *)
LEMMA DestroySettled ==
  ASSUME Listening, NEW r, Settled(r), NEW e \in Entities,
         NEW u, u = DestroyAll(r, e)
  PROVE  Settled(u)
<1>1. PICK n : n = Len(Pools)
  OBVIOUS
<1>2. n \in Nat /\ DOMAIN Pools = 1 .. n /\ \A i \in 1 .. n : Pools[i] \in Types
  BY <1>1, GroupAssumption, SeqFacts
<1>3. PICK c : /\ c[0] = r /\ c[n] = u
               /\ \A k \in 1 .. n : c[k] = RemoveFrom(c[k - 1], Pools[n + 1 - k], e)
  <2>1. PICK c : Removing(c, r, u, e, n)
    BY <1>2, DestroyFold
  <2> QED BY <2>1 DEF Removing
<1> DEFINE T == {k \in 0 .. n : Settled(c[k])}
<1>4. 0 \in T
  BY <1>2, <1>3
<1>5. ASSUME NEW k \in 1 .. n, k - 1 \in T PROVE k \in T
  <2>1. k \in 0 .. n /\ n + 1 - k \in 1 .. n
    BY <1>2
  <2>2. Settled(c[k - 1]) /\ Pools[n + 1 - k] \in Types
    BY <1>2, <1>5, <2>1
  <2>3. Settled(c[k])
    BY <1>3, <2>2, RemoveFromSettled
  <2> QED BY <2>1, <2>3
<1>6. n \in T
  <2>1. n \in 0 .. n
    BY <1>2
  <2> HIDE DEF T
  <2> QED BY <2>1, <1>2, <1>4, <1>5, CountUp
<1> QED BY <1>3, <1>6

(* clear of a pool: all are told of, from the back, before any goes.       *)
Clearing(c, r, u, t, n) ==
  /\ c[0] = r /\ u = [c[n] EXCEPT !.pools[t] = << >>]
  /\ \A k \in 1 .. n : c[k] = Destroying(c[k - 1], t, c[k - 1].pools[t][n + 1 - k])

(* The fold of PopAll, as a run.                                           *)
LEMMA PopAllFold ==
  ASSUME NEW r, NEW t, NEW n \in Nat, n = Len(r.pools[t])
  PROVE  \E c : Clearing(c, r, PopAll(r, t), t, n)
<1> DEFINE q == [k \in 1 .. n |-> k]
<1>1. PICK what : what = [step |-> "clear", type |-> t, size |-> n]
  OBVIOUS
<1>2. DOMAIN q = 1 .. n /\ \A k \in 1 .. n : q[k] = k
  OBVIOUS
<1> HIDE DEF q
<1>3. \A x, i : Turn(what, x, i) = Destroying(x, t, x.pools[t][n + 1 - i])
  BY <1>1 DEF Turn
<1>4. "front" \in Ways /\ \A u : Newest("front", u) = Max(u)
  BY DEF Newest, Ways
<1>5. PICK f : IsFoldOf(f, what, n, r, "front", n)
  BY <1>4, StepsExist
<1>6. Places("front", n, n) = 1 .. n
  BY <1>4, PlacesFacts
<1>7. \A u \in SUBSET (1 .. n) : u # {} => q[Max(u)] = Max(u)
  <2> SUFFICES ASSUME NEW u \in SUBSET (1 .. n), u # {} PROVE q[Max(u)] = Max(u)
    OBVIOUS
  <2>1. Max(u) \in 1 .. n
    BY LastExists
  <2> QED BY <2>1, <1>2
<1>8. f = [u \in SUBSET (1 .. n) |->
             IF u = {} THEN r
             ELSE Destroying(f[u \ {Max(u)}], t, f[u \ {Max(u)}].pools[t][n + 1 - q[Max(u)]])]
  <2>1. ASSUME NEW u \in SUBSET (1 .. n)
        PROVE  (IF u = {} THEN r
                ELSE Destroying(f[u \ {Max(u)}], t, f[u \ {Max(u)}].pools[t][n + 1 - q[Max(u)]]))
                 = IF u = {} THEN r ELSE Turn(what, f[u \ {Newest("front", u)}], Newest("front", u))
    BY ZenonT(60), <1>3, <1>4, <1>7
  <2> QED BY <2>1, <1>5, <1>6 DEF IsFoldOf
<1>9. PICK h :
        /\ h = [u \in SUBSET (1 .. n) |->
             IF u = {} THEN r
             ELSE Destroying(h[u \ {Max(u)}], t, h[u \ {Max(u)}].pools[t][n + 1 - q[Max(u)]])]
        /\ FoldLeft(LAMBDA s, k : Destroying(s, t, s.pools[t][n + 1 - k]), r, q) = h[1 .. n]
  BY ZenonT(120), <1>2, <1>8 DEF FoldLeft, MapThenFoldSet
<1>10. PopAll(r, t) = [h[1 .. n] EXCEPT !.pools[t] = << >>]
  <2>1. PopAll(r, t) = [FoldLeft(LAMBDA s, k : Destroying(s, t, s.pools[t][n + 1 - k]), r, q)
                          EXCEPT !.pools[t] = << >>]
    BY DEF PopAll, q
  <2> QED BY <2>1, <1>9
<1>11. IsFoldOf(h, what, n, r, "front", n)
  <2>1. ASSUME NEW u \in SUBSET (1 .. n)
        PROVE  (IF u = {} THEN r
                ELSE Destroying(h[u \ {Max(u)}], t, h[u \ {Max(u)}].pools[t][n + 1 - q[Max(u)]]))
                 = IF u = {} THEN r ELSE Turn(what, h[u \ {Newest("front", u)}], Newest("front", u))
    BY ZenonT(60), <1>3, <1>4, <1>7
  <2> QED BY <2>1, <1>9, <1>6 DEF IsFoldOf
<1>12. PICK c : IsRun(c, what, n, r, "front") /\ c[n] = h[1 .. n]
  BY <1>4, <1>11, StepsRun
<1>13. \A k \in 1 .. n : c[k] = Destroying(c[k - 1], t, c[k - 1].pools[t][n + 1 - k])
  BY <1>3, <1>12 DEF IsRun, Place
<1>14. PopAll(r, t) = [c[n] EXCEPT !.pools[t] = << >>] /\ c[0] = r
  BY <1>10, <1>12 DEF IsRun
<1> QED BY <1>13, <1>14 DEF Clearing

(* s is r after the last k elements of pool t were announced.              *)
Announced(r, s, t, k) ==
  LET q == r.pools[t]
  IN  /\ Placed(s) /\ Same(r, s) /\ s.pools[t] = q
      /\ t \in ToSet(Owned) => s.len <= Len(q) - k
      /\ \A g \in Groupings : \A x :
           In(s, g, x) <=> IF g \in Hearing(t) /\ \E i \in Len(q) + 1 - k .. Len(q) : q[i] = x
                           THEN Told(r, g, "destroy", t, x) ELSE In(r, g, x)

(* No element was published yet.                                           *)
LEMMA AnnouncedNone ==
  ASSUME NEW r, Placed(r), NEW t \in Types
  PROVE  Announced(r, r, t, 0)
<1>1. PICK q \in Seq(Entities) : q = r.pools[t]
  BY RegParts DEF Placed
<1>2. Len(q) \in Nat
  BY SeqFacts
<1>3. Same(r, r)
  BY DEF Same
<1>4. Len(q) - 0 = Len(q)
  BY <1>2
<1>5. t \in ToSet(Owned) => r.len <= Len(q)
  BY <1>1 DEF Placed
<1>6. \A x : ~ \E i \in Len(q) + 1 - 0 .. Len(q) : q[i] = x
  BY <1>2
<1> QED BY <1>1, <1>3, <1>4, <1>5, <1>6 DEF Announced

(* One element more is published, from the back.                           *)
LEMMA AnnouncedMore ==
  ASSUME Listening, NEW r, Placed(r), Absent(r), NEW t \in Types, NEW k \in Nat, k < Len(r.pools[t]),
         NEW s, Announced(r, s, t, k),
         NEW u, u = Destroying(s, t, s.pools[t][Len(r.pools[t]) - k])
  PROVE  Announced(r, u, t, k + 1)
<1>1. PICK q \in Seq(Entities), n \in Nat : q = r.pools[t] /\ n = Len(q) /\ IsInjective(q)
  BY RegParts, SeqFacts DEF Placed
<1>2. PICK m, e : m = n - k /\ e = q[m]
  OBVIOUS
<1>3. m \in 1 .. n /\ e \in Entities /\ n + 1 - (k + 1) = m /\ n - (k + 1) = m - 1 /\ n + 1 - k = m + 1
  <2>1. k < n
    BY <1>1
  <2>2. m \in 1 .. n /\ n + 1 - (k + 1) = m /\ n - (k + 1) = m - 1 /\ n + 1 - k = m + 1
    BY <1>2, <2>1
  <2> QED BY <2>2, <1>1, <1>2, SeqFacts
<1>4. Placed(s) /\ Same(r, s) /\ s.pools[t] = q /\ (t \in ToSet(Owned) => s.len <= m)
  BY <1>1, <1>2 DEF Announced
<1>5. \A g \in Groupings : \A x :
        In(s, g, x) <=> IF g \in Hearing(t) /\ \E i \in m + 1 .. n : q[i] = x
                        THEN Told(r, g, "destroy", t, x) ELSE In(r, g, x)
  <2>1. \A g \in Groupings : \A x :
          In(s, g, x) <=> IF g \in Hearing(t) /\ \E i \in Len(q) + 1 - k .. Len(q) : q[i] = x
                          THEN Told(r, g, "destroy", t, x) ELSE In(r, g, x)
    BY <1>1 DEF Announced
  <2> QED BY <2>1, <1>1, <1>3
<1>6. u = Destroying(s, t, e)
  BY <1>1, <1>2, <1>4
<1>7. Behind(s, t, e)
  BY <1>1, <1>2, <1>3, <1>4 DEF Behind
<1>8. Notified(s, u, Hearing(t), "destroy", t, e) /\ u.pools[t] = q
  BY <1>3, <1>4, <1>6, <1>7, DestroyingFacts
<1>9. Placed(u) /\ Same(s, u) /\ Kept(s, u, e)
  BY <1>8 DEF Notified, Reacted
<1>10. Same(r, u)
  BY <1>4, <1>9 DEF Same
<1>11. \A i, j \in 1 .. n : q[i] = q[j] => i = j
  BY <1>1, ElementsIs
<1>12. ~ \E i \in m + 1 .. n : q[i] = e
  BY <1>2, <1>3, <1>11
<1>13. \A x : (\E i \in m .. n : q[i] = x) <=> x = e \/ \E i \in m + 1 .. n : q[i] = x
  <2>1. \A i : i \in m .. n <=> i = m \/ i \in m + 1 .. n
    BY <1>3
  <2> QED BY <2>1, <1>2
<1>14. ASSUME NEW g \in Groupings, NEW x
       PROVE  In(u, g, x) <=> IF g \in Hearing(t) /\ \E i \in m .. n : q[i] = x
                              THEN Told(r, g, "destroy", t, x) ELSE In(r, g, x)
  <2>1. In(u, g, x) <=> IF x = e /\ g \in Hearing(t) THEN Told(s, g, "destroy", t, e) ELSE In(s, g, x)
    BY <1>8 DEF Notified
  <2>2. CASE x = e
    <3>1. In(s, g, e) <=> In(r, g, e)
      BY <1>5, <1>12
    <3>2. Told(s, g, "destroy", t, e) <=> Told(r, g, "destroy", t, e)
      BY <1>4, <3>1, ToldSame
    <3>3. In(u, g, x) <=> IF g \in Hearing(t) THEN Told(r, g, "destroy", t, x) ELSE In(r, g, x)
      BY <2>1, <2>2, <3>1, <3>2
    <3> QED BY <2>2, <3>3, <1>13
  <2>3. CASE x # e
    <3>1. In(u, g, x) <=> In(s, g, x)
      BY <2>1, <2>3
    <3> QED BY <2>3, <3>1, <1>5, <1>13
  <2> QED BY <2>2, <2>3
<1>15. ASSUME t \in ToSet(Owned) PROVE u.len <= m - 1
  <2>1. \E i \in 1 .. Len(s.pools[t]) : i <= m /\ s.pools[t][i] = e
    BY <1>1, <1>2, <1>3, <1>4
  <2>2. u.len <= m
    BY <1>3, <1>4, <1>9, <1>15, <2>1 DEF Kept
  <2>3. ~ In(u, "owning", e)
    <3>1. "owning" \in Groupings
      BY DEF Groupings
    <3>2. t \in Need("owning") /\ t \notin Bars("owning")
      BY <1>15, <3>1, TypeFacts DEF Need
    <3>3. ~ Told(r, "owning", "destroy", t, e)
      BY <3>2 DEF Told
    <3>4. "owning" \in Hearing(t) <=> Created("owning")
      BY <3>1, <3>2 DEF Hearing, Concerns
    <3>5. \E i \in m .. n : q[i] = e
      BY <1>2, <1>3
    <3> QED BY <3>1, <3>3, <3>4, <3>5, <1>14 DEF Absent
  <2>4. u.len # m
    <3>1. u.pools[t] = q /\ m \in 1 .. Len(u.pools[t]) /\ u.pools[t][m] = e
      BY <1>1, <1>2, <1>3, <1>8
    <3>2. m <= u.len => In(u, "owning", e)
      BY <1>9, <1>15, <3>1, InPool
    <3> QED BY <2>3, <3>2, <1>3
  <2>5. u.len \in Nat
    BY <1>9, RegParts DEF Placed
  <2> QED BY <1>3, <2>2, <2>4, <2>5
<1>16. t \in ToSet(Owned) => u.len <= Len(q) - (k + 1)
  BY <1>1, <1>3, <1>15
<1>17. \A g \in Groupings : \A x :
         In(u, g, x) <=> IF g \in Hearing(t) /\ \E i \in Len(q) + 1 - (k + 1) .. Len(q) : q[i] = x
                         THEN Told(r, g, "destroy", t, x) ELSE In(r, g, x)
  BY <1>1, <1>3, <1>14
<1> QED BY <1>1, <1>8, <1>9, <1>10, <1>16, <1>17 DEF Announced

(* A pool is cleared.                                                      *)
LEMMA PopAllSettled ==
  ASSUME Listening, NEW r, Settled(r), NEW t \in Types, NEW u, u = PopAll(r, t)
  PROVE  Settled(u)
<1>1. Placed(r) /\ Absent(r)
  BY DEF Settled
<1>2. PICK q \in Seq(Entities), n \in Nat :
        /\ q = r.pools[t] /\ n = Len(q) /\ ToSet(q) = {q[i] : i \in 1 .. n}
        /\ \A i \in 1 .. n : q[i] \in Entities
  <2>1. PICK q \in Seq(Entities) : q = r.pools[t]
    BY <1>1, RegParts DEF Placed
  <2>2. PICK n \in Nat : n = Len(q) /\ \A i \in 1 .. n : q[i] \in Entities
    BY SeqFacts
  <2>3. ToSet(q) = {q[i] : i \in 1 .. n}
    BY <2>2, ElementsIs
  <2> QED BY <2>1, <2>2, <2>3
<1>3. PICK c : /\ c[0] = r /\ u = [c[n] EXCEPT !.pools[t] = << >>]
               /\ \A k \in 1 .. n : c[k] = Destroying(c[k - 1], t, c[k - 1].pools[t][n + 1 - k])
  <2>1. PICK c : Clearing(c, r, PopAll(r, t), t, n)
    BY <1>2, PopAllFold
  <2> QED BY <2>1 DEF Clearing
<1> DEFINE T == {k \in 0 .. n : Announced(r, c[k], t, k)}
<1>4. 0 \in T
  BY <1>1, <1>2, <1>3, AnnouncedNone
<1>5. ASSUME NEW k \in 1 .. n, k - 1 \in T PROVE k \in T
  <2>1. PICK j \in Nat : j = k - 1 /\ j < n /\ k = j + 1 /\ n + 1 - k = n - j /\ k \in 0 .. n
    OBVIOUS
  <2>2. PICK s : s = c[j] /\ Announced(r, s, t, j)
    BY <1>5, <2>1
  <2>3. PICK v : v = c[k]
    OBVIOUS
  <2>4. v = Destroying(s, t, s.pools[t][Len(r.pools[t]) - j])
    BY <1>2, <1>3, <2>1, <2>2, <2>3
  <2>5. Announced(r, v, t, j + 1)
    BY <1>1, <1>2, <2>1, <2>2, <2>4, AnnouncedMore
  <2> QED BY <2>1, <2>3, <2>5
<1>6. n \in T
  <2>1. n \in 0 .. n
    BY <1>2
  <2> HIDE DEF T
  <2> QED BY <2>1, <1>2, <1>4, <1>5, CountUp
<1>7. PICK s : s = c[n] /\ Announced(r, s, t, n)
  BY <1>6
<1>8. /\ Placed(s) /\ Same(r, s) /\ s.pools[t] = q
      /\ t \in ToSet(Owned) => s.len = 0
      /\ \A g \in Groupings : \A x :
           In(s, g, x) <=> IF g \in Hearing(t) /\ x \in ToSet(q)
                           THEN Told(r, g, "destroy", t, x) ELSE In(r, g, x)
  <2>1. /\ Placed(s) /\ Same(r, s) /\ s.pools[t] = q /\ (t \in ToSet(Owned) => s.len <= Len(q) - n)
        /\ \A g \in Groupings : \A x :
             In(s, g, x) <=> IF g \in Hearing(t) /\ \E i \in Len(q) + 1 - n .. Len(q) : q[i] = x
                             THEN Told(r, g, "destroy", t, x) ELSE In(r, g, x)
    BY <1>2, <1>7 DEF Announced
  <2>2. s.len \in Nat
    BY <2>1, RegParts DEF Placed
  <2>3. Len(q) - n = 0 /\ Len(q) + 1 - n = 1
    BY <1>2
  <2>4. \A x : x \in ToSet(q) <=> \E i \in Len(q) + 1 - n .. Len(q) : q[i] = x
    BY <1>2, <2>3
  <2> QED BY <2>1, <2>2, <2>3, <2>4
<1>9. PICK w : w = << >>
  OBVIOUS
<1>10. w \in Seq(Entities) /\ IsInjective(w) /\ ToSet(w) = {} /\ Len(w) = 0
  <2>1. w \in Seq(Entities) /\ Len(w) = 0
    BY <1>9
  <2>2. \A i \in 1 .. Len(w) : FALSE
    BY <2>1
  <2>3. ToSet(w) = {w[i] : i \in 1 .. Len(w)}
        /\ (IsInjective(w) <=> \A i, j \in 1 .. Len(w) : w[i] = w[j] => i = j)
    BY <2>1, ElementsIs
  <2>4. IsInjective(w)
    BY ONLY <2>2, <2>3
  <2>5. ToSet(w) = {}
    BY ONLY <2>2, <2>3
  <2> QED BY <2>1, <2>4, <2>5
<1>11. /\ Placed(u) /\ u.len = s.len /\ u.pools[t] = w
       /\ \A p \in Types : p # t => u.pools[p] = s.pools[p]
       /\ \A g \in Groupings : \A x : In(u, g, x) <=> In(s, g, x)
  <2>1. BehindOnly(s, t, w)
    BY <1>8, <1>10 DEF BehindOnly
  <2>2. u = [s EXCEPT !.pools[t] = w]
    BY <1>3, <1>7, <1>9
  <2>3. Changed(s, u, t, w)
    BY <2>1, <2>2, <1>8, <1>10, ChangedPool
  <2> QED BY <2>3 DEF Changed
<1>12. \A p \in Types : \A x : Has(u, p, x) <=> Has(r, p, x) /\ p # t
  <2>1. \A p \in Types : \A x : Has(s, p, x) <=> Has(r, p, x)
    BY <1>8, SameHas
  <2> QED BY <2>1, <1>10, <1>11 DEF Has
<1>13. Absent(u)
  BY <1>1, <1>8, <1>11 DEF Absent, Hearing
<1>14. ASSUME ~ Foreign, NEW g \in Groupings, Created(g), NEW x \in Entities PROVE Fits(u, g, x, FALSE, FALSE)
  <2>1. Fits(r, g, x, FALSE, FALSE)
    BY <1>14 DEF Settled
  <2>2. In(u, g, x) <=> IF t \in Concerns(g) /\ Has(r, t, x) THEN Told(r, g, "destroy", t, x) ELSE In(r, g, x)
    BY <1>2, <1>8, <1>11, <1>14 DEF Hearing, Has
  <2>3. CASE Has(r, t, x)
    <3>1. \A p \in Types : Has(u, p, x) <=> Has(r, p, x) /\ p # t
      BY <1>12
    <3> QED BY <2>1, <2>2, <2>3, <3>1, FitsGone
  <2>4. CASE ~ Has(r, t, x)
    <3>1. \A p \in Concerns(g) : Has(u, p, x) <=> Has(r, p, x)
      BY <1>12, <2>4, TypeFacts DEF Concerns
    <3> QED BY <2>1, <2>2, <2>4, <3>1, FitsSame
  <2> QED BY <2>3, <2>4
<1> QED BY <1>11, <1>13, <1>14 DEF Settled

-------------------------------------------------------------------------------
(* Creation of the group that owns pools: the first of them is walked from *)
(* the front.                                                              *)
Looking(c, r, u, n) ==
  /\ c[0] = r /\ c[n] = u
  /\ \A k \in 1 .. n : c[k] = PushOnConstruct(c[k - 1], c[k - 1].pools[Owned[1]][k])

(* The fold of CommonSetup, as a run.                                      *)
LEMMA CommonSetupFold ==
  ASSUME NEW r, NEW n \in Nat, n = Len(r.pools[Owned[1]])
  PROVE  \E c : Looking(c, r, CommonSetup(r), n)
<1> DEFINE q == [k \in 1 .. n |-> k]
<1>1. PICK what : what = [step |-> "setup"]
  OBVIOUS
<1>2. DOMAIN q = 1 .. n /\ \A k \in 1 .. n : q[k] = k
  OBVIOUS
<1> HIDE DEF q
<1>3. \A x, i : Turn(what, x, i) = PushOnConstruct(x, x.pools[Owned[1]][i])
  BY <1>1 DEF Turn
<1>4. "front" \in Ways /\ \A u : Newest("front", u) = Max(u)
  BY DEF Newest, Ways
<1>5. PICK f : IsFoldOf(f, what, n, r, "front", n)
  BY <1>4, StepsExist
<1>6. Places("front", n, n) = 1 .. n
  BY <1>4, PlacesFacts
<1>7. \A u \in SUBSET (1 .. n) : u # {} => q[Max(u)] = Max(u)
  <2> SUFFICES ASSUME NEW u \in SUBSET (1 .. n), u # {} PROVE q[Max(u)] = Max(u)
    OBVIOUS
  <2>1. Max(u) \in 1 .. n
    BY LastExists
  <2> QED BY <2>1, <1>2
<1>8. f = [u \in SUBSET (1 .. n) |->
             IF u = {} THEN r
             ELSE PushOnConstruct(f[u \ {Max(u)}], f[u \ {Max(u)}].pools[Owned[1]][q[Max(u)]])]
  <2>1. ASSUME NEW u \in SUBSET (1 .. n)
        PROVE  (IF u = {} THEN r
                ELSE PushOnConstruct(f[u \ {Max(u)}], f[u \ {Max(u)}].pools[Owned[1]][q[Max(u)]]))
                 = IF u = {} THEN r ELSE Turn(what, f[u \ {Newest("front", u)}], Newest("front", u))
    BY <1>3, <1>4, <1>7
  <2> QED BY <2>1, <1>5, <1>6 DEF IsFoldOf
<1>9. PICK h :
        /\ h = [u \in SUBSET (1 .. n) |->
             IF u = {} THEN r
             ELSE PushOnConstruct(h[u \ {Max(u)}], h[u \ {Max(u)}].pools[Owned[1]][q[Max(u)]])]
        /\ CommonSetup(r) = h[1 .. n]
  <2>1. CommonSetup(r) = FoldLeft(LAMBDA s, k : PushOnConstruct(s, s.pools[Owned[1]][k]), r, q)
    BY DEF CommonSetup, q
  <2> QED BY ZenonT(60), <2>1, <1>2, <1>8 DEF FoldLeft, MapThenFoldSet
<1>10. IsFoldOf(h, what, n, r, "front", n)
  <2>1. ASSUME NEW u \in SUBSET (1 .. n)
        PROVE  (IF u = {} THEN r
                ELSE PushOnConstruct(h[u \ {Max(u)}], h[u \ {Max(u)}].pools[Owned[1]][q[Max(u)]]))
                 = IF u = {} THEN r ELSE Turn(what, h[u \ {Newest("front", u)}], Newest("front", u))
    BY <1>3, <1>4, <1>7
  <2> QED BY <2>1, <1>9, <1>6 DEF IsFoldOf
<1>11. PICK c : IsRun(c, what, n, r, "front") /\ c[n] = h[1 .. n]
  BY <1>4, <1>10, StepsRun
<1>12. \A k \in 1 .. n : c[k] = PushOnConstruct(c[k - 1], c[k - 1].pools[Owned[1]][k])
  BY <1>3, <1>11 DEF IsRun, Place
<1> QED BY ZenonT(60), <1>9, <1>11, <1>12 DEF IsRun, Looking

(* The entities a new group is to have.                                    *)
Fitting(r, g, x) == HasAll(r, Need(g), x) /\ Excluded(r, Bars(g), x) = 0

(* A group of all that fit is exact.                                       *)
LEMMA FittingFits ==
  ASSUME NEW r, NEW u, Same(r, u), NEW g \in Groupings,
         NEW x, In(u, g, x) <=> Fitting(r, g, x)
  PROVE  Fits(u, g, x, FALSE, FALSE)
<1>1. Need(g) \in SUBSET Types /\ Bars(g) \in SUBSET Types
  BY TypeFacts
<1>2. /\ HasAll(u, Need(g), x) <=> HasAll(r, Need(g), x)
      /\ Excluded(u, Bars(g), x) = Excluded(r, Bars(g), x)
  BY <1>1, SameHas
<1>3. Excluded(u, Bars(g), x) = 0 <=> \A t \in Bars(g) : ~ Has(u, t, x)
  BY <1>1, ExcludedFacts
<1> QED BY <1>2, <1>3 DEF Fits, Fitting

(* s is r after the first k entities of the pool q were looked at.         *)
Sorted(r, s, k) ==
  LET q == r.pools[Owned[1]]
  IN  /\ Placed(s) /\ Same(r, s) /\ s.len <= k
      /\ \A i \in 1 .. Len(q) : i > k => s.pools[Owned[1]][i] = q[i]
      /\ \A x : In(s, "owning", x) <=> Fitting(r, "owning", x) /\ \E i \in 1 .. k : q[i] = x
      /\ \A x : In(s, "observing", x) <=> In(r, "observing", x)

(* One position more was looked at: what joins is exchanged with one that  *)
(* was looked at.                                                          *)
LEMMA SortedMore ==
  ASSUME NEW r, Placed(r), NEW k \in Nat, k < Len(r.pools[Owned[1]]), NEW s, Sorted(r, s, k),
         NEW u, u = PushOnConstruct(s, s.pools[Owned[1]][k + 1])
  PROVE  Sorted(r, u, k + 1)
<1>1. Owned[1] \in Types /\ Owned[1] \in ToSet(Owned) /\ Members \in SUBSET Types /\ Exclude \in SUBSET Types
  BY TypeFacts
<1>2. PICK q \in Seq(Entities), n \in Nat : q = r.pools[Owned[1]] /\ n = Len(q) /\ IsInjective(q)
  BY <1>1, RegParts, SeqFacts DEF Placed
<1>3. PICK e : e = q[k + 1]
  OBVIOUS
<1>4. k + 1 \in 1 .. n
  BY <1>2
<1>5. /\ Placed(s) /\ Same(r, s) /\ s.len <= k
      /\ \A i \in 1 .. n : i > k => s.pools[Owned[1]][i] = q[i]
      /\ \A x : In(s, "owning", x) <=> Fitting(r, "owning", x) /\ \E i \in 1 .. k : q[i] = x
      /\ \A x : In(s, "observing", x) <=> In(r, "observing", x)
  BY <1>2 DEF Sorted
<1>6. u = PushOnConstruct(s, e)
  BY <1>3, <1>4, <1>5
<1>7. /\ Reacted(s, u, e)
      /\ Becomes(s, u, "owning", e,
                 In(s, "owning", e) \/ (HasAll(s, Members, e) /\ Excluded(s, Exclude, e) = 0))
  BY <1>5, <1>6, JoinIf DEF PushOnConstruct
<1>8. Placed(u) /\ Same(s, u) /\ Kept(s, u, e)
  BY <1>7 DEF Reacted
<1>9. Same(r, u)
  BY <1>5, <1>8 DEF Same
<1>10. Need("owning") = Members /\ Bars("owning") = Exclude
  BY DEF Need, Bars
<1>11. Fitting(r, "owning", e) <=> HasAll(s, Members, e) /\ Excluded(s, Exclude, e) = 0
  BY <1>1, <1>5, <1>10, SameHas DEF Fitting
<1>12. \A i : i \in 1 .. k + 1 <=> i = k + 1 \/ i \in 1 .. k
  OBVIOUS
<1>13. ASSUME NEW x
       PROVE  In(u, "owning", x) <=> Fitting(r, "owning", x) /\ \E i \in 1 .. k + 1 : q[i] = x
  <2>1. CASE x = e
    <3>1. In(u, "owning", e) <=> In(s, "owning", e) \/ (HasAll(s, Members, e) /\ Excluded(s, Exclude, e) = 0)
      BY <1>7 DEF Becomes
    <3>2. In(u, "owning", e) <=> Fitting(r, "owning", e)
      BY <3>1, <1>5, <1>11
    <3>3. \E i \in 1 .. k + 1 : q[i] = e
      BY <1>3, <1>12
    <3> QED BY <2>1, <3>2, <3>3
  <2>2. CASE x # e
    <3>1. "owning" \in Groupings
      BY DEF Groupings
    <3>2. In(u, "owning", x) <=> In(s, "owning", x)
      BY <2>2, <3>1, <1>7 DEF Becomes
    <3>3. (\E i \in 1 .. k + 1 : q[i] = x) <=> \E i \in 1 .. k : q[i] = x
      BY <2>2, <1>3, <1>12
    <3> QED BY <3>2, <3>3, <1>5
  <2> QED BY <2>1, <2>2
<1>14. \A x : In(u, "observing", x) <=> In(r, "observing", x)
  <2>1. "observing" \in Groupings /\ "observing" # "owning"
    BY DEF Groupings
  <2> QED BY <2>1, <1>5, <1>7 DEF Becomes
<1>15. u.len <= k + 1 /\ \A i \in 1 .. n : i > k + 1 => u.pools[Owned[1]][i] = q[i]
  <2>1. PICK m \in Nat : m = k + 1
    OBVIOUS
  <2>2. s.len \in Nat
    BY <1>5, RegParts DEF Placed
  <2>3. Len(s.pools[Owned[1]]) = n
    BY <1>1, <1>2, <1>5 DEF Same
  <2>4. s.pools[Owned[1]][m] = e /\ m \in 1 .. n
    BY <1>3, <1>4, <1>5, <2>1
  <2>5. s.len <= m /\ \E i \in 1 .. Len(s.pools[Owned[1]]) : i <= m /\ s.pools[Owned[1]][i] = e
    BY <2>1, <2>2, <2>3, <2>4, <1>5
  <2>6. u.len <= m /\ \A i \in 1 .. n : i > m => u.pools[Owned[1]][i] = s.pools[Owned[1]][i]
    BY <2>1, <2>3, <2>5, <1>1, <1>8 DEF Kept
  <2>7. \A i \in 1 .. n : i > m => i > k
    BY <2>1
  <2> QED BY <2>1, <2>6, <2>7, <1>5
<1> QED BY <1>2, <1>8, <1>9, <1>13, <1>14, <1>15 DEF Sorted

(* The group that owns pools is made of the elements there are.            *)
LEMMA CommonSetupFacts ==
  ASSUME NEW r, Placed(r), \A x : ~ In(r, "owning", x), NEW u, u = CommonSetup(r)
  PROVE  /\ Placed(u) /\ Same(r, u)
         /\ \A x : Fits(u, "owning", x, FALSE, FALSE)
         /\ \A x : In(u, "observing", x) <=> In(r, "observing", x)
<1>1. Owned[1] \in Types /\ Owned[1] \in ToSet(Owned) /\ ToSet(Owned) \subseteq Members
  BY TypeFacts
<1>2. PICK q \in Seq(Entities), n \in Nat :
        q = r.pools[Owned[1]] /\ n = Len(q) /\ ToSet(q) = {q[i] : i \in 1 .. n}
  BY <1>1, RegParts, SeqFacts, ElementsIs DEF Placed
<1>3. PICK c : /\ c[0] = r /\ c[n] = u
               /\ \A k \in 1 .. n : c[k] = PushOnConstruct(c[k - 1], c[k - 1].pools[Owned[1]][k])
  <2>1. PICK c : Looking(c, r, CommonSetup(r), n)
    BY <1>2, CommonSetupFold
  <2> QED BY <2>1 DEF Looking
<1> DEFINE T == {k \in 0 .. n : Sorted(r, c[k], k)}
<1>4. 0 \in T
  <2>1. r.len <= 0
    <3>1. r.len \in Nat /\ r.len <= n
      BY <1>1, <1>2, RegParts DEF Placed
    <3>2. CASE r.len >= 1
      <4>1. 1 \in 1 .. Len(r.pools[Owned[1]]) /\ 1 <= r.len
        BY <3>1, <3>2, <1>2
      <4> QED BY <4>1, <1>1, InPool
    <3> QED BY <3>1, <3>2
  <2>2. Same(r, r)
    BY DEF Same
  <2>3. \A x : ~ \E i \in 1 .. 0 : q[i] = x
    OBVIOUS
  <2>4. Sorted(r, r, 0)
    BY <2>1, <2>2, <2>3, <1>2 DEF Sorted
  <2> QED BY <2>4, <1>2, <1>3
<1>5. ASSUME NEW k \in 1 .. n, k - 1 \in T PROVE k \in T
  <2>1. PICK j \in Nat : j = k - 1 /\ j < n /\ k = j + 1 /\ k \in 0 .. n
    OBVIOUS
  <2>2. PICK s : s = c[j] /\ Sorted(r, s, j)
    BY <1>5, <2>1
  <2>3. PICK v : v = c[k] /\ v = PushOnConstruct(s, s.pools[Owned[1]][j + 1])
    BY <1>3, <2>1, <2>2
  <2>4. Sorted(r, v, j + 1)
    BY <1>2, <2>1, <2>2, <2>3, SortedMore
  <2> QED BY <2>1, <2>3, <2>4
<1>6. n \in T
  <2>1. n \in 0 .. n
    BY <1>2
  <2> HIDE DEF T
  <2> QED BY <2>1, <1>2, <1>4, <1>5, CountUp
<1>7. Sorted(r, u, n)
  BY <1>3, <1>6
<1>8. /\ Placed(u) /\ Same(r, u)
      /\ \A x : In(u, "owning", x) <=> Fitting(r, "owning", x) /\ \E i \in 1 .. n : q[i] = x
      /\ \A x : In(u, "observing", x) <=> In(r, "observing", x)
  BY <1>2, <1>7 DEF Sorted
<1>9. \A x : Fitting(r, "owning", x) => \E i \in 1 .. n : q[i] = x
  <2>1. Need("owning") = Members
    BY DEF Need
  <2> QED BY <2>1, <1>1, <1>2 DEF Fitting, HasAll, Has
<1>10. ASSUME NEW x PROVE Fits(u, "owning", x, FALSE, FALSE)
  <2>1. In(u, "owning", x) <=> Fitting(r, "owning", x)
    BY <1>8, <1>9
  <2>2. "owning" \in Groupings
    BY DEF Groupings
  <2> QED BY <1>8, <2>1, <2>2, FittingFits
<1> QED BY <1>8, <1>10

-------------------------------------------------------------------------------
(* Creation of the group that owns nothing.                                *)

(* A sequence from its back has the same elements.                         *)
LEMMA ReversedFacts ==
  ASSUME NEW S, NEW s \in Seq(S), NEW t, t = Reverse(s)
  PROVE  /\ t \in Seq(S) /\ Len(t) = Len(s) /\ DOMAIN t = 1 .. Len(s) /\ Len(s) \in Nat
         /\ \A x : x \in ToSet(s) <=> \E i \in 1 .. Len(s) : t[i] = x
<1>1. PICK n \in Nat : n = Len(s) /\ DOMAIN s = 1 .. n /\ \A i \in 1 .. n : s[i] \in S
  BY SeqFacts
<1>2. t = [i \in 1 .. n |-> s[(n - i) + 1]]
  BY <1>1 DEF Reverse
<1>3. \A i \in 1 .. n : (n - i) + 1 \in 1 .. n /\ (n - ((n - i) + 1)) + 1 = i
  BY <1>1
<1>4. t \in [1 .. n -> S]
  BY <1>1, <1>2, <1>3
<1>5. t \in Seq(S) /\ Len(t) = n /\ DOMAIN t = 1 .. n
  BY <1>1, <1>4
<1>6. ToSet(s) = {s[i] : i \in 1 .. n}
  BY <1>1, ElementsIs
<1>7. ASSUME NEW x \in ToSet(s) PROVE \E i \in 1 .. n : t[i] = x
  <2>1. PICK i \in 1 .. n : s[i] = x
    BY <1>6
  <2>2. PICK j : j = (n - i) + 1 /\ j \in 1 .. n /\ (n - j) + 1 = i
    BY <1>3
  <2>3. t[j] = s[i]
    BY <1>2, <2>2
  <2> QED BY <2>1, <2>2, <2>3
<1>8. ASSUME NEW i \in 1 .. n PROVE t[i] \in ToSet(s)
  <2>1. PICK j : j = (n - i) + 1 /\ j \in 1 .. n
    BY <1>3
  <2>2. t[i] = s[j]
    BY <1>2, <2>1
  <2> QED BY <2>1, <2>2, <1>6
<1> QED BY <1>1, <1>5, <1>7, <1>8

(* c is the run of ElemCommonSetup over q, which is the first pool         *)
(* reversed.                                                               *)
Gathering(c, r, u, q, n) ==
  /\ c[0] = r /\ c[n] = u
  /\ \A k \in 1 .. n : c[k] = ElemPushOnConstruct(c[k - 1], q[k])

(* The fold of ElemCommonSetup, as a run.                                  *)
LEMMA ElemCommonSetupFold ==
  ASSUME NEW r, NEW q, q = Reverse(r.pools[Observed[1]]), NEW n \in Nat, DOMAIN q = 1 .. n
  PROVE  \E c : Gathering(c, r, ElemCommonSetup(r), q, n)
<1>1. PICK what : what = [step |-> "gather", seq |-> q]
  OBVIOUS
<1>2. \A x, i : Turn(what, x, i) = ElemPushOnConstruct(x, q[i])
  BY <1>1 DEF Turn
<1>3. "front" \in Ways /\ \A u : Newest("front", u) = Max(u)
  BY DEF Newest, Ways
<1>4. PICK f : IsFoldOf(f, what, n, r, "front", n)
  BY <1>3, StepsExist
<1>5. Places("front", n, n) = 1 .. n
  BY <1>3, PlacesFacts
<1>6. f = [u \in SUBSET (1 .. n) |->
             IF u = {} THEN r ELSE ElemPushOnConstruct(f[u \ {Max(u)}], q[Max(u)])]
  <2>1. ASSUME NEW u \in SUBSET (1 .. n)
        PROVE  (IF u = {} THEN r ELSE ElemPushOnConstruct(f[u \ {Max(u)}], q[Max(u)]))
                 = IF u = {} THEN r ELSE Turn(what, f[u \ {Newest("front", u)}], Newest("front", u))
    BY <1>2, <1>3
  <2> QED BY <2>1, <1>4, <1>5 DEF IsFoldOf
<1>7. PICK h :
        /\ h = [u \in SUBSET (1 .. n) |->
                 IF u = {} THEN r ELSE ElemPushOnConstruct(h[u \ {Max(u)}], q[Max(u)])]
        /\ ElemCommonSetup(r) = h[1 .. n]
  <2>1. ElemCommonSetup(r) = FoldLeft(ElemPushOnConstruct, r, q)
    BY DEF ElemCommonSetup
  <2> QED BY ZenonT(60), <2>1, <1>6, DOMAIN q = 1 .. n DEF FoldLeft, MapThenFoldSet
<1>8. IsFoldOf(h, what, n, r, "front", n)
  <2>1. ASSUME NEW u \in SUBSET (1 .. n)
        PROVE  (IF u = {} THEN r ELSE ElemPushOnConstruct(h[u \ {Max(u)}], q[Max(u)]))
                 = IF u = {} THEN r ELSE Turn(what, h[u \ {Newest("front", u)}], Newest("front", u))
    BY <1>2, <1>3
  <2> QED BY <2>1, <1>7, <1>5 DEF IsFoldOf
<1>9. PICK c : IsRun(c, what, n, r, "front") /\ c[n] = h[1 .. n]
  BY <1>3, <1>8, StepsRun
<1>10. \A k \in 1 .. n : c[k] = ElemPushOnConstruct(c[k - 1], q[k])
  BY <1>2, <1>9 DEF IsRun, Place
<1> QED BY ZenonT(60), <1>7, <1>9, <1>10 DEF IsRun, Gathering

(* s is r after the first k entities of q were looked at.                  *)
Gathered(r, s, q, k) ==
  /\ Placed(s) /\ Same(r, s)
  /\ \A x : In(s, "observing", x) <=> Fitting(r, "observing", x) /\ \E i \in 1 .. k : q[i] = x
  /\ \A x : In(s, "owning", x) <=> In(r, "owning", x)

(* One entity more was looked at.                                          *)
LEMMA GatheredMore ==
  ASSUME NEW r, NEW k \in Nat, NEW s, NEW q, Gathered(r, s, q, k),
         NEW e \in Entities, e = q[k + 1], NEW u, u = ElemPushOnConstruct(s, e)
  PROVE  Gathered(r, u, q, k + 1)
<1>1. /\ Placed(s) /\ Same(r, s)
      /\ \A x : In(s, "observing", x) <=> Fitting(r, "observing", x) /\ \E i \in 1 .. k : q[i] = x
      /\ \A x : In(s, "owning", x) <=> In(r, "owning", x)
  BY DEF Gathered
<1>2. /\ Reacted(s, u, e)
      /\ Becomes(s, u, "observing", e,
                 In(s, "observing", e) \/ (HasAll(s, ToSet(Observed), e) /\ Excluded(s, Filtered, e) = 0))
  BY <1>1, ElemJoinIf DEF ElemPushOnConstruct
<1>3. Placed(u) /\ Same(s, u)
  BY <1>2 DEF Reacted
<1>4. Same(r, u)
  BY <1>1, <1>3 DEF Same
<1>5. Need("observing") = ToSet(Observed) /\ Bars("observing") = Filtered
  BY DEF Need, Bars
<1>6. Fitting(r, "observing", e) <=> HasAll(s, ToSet(Observed), e) /\ Excluded(s, Filtered, e) = 0
  BY <1>1, <1>5, TypeFacts, SameHas DEF Fitting
<1>7. \A i : i \in 1 .. k + 1 <=> i = k + 1 \/ i \in 1 .. k
  OBVIOUS
<1>8. "observing" \in Groupings /\ "owning" \in Groupings /\ "observing" # "owning"
  BY DEF Groupings
<1>9. ASSUME NEW x
      PROVE  In(u, "observing", x) <=> Fitting(r, "observing", x) /\ \E i \in 1 .. k + 1 : q[i] = x
  <2>1. CASE x = e
    <3>1. In(u, "observing", e)
            <=> In(s, "observing", e) \/ (HasAll(s, ToSet(Observed), e) /\ Excluded(s, Filtered, e) = 0)
      BY <1>2 DEF Becomes
    <3>2. In(u, "observing", e) <=> Fitting(r, "observing", e)
      BY <3>1, <1>1, <1>6
    <3>3. \E i \in 1 .. k + 1 : q[i] = e
      BY <1>7
    <3> QED BY <2>1, <3>2, <3>3
  <2>2. CASE x # e
    <3>1. In(u, "observing", x) <=> In(s, "observing", x)
      BY <2>2, <1>2, <1>8 DEF Becomes
    <3>2. (\E i \in 1 .. k + 1 : q[i] = x) <=> \E i \in 1 .. k : q[i] = x
      BY <2>2, <1>7
    <3> QED BY <3>1, <3>2, <1>1
  <2> QED BY <2>1, <2>2
<1>10. \A x : In(u, "owning", x) <=> In(r, "owning", x)
  BY <1>1, <1>2, <1>8 DEF Becomes
<1> QED BY <1>3, <1>4, <1>9, <1>10 DEF Gathered

(* The group that owns nothing is made of the elements there are.          *)
LEMMA ElemCommonSetupFacts ==
  ASSUME NEW r, Placed(r), \A x : ~ In(r, "observing", x), NEW u, u = ElemCommonSetup(r)
  PROVE  /\ Placed(u) /\ Same(r, u)
         /\ \A x : Fits(u, "observing", x, FALSE, FALSE)
         /\ \A x : In(u, "owning", x) <=> In(r, "owning", x)
<1>1. Observed[1] \in ToSet(Observed) /\ Observed[1] \in Types
  <2>1. Observed \in Seq(Types) /\ Observed # << >>
    BY GroupAssumption
  <2>2. 1 \in 1 .. Len(Observed) /\ ToSet(Observed) = {Observed[i] : i \in 1 .. Len(Observed)}
    BY <2>1, SeqFacts, ElementsIs
  <2> QED BY <2>2, TypeFacts
<1>2. PICK p \in Seq(Entities) : p = r.pools[Observed[1]]
  BY <1>1, RegParts DEF Placed
<1>3. PICK q, n :
        /\ n \in Nat /\ q = Reverse(p) /\ n = Len(p) /\ q \in Seq(Entities) /\ DOMAIN q = 1 .. n /\ Len(q) = n
        /\ \A x : x \in ToSet(p) <=> \E i \in 1 .. n : q[i] = x
  <2>1. PICK q, n : q = Reverse(p) /\ n = Len(p)
    OBVIOUS
  <2>2. /\ q \in Seq(Entities) /\ Len(q) = n /\ DOMAIN q = 1 .. n /\ n \in Nat
        /\ \A x : x \in ToSet(p) <=> \E i \in 1 .. n : q[i] = x
    BY <2>1, ReversedFacts
  <2> QED BY <2>1, <2>2
<1>4. \A i \in 1 .. n : q[i] \in Entities
  BY <1>3, SeqFacts
<1>5. PICK c : /\ c[0] = r /\ c[n] = u
               /\ \A k \in 1 .. n : c[k] = ElemPushOnConstruct(c[k - 1], q[k])
  <2>1. PICK c : Gathering(c, r, ElemCommonSetup(r), q, n)
    BY <1>2, <1>3, ElemCommonSetupFold
  <2> QED BY <2>1 DEF Gathering
<1> DEFINE T == {k \in 0 .. n : Gathered(r, c[k], q, k)}
<1>6. 0 \in T
  <2>1. Same(r, r)
    BY DEF Same
  <2>2. \A x : ~ \E i \in 1 .. 0 : q[i] = x
    OBVIOUS
  <2>3. Gathered(r, r, q, 0)
    BY <2>1, <2>2 DEF Gathered
  <2>4. 0 \in 0 .. n
    BY <1>3
  <2> QED BY <2>3, <2>4, <1>5
<1>7. ASSUME NEW k \in 1 .. n, k - 1 \in T PROVE k \in T
  <2>1. PICK j \in Nat : j = k - 1 /\ k = j + 1 /\ k \in 0 .. n
    OBVIOUS
  <2>2. PICK s : s = c[j] /\ Gathered(r, s, q, j)
    BY <1>7, <2>1
  <2>3. PICK v, e : v = c[k] /\ e = q[k] /\ e \in Entities
    BY <1>4
  <2>4. Gathered(r, v, q, j + 1)
    <3>1. v = ElemPushOnConstruct(s, e)
      BY <1>5, <2>1, <2>2, <2>3
    <3> QED BY <3>1, <2>1, <2>2, <2>3, GatheredMore
  <2> QED BY <2>1, <2>3, <2>4
<1>8. n \in T
  <2>1. n \in Nat /\ n \in 0 .. n
    BY <1>3
  <2> HIDE DEF T
  <2> QED BY <2>1, <1>6, <1>7, CountUp
<1>9. Gathered(r, u, q, n)
  BY <1>5, <1>8
<1>10. \A x : Fitting(r, "observing", x) => \E i \in 1 .. n : q[i] = x
  <2>1. Need("observing") = ToSet(Observed)
    BY DEF Need
  <2> QED BY <2>1, <1>1, <1>2, <1>3 DEF Fitting, HasAll, Has
<1>11. ASSUME NEW x PROVE Fits(u, "observing", x, FALSE, FALSE)
  <2>1. Same(r, u) /\ (In(u, "observing", x) <=> Fitting(r, "observing", x))
    BY <1>9, <1>10 DEF Gathered
  <2>2. "observing" \in Groupings
    BY DEF Groupings
  <2> QED BY <2>1, <2>2, FittingFits
<1> QED BY <1>9, <1>11 DEF Gathered

-------------------------------------------------------------------------------
(* Sorting.                                                                *)

(* p exchanges the positions 1 to n.                                       *)
IsPermutation(p, n) ==
  /\ p \in [1 .. n -> 1 .. n]
  /\ \A i, j \in 1 .. n : p[i] = p[j] => i = j
  /\ \A i \in 1 .. n : \E j \in 1 .. n : p[j] = i

(* A bijection of the positions is a permutation of them.                  *)
LEMMA PermutationFacts ==
  ASSUME NEW n \in Nat, NEW p \in Bijection(1 .. n, 1 .. n)
  PROVE  IsPermutation(p, n)
BY DEF Bijection, Injection, Surjection, IsInjective, IsPermutation

(* t has the elements of s.                                                *)
Shuffled(s, t, S) ==
  t \in Seq(S) /\ IsInjective(t) /\ ToSet(t) = ToSet(s) /\ Len(t) = Len(s)

(* The elements in another order.                                          *)
LEMMA ReorderedFacts ==
  ASSUME NEW S, NEW s \in Seq(S), IsInjective(s), NEW n \in Nat, n = Len(s),
         NEW p, IsPermutation(p, n), NEW t, t = [i \in DOMAIN s |-> s[p[i]]]
  PROVE  Shuffled(s, t, S)
<1>1. DOMAIN s = 1 .. n /\ (\A i \in 1 .. n : s[i] \in S)
      /\ (\A i, j \in 1 .. n : s[i] = s[j] => i = j) /\ ToSet(s) = {s[i] : i \in 1 .. n}
  BY SeqFacts, ElementsIs
<1>2. p \in [1 .. n -> 1 .. n] /\ (\A i, j \in 1 .. n : p[i] = p[j] => i = j)
      /\ \A i \in 1 .. n : \E j \in 1 .. n : p[j] = i
  BY DEF IsPermutation
<1>3. t = [i \in 1 .. n |-> s[p[i]]] /\ \A i \in 1 .. n : t[i] = s[p[i]] /\ t[i] \in S
  BY <1>1, <1>2
<1>4. t \in Seq(S) /\ Len(t) = n
  <2>1. t \in [1 .. n -> S]
    BY ONLY <1>3
  <2> QED BY ONLY <2>1, n \in Nat
<1>5. \A i, j \in 1 .. n : t[i] = t[j] => i = j
  BY ONLY SMTT(60), <1>1, <1>2, <1>3
<1>6. IsInjective(t) /\ ToSet(t) = {t[i] : i \in 1 .. n}
  <2>1. ToSet(t) = {t[i] : i \in 1 .. Len(t)}
        /\ (IsInjective(t) <=> \A i, j \in 1 .. Len(t) : t[i] = t[j] => i = j)
    BY ONLY <1>4, ElementsIs
  <2> QED BY ONLY <2>1, <1>4, <1>5
<1>7. PICK A, B : A = {t[i] : i \in 1 .. n} /\ B = {s[i] : i \in 1 .. n}
  OBVIOUS
<1>8. ASSUME NEW x \in A PROVE x \in B
  <2>1. PICK i \in 1 .. n : x = s[p[i]]
    BY <1>3, <1>7
  <2> QED BY <2>1, <1>2, <1>7
<1>9. ASSUME NEW x \in B PROVE x \in A
  <2>1. PICK i \in 1 .. n : x = s[i]
    BY <1>7
  <2>2. PICK j \in 1 .. n : p[j] = i
    BY <1>2
  <2>3. t[j] = x
    BY <2>1, <2>2, <1>3
  <2> QED BY <2>3, <1>7
<1> QED BY <1>1, <1>4, <1>6, <1>7, <1>8, <1>9 DEF Shuffled

(* The other pools follow, from the back of the group.                     *)
Chasing(c, seq, head, u, n) ==
  /\ c[0] = seq /\ c[n] = u
  /\ \A k \in 1 .. n : c[k] = Exchanged(c[k - 1], n + 1 - k, Pos(c[k - 1], head[n + 1 - k]))

(* The fold of Follow, as a run.                                           *)
LEMMA FollowFold ==
  ASSUME NEW seq, NEW head, NEW n \in Nat
  PROVE  \E c : Chasing(c, seq, head, Follow(seq, head, n), n)
<1> DEFINE q == [k \in 1 .. n |-> k]
           Ex(s, k) == Exchanged(s, n + 1 - k, Pos(s, head[n + 1 - k]))
<1>1. PICK what : what = [step |-> "follow", size |-> n, seq |-> head]
  OBVIOUS
<1>2. DOMAIN q = 1 .. n /\ \A k \in 1 .. n : q[k] = k
  OBVIOUS
<1>3. \A x, i : Turn(what, x, i) = Ex(x, i)
  BY <1>1 DEF Turn
<1>4. Follow(seq, head, n) = FoldLeft(Ex, seq, q)
  BY DEF Follow
<1> HIDE DEF q, Ex
<1>5. "front" \in Ways /\ \A u : Newest("front", u) = Max(u)
  BY DEF Newest, Ways
<1>6. PICK f : IsFoldOf(f, what, n, seq, "front", n)
  BY <1>5, StepsExist
<1>7. Places("front", n, n) = 1 .. n
  BY <1>5, PlacesFacts
<1>8. \A u \in SUBSET (1 .. n) : u # {} => q[Max(u)] = Max(u)
  <2> SUFFICES ASSUME NEW u \in SUBSET (1 .. n), u # {} PROVE q[Max(u)] = Max(u)
    OBVIOUS
  <2>1. Max(u) \in 1 .. n
    BY LastExists
  <2> QED BY <2>1, <1>2
<1>9. f = [u \in SUBSET (1 .. n) |-> IF u = {} THEN seq ELSE Ex(f[u \ {Max(u)}], q[Max(u)])]
  <2>1. ASSUME NEW u \in SUBSET (1 .. n)
        PROVE  (IF u = {} THEN seq ELSE Ex(f[u \ {Max(u)}], q[Max(u)]))
                 = IF u = {} THEN seq ELSE Turn(what, f[u \ {Newest("front", u)}], Newest("front", u))
    BY <1>3, <1>5, <1>8
  <2> QED BY <2>1, <1>6, <1>7 DEF IsFoldOf
<1>10. PICK h :
        /\ h = [u \in SUBSET (1 .. n) |-> IF u = {} THEN seq ELSE Ex(h[u \ {Max(u)}], q[Max(u)])]
        /\ FoldLeft(Ex, seq, q) = h[1 .. n]
  BY ZenonT(60), <1>2, <1>9 DEF FoldLeft, MapThenFoldSet
<1>11. IsFoldOf(h, what, n, seq, "front", n)
  <2>1. ASSUME NEW u \in SUBSET (1 .. n)
        PROVE  (IF u = {} THEN seq ELSE Ex(h[u \ {Max(u)}], q[Max(u)]))
                 = IF u = {} THEN seq ELSE Turn(what, h[u \ {Newest("front", u)}], Newest("front", u))
    BY <1>3, <1>5, <1>8
  <2> QED BY <2>1, <1>10, <1>7 DEF IsFoldOf
<1>12. PICK c : IsRun(c, what, n, seq, "front") /\ c[n] = h[1 .. n]
  BY <1>5, <1>11, StepsRun
<1>13. \A k \in 1 .. n : c[k] = Ex(c[k - 1], k)
  BY <1>3, <1>12 DEF IsRun, Place
<1> QED BY <1>4, <1>10, <1>12, <1>13 DEF IsRun, Ex, Chasing

(* The first n elements of head are different ones of seq.                 *)
Leading(head, n, seq) ==
  /\ \A i \in 1 .. n : head[i] \in ToSet(seq)
  /\ \A i, j \in 1 .. n : head[i] = head[j] => i = j

(* The first n elements of s are those of head.                            *)
Begins(s, head, n) == \A i \in 1 .. n : s[i] = head[i]

(* s has the elements of seq, and the last k of the first n are in place.  *)
Followed(seq, head, n, s, k, S) ==
  /\ s \in Seq(S) /\ IsInjective(s) /\ ToSet(s) = ToSet(seq) /\ Len(s) = Len(seq)
  /\ \A i \in n + 1 - k .. n : s[i] = head[i]

(* One position more is in place, and those behind it stay.                *)
LEMMA FollowedMore ==
  ASSUME NEW S, NEW seq \in Seq(S), NEW n \in Nat, n <= Len(seq), NEW head,
         Leading(head, n, seq), NEW k \in Nat, k < n, NEW s, Followed(seq, head, n, s, k, S),
         NEW u, u = Exchanged(s, n - k, Pos(s, head[n - k]))
  PROVE  Followed(seq, head, n, u, k + 1, S)
<1>1. PICK m \in 1 .. n : m = n - k /\ n + 1 - k = m + 1 /\ n + 1 - (k + 1) = m
  OBVIOUS
<1>2. /\ s \in Seq(S) /\ IsInjective(s) /\ ToSet(s) = ToSet(seq) /\ Len(s) = Len(seq)
      /\ \A i \in m + 1 .. n : s[i] = head[i]
  BY <1>1 DEF Followed
<1>3. Len(s) \in Nat /\ m \in 1 .. Len(s)
  BY <1>1, <1>2, SeqFacts
<1>4. PICK p : p = Pos(s, head[m])
  OBVIOUS
<1>5. p \in 1 .. Len(s) /\ s[p] = head[m]
  <2>1. head[m] \in ToSet(s)
    BY <1>1, <1>2 DEF Leading
  <2> QED BY <2>1, <1>2, <1>4, PosFacts
<1>6. u = Exchanged(s, m, p)
  BY <1>1, <1>4
<1>7. u \in Seq(S) /\ IsInjective(u) /\ ToSet(u) = ToSet(s) /\ Swapped(s, m, p, u)
  BY <1>2, <1>3, <1>5, <1>6, ExchangedFacts
<1>8. ASSUME NEW i \in m .. n PROVE u[i] = head[i]
  <2>1. CASE i = m
    BY <2>1, <1>5, <1>7 DEF Swapped
  <2>2. CASE i # m
    <3>1. i \in m + 1 .. n /\ i \in 1 .. n /\ m \in 1 .. n /\ i \in 1 .. Len(s)
      BY <2>2, <1>1, <1>2, <1>3
    <3>2. s[i] = head[i]
      BY <3>1, <1>2
    <3>3. i # p
      <4>1. head[i] # head[m]
        BY <2>2, <3>1 DEF Leading
      <4> QED BY <4>1, <3>2, <1>5
    <3> QED BY <2>2, <3>1, <3>2, <3>3, <1>7 DEF Swapped
  <2> QED BY <2>1, <2>2
<1> QED BY <1>1, <1>2, <1>7, <1>8 DEF Followed, Swapped

(* A pool that follows begins with the entities of the first pool.         *)
LEMMA FollowFacts ==
  ASSUME NEW S, NEW seq \in Seq(S), IsInjective(seq), NEW n \in Nat, n <= Len(seq), NEW head,
         Leading(head, n, seq), NEW u, u = Follow(seq, head, n)
  PROVE  Shuffled(seq, u, S) /\ Begins(u, head, n)
<1>1. PICK c : /\ c[0] = seq /\ c[n] = u
               /\ \A k \in 1 .. n :
                    c[k] = Exchanged(c[k - 1], n + 1 - k, Pos(c[k - 1], head[n + 1 - k]))
  <2>1. PICK c : Chasing(c, seq, head, Follow(seq, head, n), n)
    BY FollowFold
  <2> QED BY <2>1 DEF Chasing
<1> DEFINE T == {k \in 0 .. n : Followed(seq, head, n, c[k], k, S)}
<1>2. 0 \in T
  <2>1. 0 \in 0 .. n /\ \A i \in n + 1 - 0 .. n : FALSE
    OBVIOUS
  <2> QED BY <2>1, <1>1 DEF Followed
<1>3. ASSUME NEW k \in 1 .. n, k - 1 \in T PROVE k \in T
  <2>1. PICK j \in Nat : j = k - 1 /\ j < n /\ k = j + 1 /\ k \in 0 .. n /\ n + 1 - k = n - j
    OBVIOUS
  <2>2. PICK s : s = c[j] /\ Followed(seq, head, n, s, j, S)
    BY <1>3, <2>1
  <2>3. PICK v : v = c[k] /\ v = Exchanged(s, n - j, Pos(s, head[n - j]))
    BY <1>1, <2>1, <2>2
  <2>4. Followed(seq, head, n, v, j + 1, S)
    BY <2>1, <2>2, <2>3, FollowedMore
  <2> QED BY <2>1, <2>3, <2>4
<1>4. n \in T
  <2>1. n \in 0 .. n
    OBVIOUS
  <2> HIDE DEF T
  <2> QED BY <2>1, <1>2, <1>3, CountUp
<1>5. Followed(seq, head, n, u, n, S)
  BY <1>1, <1>4
<1>6. \A i \in 1 .. n : i \in n + 1 - n .. n
  OBVIOUS
<1> QED BY <1>5, <1>6 DEF Followed, Shuffled, Begins

(* h is s with its first n elements in another order.                      *)
Headed(s, h, n, S) ==
  /\ Shuffled(s, h, S)
  /\ \A i \in 1 .. n : \E j \in 1 .. n : h[i] = s[j]
  /\ \A i \in 1 .. n : \E j \in 1 .. n : h[j] = s[i]

(* The pool in front with the members of the group in another order.       *)
LEMMA HeadFacts ==
  ASSUME NEW S, NEW s \in Seq(S), IsInjective(s), NEW n \in Nat, n <= Len(s),
         NEW p \in Bijection(1 .. n, 1 .. n),
         NEW h, h = [i \in DOMAIN s |-> IF i <= n THEN s[p[i]] ELSE s[i]]
  PROVE  Headed(s, h, n, S)
<1>1. PICK l \in Nat : l = Len(s) /\ DOMAIN s = 1 .. l /\ n <= l
  BY SeqFacts
<1>2. p \in [1 .. n -> 1 .. n] /\ (\A i, j \in 1 .. n : p[i] = p[j] => i = j)
      /\ \A i \in 1 .. n : \E j \in 1 .. n : p[j] = i
  BY PermutationFacts DEF IsPermutation
<1>3. PICK f : f = [i \in 1 .. l |-> IF i <= n THEN p[i] ELSE i]
  OBVIOUS
<1>4. \A i \in 1 .. l : i <= n => i \in 1 .. n /\ p[i] \in 1 .. n
  BY <1>2
<1>5. f \in [1 .. l -> 1 .. l]
  BY <1>1, <1>3, <1>4
<1>6. \A i, j \in 1 .. l : f[i] = f[j] => i = j
  <2> SUFFICES ASSUME NEW i \in 1 .. l, NEW j \in 1 .. l, f[i] = f[j] PROVE i = j
    OBVIOUS
  <2>1. CASE i <= n /\ j <= n
    BY <2>1, <1>2, <1>3, <1>4
  <2>2. CASE i <= n /\ ~ (j <= n)
    BY <2>2, <1>3, <1>4
  <2>3. CASE ~ (i <= n) /\ j <= n
    BY <2>3, <1>3, <1>4
  <2>4. CASE ~ (i <= n) /\ ~ (j <= n)
    BY <2>4, <1>3
  <2> QED BY <2>1, <2>2, <2>3, <2>4
<1>7. \A i \in 1 .. l : \E j \in 1 .. l : f[j] = i
  <2> SUFFICES ASSUME NEW i \in 1 .. l PROVE \E j \in 1 .. l : f[j] = i
    OBVIOUS
  <2>1. CASE i <= n
    <3>1. PICK j \in 1 .. n : p[j] = i
      BY <2>1, <1>2, <1>4
    <3>2. j \in 1 .. l /\ j <= n
      BY <1>1
    <3> QED BY <3>1, <3>2, <1>3
  <2>2. CASE ~ (i <= n)
    BY <2>2, <1>3
  <2> QED BY <2>1, <2>2
<1>8. IsPermutation(f, l)
  BY <1>5, <1>6, <1>7 DEF IsPermutation
<1>9. h = [i \in DOMAIN s |-> s[f[i]]]
  BY <1>1, <1>3
<1>10. Shuffled(s, h, S)
  BY <1>1, <1>8, <1>9, ReorderedFacts
<1>11. \A i \in 1 .. n : i \in 1 .. l /\ h[i] = s[p[i]]
  BY <1>1
<1>12. \A i \in 1 .. n : \E j \in 1 .. n : h[i] = s[j]
  BY <1>2, <1>11
<1>13. \A i \in 1 .. n : \E j \in 1 .. n : h[j] = s[i]
  <2>1. \A i \in 1 .. n : \E j \in 1 .. n : p[j] = i
    BY <1>2
  <2>2. \A j \in 1 .. n : h[j] = s[p[j]]
    BY <1>11
  <2> QED BY ONLY ZenonT(60), <2>1, <2>2
<1> QED BY <1>10, <1>12, <1>13 DEF Headed

(* The group is sorted: it keeps its entities, in the same order in all    *)
(* pools.                                                                  *)
LEMMA SortFacts ==
  ASSUME NEW r, Placed(r), NEW perm \in Bijection(1 .. r.len, 1 .. r.len), NEW first, first = r.pools[Owned[1]],
         NEW head, head = [n \in DOMAIN first |-> IF n <= r.len THEN first[perm[n]] ELSE first[n]],
         NEW u, u = [r EXCEPT !.pools =
                       [t \in Types |-> CASE t = Owned[1]            -> head
                                          [] t \in ToSet(Tail(Owned)) -> Follow(@[t], head, r.len)
                                          [] OTHER                    -> @[t]]]
  PROVE  /\ Placed(u) /\ Same(r, u)
         /\ \A g \in Groupings : \A x : In(u, g, x) <=> In(r, g, x)
<1>1. Owned[1] \in Types /\ Owned[1] \in ToSet(Owned) /\ ToSet(Owned) \subseteq Types
  BY TypeFacts
<1>2. ToSet(Tail(Owned)) = ToSet(Owned) \ {Owned[1]}
  <2>1. Owned \in Seq(Types) /\ IsInjective(Owned) /\ Owned # << >>
    BY GroupAssumption
  <2> QED BY <2>1, TailFacts
<1>3. PICK n \in Nat : n = r.len
  BY RegParts DEF Placed
<1>4. r \in Regs /\ r.pools \in [Types -> Seq(Entities)] /\ \A t \in Types : r.pools[t] \in Seq(Entities)
  BY RegParts DEF Placed
<1>5. first \in Seq(Entities) /\ IsInjective(first) /\ n <= Len(first)
  BY <1>1, <1>3, <1>4 DEF Placed
<1>6. head = [i \in DOMAIN first |-> IF i <= n THEN first[perm[i]] ELSE first[i]]
      /\ perm \in Bijection(1 .. n, 1 .. n)
  BY <1>3
<1>7. /\ head \in Seq(Entities) /\ IsInjective(head) /\ ToSet(head) = ToSet(first)
      /\ Len(head) = Len(first)
      /\ \A i \in 1 .. n : \E j \in 1 .. n : head[i] = first[j]
      /\ \A i \in 1 .. n : \E j \in 1 .. n : head[j] = first[i]
  <2>1. Headed(first, head, n, Entities)
    BY <1>5, <1>6, HeadFacts
  <2> QED BY <2>1 DEF Headed, Shuffled
<1>8. PICK q : q = [t \in Types |-> CASE t = Owned[1]            -> head
                                      [] t \in ToSet(Tail(Owned)) -> Follow(r.pools[t], head, r.len)
                                      [] OTHER                    -> r.pools[t]]
  OBVIOUS
<1>9. u = [r EXCEPT !.pools = q]
  BY <1>8
<1>10. \A i, j \in 1 .. n : head[i] = head[j] => i = j
  <2>1. \A i, j \in 1 .. Len(head) : head[i] = head[j] => i = j
    <3>1. head \in Seq(Entities) /\ IsInjective(head)
      BY <1>7
    <3> QED BY ONLY <3>1, ElementsIs
  <2>2. Len(head) \in Nat /\ n <= Len(head)
    BY <1>5, <1>7, SeqFacts
  <2> QED BY ONLY <2>1, <2>2, n \in Nat
<1>11. ASSUME NEW t \in ToSet(Owned)
       PROVE  /\ q[t] \in Seq(Entities) /\ IsInjective(q[t]) /\ ToSet(q[t]) = ToSet(r.pools[t])
              /\ Len(q[t]) = Len(r.pools[t]) /\ \A i \in 1 .. n : q[t][i] = head[i]
  <2>1. CASE t = Owned[1]
    <3>1. q[t] = head
      <4>1. t \in Types
        BY <1>1
      <4>2. q[t] = CASE t = Owned[1]            -> head
                     [] t \in ToSet(Tail(Owned)) -> Follow(r.pools[t], head, r.len)
                     [] OTHER                    -> r.pools[t]
        BY ONLY <4>1, <1>8
      <4>3. t \notin ToSet(Tail(Owned))
        BY <2>1, <1>2
      <4> QED BY ONLY <4>2, <4>3, <2>1
    <3> QED BY <2>1, <3>1, <1>7
  <2>2. CASE t # Owned[1]
    <3>1. PICK s \in Seq(Entities) : s = r.pools[t] /\ IsInjective(s) /\ n <= Len(s)
      BY <1>1, <1>3, <1>4 DEF Placed
    <3>2. PICK w : w = q[t]
      OBVIOUS
    <3>3. w = Follow(s, head, n)
      BY <2>2, <3>1, <3>2, <1>1, <1>2, <1>3, <1>8
    <3>4. \A i \in 1 .. n : head[i] \in ToSet(s)
      <4>1. \A i \in 1 .. n : s[i] = first[i]
        BY <3>1, <1>3 DEF Placed
      <4>2. ToSet(s) = {s[i] : i \in 1 .. Len(s)} /\ Len(s) \in Nat
        BY <3>1, SeqFacts, ElementsIs
      <4>3. \A j \in 1 .. n : s[j] \in ToSet(s)
        BY <3>1, <4>2
      <4>4. \A i \in 1 .. n : \E j \in 1 .. n : head[i] = s[j]
        BY ONLY <4>1, <1>7
      <4> QED BY ONLY <4>3, <4>4
    <3>5. Leading(head, n, s)
      BY <3>4, <1>10 DEF Leading
    <3>6. Shuffled(s, w, Entities) /\ Begins(w, head, n)
      BY <3>1, <3>3, <3>5, FollowFacts
    <3> QED BY <3>1, <3>2, <3>6 DEF Shuffled, Begins
  <2> QED BY <2>1, <2>2
<1>12. \A t \in Types \ ToSet(Owned) : q[t] = r.pools[t]
  BY <1>1, <1>2, <1>8
<1>13. q \in [Types -> Seq(Entities)]
  BY <1>4, <1>8, <1>11, <1>12
<1>14. u \in Regs /\ u.pools = q /\ u.len = n /\ u.elem = r.elem
  BY <1>3, <1>4, <1>9, <1>13 DEF Regs
<1>15. Placed(u)
  <2>1. \A t \in Types : IsInjective(q[t])
    BY <1>11, <1>12 DEF Placed
  <2>2. ASSUME NEW t \in ToSet(Owned)
        PROVE  n <= Len(q[t]) /\ \A i \in 1 .. n : q[t][i] = q[Owned[1]][i]
    <3>1. n <= Len(q[t])
      BY <1>3, <1>11 DEF Placed
    <3>2. \A i \in 1 .. n : q[t][i] = head[i]
      BY <1>11
    <3>3. \A i \in 1 .. n : q[Owned[1]][i] = head[i]
      BY <1>1, <1>11
    <3> QED BY ONLY <3>1, <3>2, <3>3
  <2>3. IsInjective(r.elem)
    BY DEF Placed
  <2>4. \A t \in ToSet(Owned) : n <= Len(q[t]) /\ \A i \in 1 .. n : q[t][i] = q[Owned[1]][i]
    BY <2>2
  <2> QED BY ONLY <1>14, <2>1, <2>3, <2>4 DEF Placed
<1>16. Same(r, u)
  BY <1>11, <1>12, <1>14 DEF Same
<1>17. \A x : In(u, "owning", x) <=> In(r, "owning", x)
  <2>1. \A i \in 1 .. n : q[Owned[1]][i] = head[i]
    BY <1>1, <1>11
  <2>2. \A x : (\E i \in 1 .. n : q[Owned[1]][i] = x) <=> \E i \in 1 .. n : head[i] = x
    BY ONLY <2>1
  <2>3. (\A i \in 1 .. n : \E j \in 1 .. n : head[i] = first[j])
        /\ (\A i \in 1 .. n : \E j \in 1 .. n : head[j] = first[i])
    BY <1>7
  <2>4. \A x : (\E i \in 1 .. n : head[i] = x) <=> \E i \in 1 .. n : first[i] = x
    BY ONLY <2>3
  <2>5. \A x : In(u, "owning", x) <=> \E i \in 1 .. n : q[Owned[1]][i] = x
    BY <1>14 DEF In
  <2>6. \A x : In(r, "owning", x) <=> \E i \in 1 .. n : first[i] = x
    BY <1>3 DEF In
  <2> QED BY ONLY <2>2, <2>4, <2>5, <2>6
<1>18. \A x : In(u, "observing", x) <=> In(r, "observing", x)
  BY <1>14 DEF In
<1> QED BY <1>15, <1>16, <1>17, <1>18 DEF Groupings

(* A pool without an entity of the group is sorted.                        *)
LEMMA SortFreeFacts ==
  ASSUME NEW r, Placed(r), NEW t \in Types, t \in ToSet(Owned) => r.len = 0,
         NEW perm \in Bijection(DOMAIN r.pools[t], DOMAIN r.pools[t]),
         NEW u, u = [r EXCEPT !.pools[t] = [n \in DOMAIN @ |-> @[perm[n]]]]
  PROVE  /\ Placed(u) /\ Same(r, u)
         /\ \A g \in Groupings : \A x : In(u, g, x) <=> In(r, g, x)
<1>1. PICK s \in Seq(Entities), n \in Nat : s = r.pools[t] /\ n = Len(s) /\ DOMAIN s = 1 .. n /\ IsInjective(s)
  BY RegParts, SeqFacts DEF Placed
<1>2. PICK q : q = [i \in DOMAIN s |-> s[perm[i]]]
  OBVIOUS
<1>3. IsPermutation(perm, n)
  BY <1>1, PermutationFacts
<1>4. q \in Seq(Entities) /\ IsInjective(q) /\ ToSet(q) = ToSet(s) /\ Len(q) = Len(s)
  <2>1. Shuffled(s, q, Entities)
    BY <1>1, <1>2, <1>3, ReorderedFacts
  <2> QED BY <2>1 DEF Shuffled
<1>5. u = [r EXCEPT !.pools[t] = q]
  BY <1>1, <1>2
<1>6. Changed(r, u, t, q)
  <2>1. r.len = 0 => r.len <= Len(q) /\ \A i \in 1 .. r.len : q[i] = r.pools[t][i]
    <3>1. Len(q) \in Nat
      BY <1>4, SeqFacts
    <3> QED BY <3>1
  <2>2. BehindOnly(r, t, q)
    BY <2>1 DEF BehindOnly
  <2> QED BY <2>2, <1>4, <1>5, ChangedPool
<1>7. /\ Placed(u) /\ u.pools[t] = q /\ \A p \in Types : p # t => u.pools[p] = r.pools[p]
      /\ \A g \in Groupings : \A x : In(u, g, x) <=> In(r, g, x)
  BY <1>6 DEF Changed
<1>8. Same(r, u)
  BY <1>1, <1>4, <1>7 DEF Same
<1> QED BY <1>7, <1>8

(* A group without an entity has length 0.                                 *)
LEMMA EmptyGroup ==
  ASSUME NEW r, Placed(r), \A x : ~ In(r, "owning", x)
  PROVE  r.len = 0
<1>1. Owned[1] \in ToSet(Owned) /\ Owned[1] \in Types
  BY TypeFacts
<1>2. r.len \in Nat /\ r.len <= Len(r.pools[Owned[1]])
  BY <1>1, RegParts DEF Placed
<1>3. Len(r.pools[Owned[1]]) \in Nat
  BY <1>1, RegParts, SeqFacts DEF Placed
<1>4. CASE r.len >= 1
  <2>1. 1 \in 1 .. Len(r.pools[Owned[1]]) /\ 1 <= r.len
    BY <1>2, <1>3, <1>4
  <2> QED BY <2>1, <1>1, InPool
<1> QED BY <1>2, <1>4

(* Neither sort changes what a group has.                                  *)
LEMMA SettledSame ==
  ASSUME NEW r, Settled(r), NEW u, Placed(u), Same(r, u),
         \A g \in Groupings : \A x : In(u, g, x) <=> In(r, g, x)
  PROVE  Settled(u)
<1>1. Absent(u)
  BY DEF Settled, Absent
<1>2. ASSUME ~ Foreign, NEW g \in Groupings, Created(g), NEW x \in Entities PROVE Fits(u, g, x, FALSE, FALSE)
  <2>1. Fits(r, g, x, FALSE, FALSE) /\ (In(u, g, x) <=> In(r, g, x))
    BY <1>2 DEF Settled
  <2>2. \A p \in Concerns(g) : Has(u, p, x) <=> Has(r, p, x)
    BY SameHas, TypeFacts DEF Concerns
  <2> QED BY <2>1, <2>2, FitsSame
<1> QED BY <1>1, <1>2 DEF Settled

-------------------------------------------------------------------------------
(* The calls in progress.                                                  *)

(* The calls: the values of the elements of stack.                         *)
Frames ==
  [kind : {"publish", "insert", "user"}, type : Types, entt : Entities,
   next : Nat, to : Nat, es : Seq(Entities), told : Seq(Entities)]

(* x is among the first m of s; it is behind them, up to n.                *)
Early(s, m, x)   == \E i \in 1 .. Len(s) : i <= m /\ s[i] = x
Late(s, m, n, x) == \E i \in 1 .. Len(s) : m < i /\ i <= n /\ s[i] = x

(* What a call says is so: its positions exist, its entity has the element.*)
GoodFrame(r, f, k) ==
  /\ f.kind = "insert" => k = 1 /\ f.next <= f.to /\ f.to <= Len(r.pools[f.type])
  /\ f.kind # "insert" => Has(r, f.type, f.entt)
  /\ f.kind = "publish" => f.next <= Len(listeners["construct"][f.type])

(* All calls are well formed.                                              *)
Stacked(r, st) == st \in Seq(Frames) /\ \A k \in 1 .. Len(st) : GoodFrame(r, st[k], k)

(* The call f will still tell g of the construction of x.                  *)
FrameWaits(r, f, g, x) ==
  \/ f.kind = "publish" /\ f.entt = x /\ \E i \in 1 .. f.next : listeners["construct"][f.type][i] = g
  \/ f.kind = "insert" /\ Late(r.pools[f.type], f.next, f.to, x)

(* Some call in a pool of types will still tell g of x.                    *)
Waits(r, st, g, x, types) ==
  \E k \in 1 .. Len(st) : st[k].type \in types /\ FrameWaits(r, st[k], g, x)

(* A group is exact but for what it will still be told of.                 *)
FitsBut(r, st, g, x) ==
  Fits(r, g, x, Waits(r, st, g, x, Bars(g)), Waits(r, st, g, x, Need(g)))

(* All groups are.                                                         *)
Exact(r, st) ==
  \A g \in Groupings : Created(g) => \A x \in Entities : FitsBut(r, st, g, x)

(* What the insertion f told of begins its range, and the positions of the *)
(* pool q it has still to visit hold the rest.                             *)
InOrder(q, f) ==
  /\ f.next + Len(f.es) = f.to + Len(f.told)
  /\ \A i \in 1 .. Len(f.told) : f.told[i] = f.es[i]
  /\ \A n \in 1 .. Len(q) : f.next < n /\ n <= f.to => q[n] = f.es[n + Len(f.es) - f.to]

(* An insertion tells of its range in order, what the calls above it are   *)
(* about is among the positions it has passed, and the group ends there.   *)
Inserting(r, st) ==
  Len(st) > 0 /\ st[1].kind = "insert" =>
    /\ InOrder(r.pools[st[1].type], st[1])
    /\ st[1].type \in ToSet(Owned) => r.len <= st[1].next
    /\ \A k \in 2 .. Len(st) : /\ st[k].entt = st[2].entt
                               /\ Early(r.pools[st[1].type], st[1].next, st[k].entt)

(* What holds of the registry and the calls in progress.                   *)
Good(r, st) ==
  /\ Placed(r) /\ Absent(r) /\ Stacked(r, st)
  /\ ~ Foreign => Exact(r, st) /\ Inserting(r, st)

(* The inductive invariant.                                                *)
Inv == Listening /\ Good(reg, stack)

(* The fields of a call.                                                   *)
LEMMA FrameParts ==
  ASSUME NEW f \in Frames
  PROVE  /\ f.kind \in {"publish", "insert", "user"} /\ f.type \in Types /\ f.entt \in Entities
         /\ f.next \in Nat /\ f.to \in Nat /\ f.es \in Seq(Entities) /\ f.told \in Seq(Entities)
BY DEF Frames

(* Without a call in progress the groups are exact.                        *)
LEMMA SettledGood ==
  ASSUME NEW r
  PROVE  Settled(r) <=> Good(r, << >>)
<1>1. PICK st : st = << >>
  OBVIOUS
<1>2. Len(st) = 0 /\ st \in Seq(Frames)
  BY <1>1
<1>3. \A k \in 1 .. Len(st) : FALSE
  BY <1>2
<1>4. Stacked(r, st)
  BY <1>2, <1>3 DEF Stacked
<1>5. \A g, x, types : ~ Waits(r, st, g, x, types)
  BY <1>3 DEF Waits
<1>6. \A g, x : FitsBut(r, st, g, x) <=> Fits(r, g, x, FALSE, FALSE)
  BY <1>5 DEF FitsBut, Fits
<1>7. Inserting(r, st)
  BY <1>2 DEF Inserting
<1>8. Exact(r, st) <=> \A g \in Groupings : Created(g) => \A x \in Entities : Fits(r, g, x, FALSE, FALSE)
  BY <1>6 DEF Exact
<1> QED BY <1>1, <1>4, <1>7, <1>8 DEF Settled, Good

(* A step that leaves the listeners alone.                                 *)
LEMMA Keeps ==
  ASSUME Listening, UNCHANGED listeners, NEW u, u = reg', NEW w, w = stack', Good(u, w)
  PROVE  Inv'
<1>1. Listening'
  BY DEF Listening, Created
<1>2. \A g : Created(g)' <=> Created(g)
  BY DEF Created
<1>3. Absent(reg)'
  BY <1>2 DEF Good, Absent
<1>4. Stacked(reg, stack)'
  BY DEF Good, Stacked, GoodFrame
<1>5. Placed(reg)'
  BY DEF Good
<1>6. Exact(reg, stack)' <=> Exact(u, w)
  <2>1. ASSUME NEW g, NEW x PROVE FitsBut(reg, stack, g, x)' <=> FitsBut(u, w, g, x)
    <3>1. Waits(reg, stack, g, x, Bars(g))' <=> Waits(u, w, g, x, Bars(g))
      BY DEF Waits, FrameWaits
    <3>2. Waits(reg, stack, g, x, Need(g))' <=> Waits(u, w, g, x, Need(g))
      BY DEF Waits, FrameWaits
    <3> QED BY <3>1, <3>2 DEF FitsBut, Fits
  <2> QED BY <2>1, <1>2 DEF Exact
<1>7. Inserting(reg, stack)' <=> Inserting(u, w)
  BY DEF Inserting
<1> QED BY <1>1, <1>3, <1>4, <1>5, <1>6, <1>7 DEF Inv, Good

(* One more sequence fact: the last element is replaced.                   *)
LEMMA ReplaceFacts ==
  ASSUME NEW S, NEW s \in Seq(S), s # << >>, NEW x \in S, NEW t, t = Front(s) \o << x >>
  PROVE  t \in Seq(S) /\ Topped(s, x, t)
<1>1. PICK u : u = Front(s) /\ u \in Seq(S)
  BY PopFacts
<1>2. u \o << x >> = Append(u, x)
  BY <1>1
<1> QED BY <1>1, <1>2, TopFacts

-------------------------------------------------------------------------------
(* What a step does to the calls in progress.                              *)

(* The insertion f does not notice that r becomes u.                       *)
Calm(r, u, f) ==
  /\ \A x : Late(u.pools[f.type], f.next, f.to, x) <=> Late(r.pools[f.type], f.next, f.to, x)
  /\ \A x : Early(r.pools[f.type], f.next, x) => Early(u.pools[f.type], f.next, x)
  /\ f.type \in ToSet(Owned) /\ r.len <= f.next => u.len <= f.next
  /\ InOrder(r.pools[f.type], f) => InOrder(u.pools[f.type], f)

(* No insertion notices.                                                   *)
Steady(r, u, st) == \A k \in 1 .. Len(st) : st[k].kind = "insert" => Calm(r, u, st[k])

(* t is s with nothing behind m moved.                                     *)
Undisturbed(s, t, m) ==
  /\ \A n, x : Late(t, m, n, x) <=> Late(s, m, n, x)
  /\ \A x : Early(s, m, x) => Early(t, m, x)

(* Behind m nothing moves: what is before m stays before it.               *)
LEMMA FirstStay ==
  ASSUME NEW s \in Seq(Entities), IsInjective(s), NEW t \in Seq(Entities), IsInjective(t),
         ToSet(t) = ToSet(s), Len(t) = Len(s), NEW m \in Nat,
         \A i \in 1 .. Len(s) : i > m => t[i] = s[i]
  PROVE  Undisturbed(s, t, m)
<1>1. PICK l \in Nat : l = Len(s) /\ l = Len(t)
  BY SeqFacts
<1>2. \A i \in 1 .. l : m < i <=> i > m
  OBVIOUS
<1>3. \A n, x : Late(t, m, n, x) <=> Late(s, m, n, x)
  BY <1>1, <1>2 DEF Late
<1>4. ASSUME NEW x, Early(s, m, x) PROVE Early(t, m, x)
  <2>1. PICK i \in 1 .. l : i <= m /\ s[i] = x
    BY <1>1, <1>4 DEF Early
  <2>2. ToSet(s) = {s[j] : j \in 1 .. l} /\ ToSet(t) = {t[j] : j \in 1 .. l}
        /\ \A j, k \in 1 .. l : s[j] = s[k] => j = k
    BY <1>1, ElementsIs
  <2>3. PICK j \in 1 .. l : t[j] = x
    <3>1. x \in ToSet(s)
      BY <2>1, <2>2
    <3>2. x \in {t[j] : j \in 1 .. l}
      BY <3>1, <2>2
    <3> QED BY <3>2
  <2>4. CASE j > m
    <3>1. s[j] = x
      BY <2>3, <2>4, <1>1
    <3>2. j = i
      BY <3>1, <2>1, <2>2
    <3> QED BY <3>2, <2>1, <2>4
  <2>5. CASE ~ (j > m)
    <3>1. j <= m
      BY <2>5
    <3> QED BY <3>1, <2>3, <1>1 DEF Early
  <2> QED BY <2>4, <2>5
<1> QED BY <1>3, <1>4 DEF Undisturbed

(* A listener is told of an entity that the insertion has passed.          *)
LEMMA ReactedCalm ==
  ASSUME NEW r, Placed(r), NEW u, NEW e, Reacted(r, u, e), NEW f \in Frames,
         f.type \in ToSet(Owned) => r.len <= f.next, Early(r.pools[f.type], f.next, e)
  PROVE  Calm(r, u, f)
<1>1. f.type \in Types /\ f.next \in Nat
  BY FrameParts
<1>2. PICK s \in Seq(Entities) : s = r.pools[f.type] /\ IsInjective(s)
  BY <1>1, RegParts DEF Placed
<1>3. PICK t \in Seq(Entities) : t = u.pools[f.type] /\ IsInjective(t)
  BY <1>1, RegParts DEF Placed, Reacted
<1>4. ToSet(t) = ToSet(s) /\ Len(t) = Len(s)
  BY <1>1, <1>2, <1>3 DEF Reacted, Same
<1>5. \E n \in 1 .. Len(r.pools[f.type]) : n <= f.next /\ r.pools[f.type][n] = e
  BY DEF Early
<1>6. /\ f.type \in ToSet(Owned) => u.len <= f.next
      /\ \A n \in 1 .. Len(r.pools[f.type]) : n > f.next => u.pools[f.type][n] = r.pools[f.type][n]
  BY <1>1, <1>5 DEF Reacted, Kept
<1>7. \A n \in 1 .. Len(s) : n > f.next => t[n] = s[n]
  BY <1>2, <1>3, <1>6
<1>8. /\ \A n, x : Late(t, f.next, n, x) <=> Late(s, f.next, n, x)
      /\ \A x : Early(s, f.next, x) => Early(t, f.next, x)
  <2>1. Undisturbed(s, t, f.next)
    BY <1>1, <1>2, <1>3, <1>4, <1>7, FirstStay
  <2> QED BY <2>1 DEF Undisturbed
<1>9. InOrder(s, f) => InOrder(t, f)
  BY <1>1, <1>4, <1>7 DEF InOrder
<1> QED BY <1>2, <1>3, <1>6, <1>8, <1>9 DEF Calm

(* What waits still waits, and an insertion goes on.                       *)
LEMMA SteadyFacts ==
  ASSUME NEW r, NEW u, NEW st, Steady(r, u, st)
  PROVE  /\ \A g, x : \A k \in 1 .. Len(st) : FrameWaits(u, st[k], g, x) <=> FrameWaits(r, st[k], g, x)
         /\ \A g, x, types : Waits(u, st, g, x, types) <=> Waits(r, st, g, x, types)
         /\ Len(st) \in Nat /\ Inserting(r, st) => Inserting(u, st)
<1>1. \A g, x : \A k \in 1 .. Len(st) : FrameWaits(u, st[k], g, x) <=> FrameWaits(r, st[k], g, x)
  BY DEF Steady, Calm, FrameWaits
<1>2. \A g, x, types : Waits(u, st, g, x, types) <=> Waits(r, st, g, x, types)
  BY <1>1 DEF Waits
<1>3. ASSUME Len(st) \in Nat, Inserting(r, st) PROVE Inserting(u, st)
  <2> SUFFICES ASSUME Len(st) > 0, st[1].kind = "insert"
               PROVE  /\ InOrder(u.pools[st[1].type], st[1])
                      /\ st[1].type \in ToSet(Owned) => u.len <= st[1].next
                      /\ \A k \in 2 .. Len(st) : /\ st[k].entt = st[2].entt
                                                 /\ Early(u.pools[st[1].type], st[1].next, st[k].entt)
    BY DEF Inserting
  <2>1. 1 \in 1 .. Len(st)
    BY <1>3
  <2>2. Calm(r, u, st[1])
    BY <2>1 DEF Steady
  <2> QED BY <2>2, <1>3 DEF Calm, Inserting
<1> QED BY <1>1, <1>2, <1>3

-------------------------------------------------------------------------------
(* The steps of the calls.                                                 *)

(* A call that has nobody left to tell returns.                            *)
LEMMA ReturnGood ==
  ASSUME NEW r, NEW st, Good(r, st), st # << >>, NEW w, w = Front(st),
         \A g, x : ~ FrameWaits(r, Last(st), g, x)
  PROVE  Good(r, w)
<1>1. st \in Seq(Frames) /\ \A k \in 1 .. Len(st) : GoodFrame(r, st[k], k)
  BY DEF Good, Stacked
<1>2. w \in Seq(Frames) /\ Popped(st, w) /\ Last(st) = st[Len(st)]
  BY <1>1, PopFacts
<1>3. PICK n \in Nat : n = Len(st)
  BY <1>1, SeqFacts
<1>4. Len(w) = n - 1 /\ \A k \in 1 .. n - 1 : w[k] = st[k]
  BY <1>2, <1>3 DEF Popped
<1>5. Stacked(r, w)
  BY <1>1, <1>2, <1>3, <1>4 DEF Stacked
<1>6. ASSUME NEW g, NEW x, NEW types, Waits(r, st, g, x, types) PROVE Waits(r, w, g, x, types)
  <2>1. PICK k \in 1 .. n : st[k].type \in types /\ FrameWaits(r, st[k], g, x)
    BY <1>3, <1>6 DEF Waits
  <2>2. k # n
    BY <2>1, <1>2, <1>3
  <2>3. k \in 1 .. n - 1
    BY <2>2
  <2> QED BY <2>1, <2>3, <1>4 DEF Waits
<1>7. Exact(r, st) => Exact(r, w)
  BY <1>6 DEF Exact, FitsBut, Fits
<1>8. ASSUME Inserting(r, st), Len(w) > 0, w[1].kind = "insert" PROVE Inserting(r, w)
  <2>1. n > 1 /\ n > 0 /\ 1 \in 1 .. n - 1
    BY <1>4, <1>8
  <2>2. w[1] = st[1]
    BY <2>1, <1>4
  <2>3. \A k \in 2 .. n - 1 : k \in 2 .. n /\ w[k] = st[k] /\ w[2] = st[2]
    BY <1>4
  <2> QED BY <2>1, <2>2, <2>3, <1>3, <1>4, <1>8 DEF Inserting
<1>9. Inserting(r, st) => Inserting(r, w)
  BY <1>8 DEF Inserting
<1> QED BY <1>5, <1>7, <1>9 DEF Good

(* The call in which the last listener returned ends.                      *)
LEMMA ReturnStep ==
  ASSUME Inv, stack # << >>, stack' = Returned, UNCHANGED <<reg, listeners>>,
         \A g, x : ~ FrameWaits(reg, Top, g, x)
  PROVE  Inv'
<1>1. PICK r, st, w : r = reg /\ st = stack /\ w = stack'
  OBVIOUS
<1>2. Good(r, st) /\ st # << >> /\ w = Front(st) /\ \A g, x : ~ FrameWaits(r, Last(st), g, x)
  BY <1>1 DEF Inv, Returned, Top
<1>3. Good(r, w)
  BY <1>2, ReturnGood
<1> QED BY <1>1, <1>3, Keeps DEF Inv

(* The loop of an insertion is through.                                    *)
LEMMA InsertEndsKeeps ==
  ASSUME Inv, InsertEnds
  PROVE  Inv'
<1>1. Top.kind = "insert" /\ Top.next = Top.to
  BY DEF InsertEnds
<1>2. Top \in Frames
  BY PopFacts DEF InsertEnds, Inv, Good, Stacked, Top
<1>3. Top.next \in Nat
  BY <1>2, FrameParts
<1>4. \A i : ~ (Top.next < i /\ i <= Top.to /\ i \in Nat)
  BY <1>1, <1>3
<1>5. \A g, x : ~ FrameWaits(reg, Top, g, x)
  BY <1>1, <1>4 DEF FrameWaits, Late
<1> QED BY <1>5, ReturnStep DEF InsertEnds

(* All listeners of a construction were called.                            *)
LEMMA PublishEndsKeeps ==
  ASSUME Inv, PublishEnds
  PROVE  Inv'
<1>1. Top.kind = "publish" /\ Top.next = 0
  BY DEF PublishEnds
<1>2. \A g, x : ~ FrameWaits(reg, Top, g, x)
  BY <1>1 DEF FrameWaits
<1> QED BY <1>2, ReturnStep DEF PublishEnds

(* A listener of the program returns.                                      *)
LEMMA UserReturnsKeeps ==
  ASSUME Inv, UserReturns
  PROVE  Inv'
<1>1. Top.kind = "user"
  BY DEF UserReturns
<1>2. \A g, x : ~ FrameWaits(reg, Top, g, x)
  BY <1>1 DEF FrameWaits
<1> QED BY <1>2, ReturnStep DEF UserReturns

(* w is st with f on top instead of the last, and maybe one call more.     *)
Continued(st, f, w) ==
  /\ w \in Seq(Frames) /\ w[Len(st)] = f /\ Len(st) <= Len(w) /\ Len(w) <= Len(st) + 1
  /\ \A k \in 1 .. Len(st) - 1 : w[k] = st[k]

(* What the listener of a group does, next in a publish of e in pool t.    *)
LEMMA ToldFits ==
  ASSUME NEW r, NEW u, NEW g \in Groupings, NEW t \in Concerns(g), NEW e, Has(r, t, e), Same(r, u),
         Becomes(r, u, g, e, Told(r, g, "construct", t, e)),
         NEW st, FitsBut(r, st, g, e), NEW w,
         t \notin Bars(g) => (Waits(r, st, g, e, Bars(g)) => Waits(u, w, g, e, Bars(g)))
  PROVE  FitsBut(u, w, g, e)
<1>1. Bars(g) \subseteq Types /\ Need(g) \subseteq Types /\ Need(g) \cap Bars(g) = {}
  BY TypeFacts
<1>2. /\ \A p \in Types : Has(u, p, e) <=> Has(r, p, e)
      /\ HasAll(u, Need(g), e) <=> HasAll(r, Need(g), e)
  BY <1>1, SameHas
<1>3. In(u, g, e) <=> Told(r, g, "construct", t, e)
  BY DEF Becomes
<1>4. Excluded(r, Bars(g), e) = 0 <=> \A p \in Bars(g) : ~ Has(r, p, e)
  BY <1>1, ExcludedFacts
<1>5. \A p \in Bars(g) : Has(u, p, e) <=> Has(r, p, e)
  BY <1>1, <1>2
<1>6. CASE t \in Need(g)
  <2>1. t \notin Bars(g)
    BY <1>1, <1>6
  <2>2. In(u, g, e) <=> In(r, g, e) \/ (HasAll(r, Need(g), e) /\ Excluded(r, Bars(g), e) = 0)
    BY <1>3, <1>6 DEF Told
  <2> QED BY <2>1, <2>2, <1>2, <1>4, <1>5 DEF FitsBut, Fits
<1>7. CASE t \notin Need(g)
  <2>1. t \in Bars(g)
    BY <1>7 DEF Concerns
  <2>2. ~ In(u, g, e)
    BY <1>3, <1>7 DEF Told
  <2>3. Has(u, t, e)
    BY <2>1, <1>5
  <2> QED BY <2>1, <2>2, <2>3 DEF FitsBut, Fits
<1> QED BY <1>6, <1>7

(* The next listener is called: its group no longer waits, the others      *)
(* still do.                                                               *)
LEMMA PublishStepKeeps ==
  ASSUME Inv, PublishStep
  PROVE  Inv'
<1>1. PICK r, st, u, w : r = reg /\ st = stack /\ u = reg' /\ w = stack'
  OBVIOUS
<1>2. Listening /\ Good(r, st) /\ UNCHANGED listeners /\ st # << >>
  BY <1>1 DEF Inv, PublishStep
<1>3. Placed(r) /\ Absent(r) /\ st \in Seq(Frames) /\ \A k \in 1 .. Len(st) : GoodFrame(r, st[k], k)
  BY <1>2 DEF Good, Stacked
<1>4. PICK n, f : n = Len(st) /\ f = st[n]
  OBVIOUS
<1>5. n \in Nat /\ n > 0 /\ n \in 1 .. n /\ f \in Frames /\ f = Last(st)
  BY <1>2, <1>3, <1>4, PopFacts, SeqFacts
<1>6. f = Top /\ f.kind = "publish" /\ f.next > 0
  BY <1>1, <1>5 DEF PublishStep, Top
<1>7. PICK t, e, m : t = f.type /\ e = f.entt /\ m = f.next
  OBVIOUS
<1>8. t \in Types /\ e \in Entities /\ m \in Nat /\ m > 0
  BY <1>5, <1>6, <1>7, FrameParts
<1>9. PICK ls : ls = listeners["construct"][t]
  OBVIOUS
<1>10. /\ ls \in Seq(Kinds) /\ Len(ls) \in Nat
       /\ \A i, j \in 1 .. Len(ls) : ls[i] = ls[j] => i = j
       /\ \A g \in Groupings : g \in Hearing(t) <=> \E i \in 1 .. Len(ls) : ls[i] = g
  BY <1>2, <1>8, <1>9, ListenersAre DEF Signals
<1>11. m <= Len(ls) /\ Has(r, t, e)
  BY <1>3, <1>4, <1>5, <1>6, <1>7, <1>9 DEF GoodFrame
<1>12. m \in 1 .. Len(ls)
  BY <1>8, <1>10, <1>11
<1>13. PICK who : who = ls[m]
  OBVIOUS
<1>14. who \in Kinds
  BY <1>10, <1>12, <1>13, SeqFacts
<1>15. PICK h : h = [f EXCEPT !.next = @ - 1]
  OBVIOUS
<1>16. h \in Frames /\ h.kind = "publish" /\ h.type = t /\ h.entt = e /\ h.next = m - 1
  BY <1>5, <1>6, <1>7, <1>8, <1>15 DEF Frames
<1>17. PICK z : z = [f EXCEPT !.kind = "user"]
  OBVIOUS
<1>18. z \in Frames /\ z.kind = "user" /\ z.type = t /\ z.entt = e
  BY <1>5, <1>7, <1>17 DEF Frames
<1>19. PICK rest : rest = Front(st) \o << h >>
  OBVIOUS
<1>20. u = React(r, who, "construct", t, e) /\ w = IF who = "user" THEN Append(rest, z) ELSE rest
  BY <1>1, <1>6, <1>7, <1>9, <1>13, <1>15, <1>17, <1>19 DEF PublishStep, Returned
<1>21. rest \in Seq(Frames) /\ Topped(st, h, rest)
  BY <1>2, <1>3, <1>16, <1>19, ReplaceFacts
<1>22. Len(rest) = n /\ rest[n] = h /\ \A k \in 1 .. n - 1 : rest[k] = st[k]
  BY <1>4, <1>21 DEF Topped
<1>23. /\ w \in Seq(Frames) /\ w[n] = h /\ \A k \in 1 .. n - 1 : w[k] = st[k]
       /\ Len(w) = n \/ (Len(w) = n + 1 /\ w[n + 1] = z /\ who = "user")
  <2>1. CASE who = "user"
    <3>1. w \in Seq(Frames) /\ Pushed(rest, z, w)
      BY <2>1, <1>18, <1>20, <1>21, PushFacts
    <3> QED BY <3>1, <2>1, <1>5, <1>22 DEF Pushed
  <2>2. CASE who # "user"
    BY <2>2, <1>20, <1>21, <1>22
  <2> QED BY <2>1, <2>2
<1>24. Len(w) \in Nat /\ \A k \in 1 .. Len(w) : k \in 1 .. n - 1 \/ k = n \/ (k = n + 1 /\ w[k] = z)
  BY <1>5, <1>23, SeqFacts
<1>25. who \in Groupings => /\ Created(who) /\ t \in Concerns(who)
                            /\ Reacted(r, u, e)
                            /\ Becomes(r, u, who, e, Told(r, who, "construct", t, e))
  <2> SUFFICES ASSUME who \in Groupings
               PROVE  /\ Created(who) /\ t \in Concerns(who)
                      /\ Reacted(r, u, e)
                      /\ Becomes(r, u, who, e, Told(r, who, "construct", t, e))
    OBVIOUS
  <2>1. who \in Hearing(t)
    BY <1>10, <1>12, <1>13
  <2>2. Created(who) /\ t \in Concerns(who)
    BY <2>1 DEF Hearing
  <2>3. "construct" \in Signals
    BY DEF Signals
  <2> QED BY <2>2, <2>3, <1>3, <1>8, <1>20, ReactFacts
<1>26. who \notin Groupings => who = "user" /\ u = r
  BY <1>14, <1>20 DEF Kinds, Groupings, React
<1>27. Reacted(r, u, e)
  BY <1>3, <1>25, <1>26, SameRefl
<1>28. /\ Placed(u) /\ Same(r, u)
       /\ \A p \in Types : Len(u.pools[p]) = Len(r.pools[p]) /\ \A x : Has(u, p, x) <=> Has(r, p, x)
  BY <1>27, SameHas DEF Reacted, Same
<1>29. Absent(u)
  <2> SUFFICES ASSUME NEW g \in Groupings, ~ Created(g), NEW x PROVE ~ In(u, g, x)
    BY DEF Absent
  <2>1. ~ In(r, g, x)
    BY <1>3 DEF Absent
  <2> QED BY <2>1, <1>25, <1>26 DEF Becomes
<1>30. Stacked(u, w)
  <2>1. ASSUME NEW k \in 1 .. n - 1 PROVE GoodFrame(u, w[k], k)
    <3>1. k \in 1 .. Len(st) /\ w[k] = st[k]
      BY <1>4, <1>5, <1>23
    <3>2. st[k] \in Frames /\ GoodFrame(r, st[k], k)
      BY <3>1, <1>3, SeqFacts
    <3>3. st[k].type \in Types
      BY <3>2, FrameParts
    <3> QED BY <3>1, <3>2, <3>3, <1>28 DEF GoodFrame
  <2>2. Has(u, t, e)
    BY <1>8, <1>11, <1>28
  <2>3. GoodFrame(u, h, n)
    BY <2>2, <1>8, <1>9, <1>10, <1>11, <1>16 DEF GoodFrame
  <2>4. GoodFrame(u, z, n + 1)
    BY <2>2, <1>18 DEF GoodFrame
  <2> QED BY <2>1, <2>3, <2>4, <1>23, <1>24 DEF Stacked
<1>31. ASSUME ~ Foreign PROVE Exact(u, w) /\ Inserting(u, w)
  <2>1. Exact(r, st) /\ Inserting(r, st)
    BY <1>2, <1>31 DEF Good
  <2>2. Inserting(r, w)
    <3> SUFFICES ASSUME Len(w) > 0, w[1].kind = "insert" PROVE Inserting(r, w)
      BY DEF Inserting
    <3>1. 1 # n
      BY <1>16, <1>23
    <3>2. n > 1 /\ 1 \in 1 .. n - 1 /\ 2 \in 2 .. n /\ n \in 2 .. n
      BY <3>1, <1>5
    <3>3. w[1] = st[1]
      BY <3>2, <1>23
    <3>4. \A k \in 2 .. n : w[k].entt = st[k].entt
      BY <1>4, <1>7, <1>16, <1>23
    <3>5. \A k \in 2 .. Len(w) : k \in 2 .. n \/ w[k].entt = st[n].entt
      BY <1>4, <1>5, <1>7, <1>18, <1>24
    <3>6. /\ \A k \in 2 .. n : /\ st[k].entt = st[2].entt
                               /\ Early(r.pools[st[1].type], st[1].next, st[k].entt)
          /\ InOrder(r.pools[st[1].type], st[1])
          /\ st[1].type \in ToSet(Owned) => r.len <= st[1].next
      BY <2>1, <3>3, <1>4, <1>5 DEF Inserting
    <3>7. \A k \in 2 .. Len(w) : /\ w[k].entt = w[2].entt
                                 /\ Early(r.pools[w[1].type], w[1].next, w[k].entt)
      BY <3>2, <3>3, <3>4, <3>5, <3>6
    <3> QED BY <3>3, <3>6, <3>7 DEF Inserting
  <2>3. Steady(r, u, w)
    <3> SUFFICES ASSUME NEW k \in 1 .. Len(w), w[k].kind = "insert" PROVE Calm(r, u, w[k])
      BY DEF Steady
    <3>1. k \in 1 .. n - 1
      BY <1>16, <1>18, <1>23, <1>24
    <3>2. k = 1 /\ n \in 2 .. n
      <4>1. k \in 1 .. Len(st) /\ GoodFrame(r, st[k], k) /\ st[k].kind = "insert"
        BY <3>1, <1>3, <1>4, <1>5, <1>23
      <4> QED BY <4>1, <3>1, <1>5 DEF GoodFrame
    <3>3. n \in 2 .. Len(w) /\ w[n].entt = e /\ Len(w) > 0
      BY <3>2, <1>5, <1>16, <1>23
    <3>4. /\ w[1].type \in ToSet(Owned) => r.len <= w[1].next
          /\ Early(r.pools[w[1].type], w[1].next, e)
      BY <2>2, <3>2, <3>3 DEF Inserting
    <3>5. w[1] \in Frames
      BY <3>2, <1>23, SeqFacts
    <3> QED BY <3>2, <3>4, <3>5, <1>3, <1>27, ReactedCalm
  <2>4. /\ Inserting(u, w)
        /\ \A g, x, types : Waits(u, w, g, x, types) <=> Waits(r, w, g, x, types)
    BY <2>2, <2>3, <1>24, SteadyFacts
  <2>5. ASSUME NEW g, NEW x, NEW types, Waits(r, st, g, x, types), x # e \/ g # who \/ t \notin types
        PROVE  Waits(u, w, g, x, types)
    <3>1. PICK k \in 1 .. n : st[k].type \in types /\ FrameWaits(r, st[k], g, x)
      BY <2>5, <1>4 DEF Waits
    <3>2. CASE k = n
      <4>1. t \in types /\ FrameWaits(r, f, g, x)
        BY <3>1, <3>2, <1>4, <1>7
      <4>2. x = e /\ \E i \in 1 .. m : ls[i] = g
        BY <4>1, <1>6, <1>7, <1>9 DEF FrameWaits
      <4>3. PICK i \in 1 .. m : ls[i] = g
        BY <4>2
      <4>4. i # m
        BY <4>1, <4>2, <4>3, <2>5, <1>13
      <4>5. i \in 1 .. m - 1
        BY <4>3, <4>4, <1>8
      <4>6. FrameWaits(r, h, g, x)
        BY <4>2, <4>3, <4>5, <1>9, <1>16 DEF FrameWaits
      <4>7. n \in 1 .. Len(w) /\ w[n] = h /\ h.type \in types
        BY <4>1, <1>5, <1>16, <1>23
      <4> QED BY <4>6, <4>7, <2>4 DEF Waits
    <3>3. CASE k # n
      <4>1. k \in 1 .. n - 1 /\ k \in 1 .. Len(w)
        BY <3>1, <3>3, <1>5, <1>23
      <4> QED BY <4>1, <3>1, <1>23, <2>4 DEF Waits
    <3> QED BY <3>2, <3>3
  <2>6. ASSUME NEW g \in Groupings, Created(g), NEW x \in Entities PROVE FitsBut(u, w, g, x)
    <3>1. FitsBut(r, st, g, x)
      BY <2>1, <2>6 DEF Exact
    <3>2. CASE x = e /\ g = who
      <4>1. t \notin Bars(g) => (Waits(r, st, g, x, Bars(g)) => Waits(u, w, g, x, Bars(g)))
        BY <2>5
      <4>2. /\ g \in Groupings /\ t \in Concerns(g) /\ Becomes(r, u, g, e, Told(r, g, "construct", t, e))
            /\ FitsBut(r, st, g, e)
            /\ t \notin Bars(g) => (Waits(r, st, g, e, Bars(g)) => Waits(u, w, g, e, Bars(g)))
        BY <3>1, <3>2, <4>1, <1>25
      <4>3. FitsBut(u, w, g, e)
        BY <4>2, <1>11, <1>28, ToldFits
      <4> QED BY <4>3, <3>2
    <3>3. CASE x # e \/ g # who
      <4>1. In(u, g, x) <=> In(r, g, x)
        BY <3>3, <1>25, <1>26 DEF Becomes
      <4>2. \A types : Waits(r, st, g, x, types) => Waits(u, w, g, x, types)
        BY <3>3, <2>5
      <4>3. Need(g) \subseteq Types /\ Bars(g) \subseteq Types
        BY TypeFacts
      <4>4. (HasAll(u, Need(g), x) <=> HasAll(r, Need(g), x))
            /\ \A p \in Bars(g) : Has(u, p, x) <=> Has(r, p, x)
        BY <4>3, <1>28 DEF HasAll
      <4> QED BY <3>1, <4>1, <4>2, <4>4 DEF FitsBut, Fits
    <3> QED BY <3>2, <3>3
  <2> QED BY <2>4, <2>6 DEF Exact
<1>32. Good(u, w)
  BY <1>28, <1>29, <1>30, <1>31 DEF Good
<1> QED BY <1>1, <1>2, <1>32, Keeps

(* The next element of the range is told of.                               *)
LEMMA InsertStepKeeps ==
  ASSUME Inv, InsertStep
  PROVE  Inv'
<1>1. PICK r, st, w : r = reg /\ r = reg' /\ st = stack /\ w = stack'
  BY DEF InsertStep
<1>2. Listening /\ Good(r, st) /\ UNCHANGED listeners /\ st # << >>
  BY <1>1 DEF Inv, InsertStep
<1>3. Placed(r) /\ Absent(r) /\ st \in Seq(Frames) /\ \A k \in 1 .. Len(st) : GoodFrame(r, st[k], k)
  BY <1>2 DEF Good, Stacked
<1>4. PICK n, f : n = Len(st) /\ f = st[n]
  OBVIOUS
<1>5. n \in Nat /\ n > 0 /\ n \in 1 .. n /\ f \in Frames /\ f = Last(st)
  BY <1>2, <1>3, <1>4, PopFacts, SeqFacts
<1>6. f = Top /\ f.kind = "insert" /\ f.next # f.to
  BY <1>1, <1>5 DEF InsertStep, Top
<1>7. PICK t, m, l : t = f.type /\ m = f.next /\ l = f.to
  OBVIOUS
<1>8. t \in Types /\ m \in Nat /\ l \in Nat /\ f.entt \in Entities
       /\ f.es \in Seq(Entities) /\ f.told \in Seq(Entities)
  BY <1>5, <1>7, FrameParts
<1>9. PICK q \in Seq(Entities) : q = r.pools[t] /\ IsInjective(q)
  BY <1>3, <1>8, RegParts DEF Placed
<1>10. n = 1 /\ m < l /\ l <= Len(q)
  <2>1. n = 1 /\ m <= l /\ l <= Len(q)
    BY <1>3, <1>4, <1>5, <1>6, <1>7, <1>9 DEF GoodFrame
  <2> QED BY <2>1, <1>6, <1>7, <1>8
<1>11. PICK e : e = q[m + 1]
  OBVIOUS
<1>12. /\ m + 1 \in 1 .. Len(q) /\ e \in Entities /\ e \in ToSet(q) /\ Len(q) \in Nat
       /\ \A i, j \in 1 .. Len(q) : q[i] = q[j] => i = j
  <2>1. Len(q) \in Nat
    BY SeqFacts
  <2>2. m + 1 \in 1 .. Len(q)
    BY <2>1, <1>8, <1>10
  <2> QED BY <2>1, <2>2, <1>9, <1>11, SeqFacts, ElementsIs
<1>13. Has(r, t, e)
  BY <1>9, <1>12 DEF Has
<1>14. PICK ls, c : ls = listeners["construct"][t] /\ c = Len(ls)
  OBVIOUS
<1>15. c \in Nat /\ \A g \in Groupings : g \in Hearing(t) <=> \E i \in 1 .. c : ls[i] = g
  BY <1>2, <1>8, <1>14, ConstructionTells DEF Telling
<1>16. PICK h : h = [f EXCEPT !.next = @ + 1, !.told = Append(@, e)]
  OBVIOUS
<1>17. PICK told : told = Append(f.told, e) /\ told \in Seq(Entities)
  BY <1>8, <1>12, PushFacts
<1>18. /\ h \in Frames /\ h.kind = "insert" /\ h.type = t /\ h.next = m + 1 /\ h.to = l
       /\ h.es = f.es /\ h.told = told
  <2>1. h = [f EXCEPT !.next = m + 1, !.told = told]
    BY <1>7, <1>16, <1>17
  <2>2. m + 1 \in Nat
    BY <1>8
  <2> QED BY <2>1, <2>2, <1>5, <1>6, <1>7, <1>17 DEF Frames
<1>19. PICK z : z = Publishing(t, e)
  OBVIOUS
<1>20. z \in Frames /\ z.kind = "publish" /\ z.type = t /\ z.entt = e /\ z.next = c
  BY <1>8, <1>12, <1>14, <1>15, <1>19 DEF Publishing, Frames
<1>21. PICK rest : rest = Front(st)
  OBVIOUS
<1>22. rest \in Seq(Frames) /\ Len(rest) = 0
  <2>1. rest \in Seq(Frames) /\ Popped(st, rest)
    BY <1>2, <1>3, <1>21, PopFacts
  <2>2. Len(rest) = n - 1
    BY <2>1, <1>4 DEF Popped
  <2> QED BY <2>1, <2>2, <1>10
<1>23. w = rest \o << h, z >>
  BY <1>1, <1>6, <1>7, <1>9, <1>11, <1>16, <1>19, <1>21 DEF InsertStep, Returned
<1>24. w \in Seq(Frames) /\ Len(w) = 2 /\ w[1] = h /\ w[2] = z
  BY <1>18, <1>20, <1>22, <1>23, TwoMoreFacts
<1>25. \A k \in 1 .. Len(w) : k = 1 \/ k = 2
  BY <1>24
<1>26. Stacked(r, w)
  <2>1. GoodFrame(r, h, 1)
    BY <1>8, <1>9, <1>10, <1>18 DEF GoodFrame
  <2>2. GoodFrame(r, z, 2)
    BY <1>13, <1>14, <1>15, <1>20 DEF GoodFrame
  <2> QED BY <2>1, <2>2, <1>24, <1>25 DEF Stacked
<1>27. ASSUME ~ Foreign PROVE Exact(r, w) /\ Inserting(r, w)
  <2>1. Exact(r, st) /\ Inserting(r, st)
    BY <1>2, <1>27 DEF Good
  <2>2. /\ InOrder(q, f)
        /\ t \in ToSet(Owned) => r.len <= m
    BY <2>1, <1>4, <1>5, <1>6, <1>7, <1>9, <1>10 DEF Inserting
  <2>3. Early(q, m + 1, e)
    BY <1>8, <1>11, <1>12 DEF Early
  <2>4. InOrder(q, h)
    <3>1. PICK c1 \in Nat, c2 \in Nat : c1 = Len(f.told) /\ c2 = Len(f.es)
      BY <1>8, SeqFacts
    <3>2. /\ m + c2 = l + c1 /\ \A i \in 1 .. c1 : f.told[i] = f.es[i]
          /\ \A i \in 1 .. Len(q) : m < i /\ i <= l => q[i] = f.es[i + c2 - l]
      BY <2>2, <3>1, <1>7 DEF InOrder
    <3>3. Len(told) = c1 + 1 /\ told[c1 + 1] = e /\ \A i \in 1 .. c1 : told[i] = f.told[i]
      BY <3>1, <1>8, <1>12, <1>17, PushFacts DEF Pushed
    <3>4. e = f.es[c1 + 1]
      <4>1. m \in Nat /\ l \in Nat /\ m < l /\ m + c2 = l + c1
        BY <3>2, <1>8, <1>10
      <4>2. m < m + 1 /\ m + 1 <= l /\ m + 1 + c2 - l = c1 + 1
        BY ONLY <4>1, c1 \in Nat, c2 \in Nat
      <4>3. q[m + 1] = f.es[m + 1 + c2 - l]
        BY <3>2, <4>2, <1>12
      <4> QED BY <4>2, <4>3, <1>11
    <3>5. \A i \in 1 .. c1 + 1 : told[i] = f.es[i]
      <4>1. \A i \in 1 .. c1 + 1 : i \in 1 .. c1 \/ i = c1 + 1
        BY <3>1
      <4> QED BY <4>1, <3>2, <3>3, <3>4
    <3>6. m + 1 + c2 = l + (c1 + 1) /\ \A i \in Nat : m + 1 < i => m < i
      <4>1. m \in Nat /\ l \in Nat /\ m + c2 = l + c1
        BY <3>2, <1>8
      <4> QED BY ONLY <4>1, c1 \in Nat, c2 \in Nat
    <3>7. \A i \in 1 .. Len(q) : m + 1 < i /\ i <= l => q[i] = f.es[i + c2 - l]
      BY <3>2, <3>6
    <3> QED BY <3>1, <3>3, <3>5, <3>6, <3>7, <1>18 DEF InOrder
  <2>5. r \in Regs /\ r.len \in Nat
    BY <1>3, RegParts DEF Placed
  <2>6. Inserting(r, w)
    <3>1. \A k \in 2 .. Len(w) : k = 2
      BY <1>24
    <3>2. t \in ToSet(Owned) => r.len <= m + 1
      BY <2>2, <2>5, <1>8
    <3> QED BY <2>3, <2>4, <3>1, <3>2, <1>9, <1>18, <1>20, <1>24 DEF Inserting
  <2>7. ASSUME NEW g \in Groupings, Created(g), NEW types, types \subseteq Concerns(g), NEW x,
               Waits(r, st, g, x, types)
        PROVE  Waits(r, w, g, x, types)
    <3>1. t \in types /\ FrameWaits(r, f, g, x)
      BY <2>7, <1>4, <1>7, <1>10 DEF Waits
    <3>2. PICK i \in 1 .. Len(q) : m < i /\ i <= l /\ q[i] = x
      BY <3>1, <1>6, <1>7, <1>9 DEF FrameWaits, Late
    <3>3. CASE i = m + 1
      <4>1. x = e
        BY <3>2, <3>3, <1>11
      <4>2. g \in Hearing(t)
        BY <2>7, <3>1 DEF Hearing
      <4>3. FrameWaits(r, z, g, x)
        BY <4>1, <4>2, <1>14, <1>15, <1>20 DEF FrameWaits
      <4>4. 2 \in 1 .. Len(w)
        BY <1>24
      <4> QED BY <4>3, <4>4, <3>1, <1>20, <1>24 DEF Waits
    <3>4. CASE i # m + 1
      <4>1. m + 1 < i
        BY <3>2, <3>4, <1>8, <1>12
      <4>2. Late(q, m + 1, l, x)
        BY <4>1, <3>2 DEF Late
      <4>3. FrameWaits(r, h, g, x)
        BY <4>2, <1>9, <1>18 DEF FrameWaits
      <4>4. 1 \in 1 .. Len(w)
        BY <1>24
      <4> QED BY <4>3, <4>4, <3>1, <1>18, <1>24 DEF Waits
    <3> QED BY <3>3, <3>4
  <2>8. ASSUME NEW g \in Groupings, Created(g), NEW x \in Entities PROVE FitsBut(r, w, g, x)
    <3>1. FitsBut(r, st, g, x)
      BY <2>1, <2>8 DEF Exact
    <3>2. Need(g) \subseteq Concerns(g) /\ Bars(g) \subseteq Concerns(g)
      BY DEF Concerns
    <3>3. (Waits(r, st, g, x, Bars(g)) => Waits(r, w, g, x, Bars(g)))
          /\ (Waits(r, st, g, x, Need(g)) => Waits(r, w, g, x, Need(g)))
      BY <2>7, <2>8, <3>2
    <3> QED BY <3>1, <3>3 DEF FitsBut, Fits
  <2> QED BY <2>6, <2>8 DEF Exact
<1>28. Good(r, w)
  BY <1>3, <1>26, <1>27 DEF Good
<1> QED BY <1>1, <1>2, <1>28, Keeps

-------------------------------------------------------------------------------
(* The calls of the program.                                               *)

(* What waited in st still waits in w; what listens to t waits in w.       *)
StillWaits(r, st, u, w, g, x) ==
  \A types : Waits(r, st, g, x, types) => Waits(u, w, g, x, types)

WaitsFor(u, w, g, x, t) ==
  t \in Concerns(g) => \A types : t \in types => Waits(u, w, g, x, types)

(* An entity gets an element in pool t.                                    *)
LEMMA AddedFits ==
  ASSUME NEW r, NEW u, NEW g \in Groupings, NEW t \in Types, NEW x, In(u, g, x) <=> In(r, g, x),
         \A p \in Types : Has(u, p, x) <=> Has(r, p, x) \/ p = t,
         NEW st, FitsBut(r, st, g, x), NEW w,
         StillWaits(r, st, u, w, g, x), WaitsFor(u, w, g, x, t)
  PROVE  FitsBut(u, w, g, x)
<1>1. Need(g) \subseteq Types /\ Bars(g) \subseteq Types
  BY TypeFacts
<1>2. HasAll(r, Need(g), x) => HasAll(u, Need(g), x)
  BY <1>1 DEF HasAll
<1>3. t \notin Need(g) => (HasAll(u, Need(g), x) => HasAll(r, Need(g), x))
  BY <1>1 DEF HasAll
<1>4. \A p \in Bars(g) : Has(u, p, x) <=> Has(r, p, x) \/ p = t
  BY <1>1
<1>5. /\ Waits(r, st, g, x, Bars(g)) => Waits(u, w, g, x, Bars(g))
      /\ Waits(r, st, g, x, Need(g)) => Waits(u, w, g, x, Need(g))
  BY DEF StillWaits
<1>6. (t \in Bars(g) => Waits(u, w, g, x, Bars(g))) /\ (t \in Need(g) => Waits(u, w, g, x, Need(g)))
  BY DEF WaitsFor, Concerns
<1> QED BY <1>2, <1>3, <1>4, <1>5, <1>6 DEF FitsBut, Fits

(* An entity that nothing happens to.                                      *)
LEMMA UntouchedFits ==
  ASSUME NEW r, NEW u, NEW g \in Groupings, NEW x, In(u, g, x) <=> In(r, g, x),
         \A p \in Types : Has(u, p, x) <=> Has(r, p, x),
         NEW st, FitsBut(r, st, g, x), NEW w, StillWaits(r, st, u, w, g, x)
  PROVE  FitsBut(u, w, g, x)
<1>1. Need(g) \subseteq Types /\ Bars(g) \subseteq Types
  BY TypeFacts
<1>2. HasAll(u, Need(g), x) <=> HasAll(r, Need(g), x)
  BY <1>1 DEF HasAll
<1>3. \A p \in Bars(g) : Has(u, p, x) <=> Has(r, p, x)
  BY <1>1
<1>4. /\ Waits(r, st, g, x, Bars(g)) => Waits(u, w, g, x, Bars(g))
      /\ Waits(r, st, g, x, Need(g)) => Waits(u, w, g, x, Need(g))
  BY DEF StillWaits
<1> QED BY <1>2, <1>3, <1>4 DEF FitsBut, Fits

(* An element is emplaced: the groups that listen wait for its             *)
(* publication.                                                            *)
LEMMA EmplaceKeeps ==
  ASSUME Inv, NEW t \in Types, NEW e \in Entities, Emplace(t, e)
  PROVE  Inv'
<1>1. PICK r, st, u, w : r = reg /\ st = stack /\ u = reg' /\ w = stack'
  OBVIOUS
<1>2. Listening /\ Good(r, st) /\ UNCHANGED listeners /\ ~ Has(r, t, e)
  BY <1>1 DEF Inv, Emplace
<1>3. Placed(r) /\ Absent(r) /\ st \in Seq(Frames) /\ \A k \in 1 .. Len(st) : GoodFrame(r, st[k], k)
  BY <1>2 DEF Good, Stacked
<1>4. PICK n \in Nat : n = Len(st)
  BY <1>3, SeqFacts
<1>5. PICK s \in Seq(Entities) : s = r.pools[t] /\ IsInjective(s)
  BY <1>3, RegParts DEF Placed
<1>6. e \notin ToSet(s)
  BY <1>2, <1>5 DEF Has
<1>7. PICK q : q = Append(s, e)
  OBVIOUS
<1>8. PICK l \in Nat : l = Len(s)
  BY <1>5, SeqFacts
<1>9. /\ q \in Seq(Entities) /\ IsInjective(q) /\ ToSet(q) = ToSet(s) \cup {e}
      /\ Len(q) = l + 1 /\ \A i \in 1 .. l : q[i] = s[i]
  <2>1. q \in Seq(Entities) /\ Pushed(s, e, q)
    BY <1>5, <1>7, PushFacts
  <2>2. IsInjective(q) /\ ToSet(q) = ToSet(s) \cup {e}
    BY <1>5, <1>6, <1>7, PushInjective, PushElements
  <2> QED BY <2>1, <2>2, <1>8 DEF Pushed
<1>10. Changed(r, u, t, q)
  <2>1. u = [r EXCEPT !.pools[t] = q]
    BY <1>1, <1>5, <1>7 DEF Emplace
  <2>2. t \in ToSet(Owned) => r.len \in Nat /\ r.len <= l
    BY <1>3, <1>5, <1>8, RegParts DEF Placed
  <2>3. BehindOnly(r, t, q)
    <3>1. ASSUME t \in ToSet(Owned) PROVE r.len <= Len(q) /\ \A i \in 1 .. r.len : q[i] = s[i]
      BY <3>1, <2>2, <1>9
    <3> QED BY <3>1, <1>5 DEF BehindOnly
  <2> QED BY <2>1, <2>3, <1>3, <1>9, ChangedPool
<1>11. /\ Placed(u) /\ u.len = r.len /\ u.pools[t] = q
       /\ \A p \in Types : p # t => u.pools[p] = r.pools[p]
       /\ \A g \in Groupings : \A x : In(u, g, x) <=> In(r, g, x)
  BY <1>10 DEF Changed
<1>12. \A p \in Types : \A x : Has(u, p, x) <=> Has(r, p, x) \/ (p = t /\ x = e)
  BY <1>5, <1>9, <1>11 DEF Has
<1>13. Absent(u)
  BY <1>3, <1>11 DEF Absent
<1>14. PICK ls, c : ls = listeners["construct"][t] /\ c = Len(ls)
  OBVIOUS
<1>15. c \in Nat /\ \A g \in Groupings : g \in Hearing(t) <=> \E i \in 1 .. c : ls[i] = g
  BY <1>2, <1>14, ConstructionTells DEF Telling
<1>16. PICK z : z = Publishing(t, e)
  OBVIOUS
<1>17. z \in Frames /\ z.kind = "publish" /\ z.type = t /\ z.entt = e /\ z.next = c
  BY <1>14, <1>15, <1>16 DEF Publishing, Frames
<1>18. w = Append(st, z)
  BY <1>1, <1>16 DEF Emplace
<1>19. /\ w \in Seq(Frames) /\ Len(w) = n + 1 /\ w[n + 1] = z
       /\ \A k \in 1 .. n : w[k] = st[k]
  <2>1. w \in Seq(Frames) /\ Pushed(st, z, w)
    BY <1>3, <1>17, <1>18, PushFacts
  <2> QED BY <2>1, <1>4 DEF Pushed
<1>20. \A k \in 1 .. Len(w) : k = n + 1 \/ k \in 1 .. n
  BY <1>19
<1>21. \A k \in 1 .. n : st[k] \in Frames /\ st[k].type \in Types /\ GoodFrame(r, st[k], k)
  BY <1>3, <1>4, SeqFacts, FrameParts
<1>22. \A p \in Types : Len(u.pools[p]) \in Nat /\ Len(r.pools[p]) \in Nat
  BY <1>3, <1>11, RegParts, SeqFacts DEF Placed
<1>23. Stacked(u, w)
  <2>1. ASSUME NEW k \in 1 .. n PROVE GoodFrame(u, st[k], k)
    <3>1. st[k] \in Frames /\ st[k].type \in Types /\ GoodFrame(r, st[k], k)
      BY <1>21
    <3>2. Len(r.pools[st[k].type]) <= Len(u.pools[st[k].type])
      <4>1. CASE st[k].type = t
        BY <4>1, <1>5, <1>8, <1>9, <1>11
      <4>2. CASE st[k].type # t
        BY <4>2, <3>1, <1>11, <1>22
      <4> QED BY <4>1, <4>2
    <3>3. st[k].to \in Nat
      BY <3>1, FrameParts
    <3> QED BY <3>1, <3>2, <3>3, <1>12, <1>22 DEF GoodFrame
  <2>2. GoodFrame(u, z, n + 1)
    BY <1>12, <1>14, <1>15, <1>17 DEF GoodFrame
  <2> QED BY <2>1, <2>2, <1>19, <1>20 DEF Stacked
<1>24. Steady(r, u, st)
  <2> SUFFICES ASSUME NEW k \in 1 .. n, st[k].kind = "insert" PROVE Calm(r, u, st[k])
    BY <1>4 DEF Steady
  <2>1. PICK f : f = st[k] /\ f \in Frames /\ f.type \in Types /\ GoodFrame(r, f, k) /\ f.kind = "insert"
    BY <1>21
  <2>2. f.next \in Nat /\ f.to \in Nat
    BY <2>1, FrameParts
  <2>3. CASE f.type = t
    <3>1. f.next <= f.to /\ f.to <= l
      BY <2>1, <2>3, <1>5, <1>8 DEF GoodFrame
    <3>2. \A i : i \in 1 .. l + 1 /\ i <= f.to => i \in 1 .. l
      BY <3>1, <2>2
    <3>3. \A i : i \in 1 .. l => i \in 1 .. l + 1
      OBVIOUS
    <3>4. \A x : Late(q, f.next, f.to, x) <=> Late(s, f.next, f.to, x)
      BY <3>2, <3>3, <1>8, <1>9 DEF Late
    <3>5. \A x : Early(s, f.next, x) => Early(q, f.next, x)
      BY <3>3, <1>8, <1>9 DEF Early
    <3>6. InOrder(s, f) => InOrder(q, f)
      BY <3>2, <1>8, <1>9 DEF InOrder
    <3> QED BY <3>4, <3>5, <3>6, <2>1, <2>3, <1>5, <1>11 DEF Calm
  <2>4. CASE f.type # t
    BY <2>1, <2>4, <1>11 DEF Calm
  <2> QED BY <2>1, <2>3, <2>4
<1>25. ASSUME ~ Foreign PROVE Exact(u, w) /\ Inserting(u, w)
  <2>1. Exact(r, st) /\ Inserting(r, st)
    BY <1>2, <1>25 DEF Good
  <2>2. /\ \A g, x, types : Waits(u, st, g, x, types) <=> Waits(r, st, g, x, types)
        /\ Inserting(u, st)
    BY <2>1, <1>4, <1>24, SteadyFacts
  <2>3. Inserting(u, w)
    <3> SUFFICES ASSUME Len(w) > 0, w[1].kind = "insert" PROVE Inserting(u, w)
      BY DEF Inserting
    <3>1. n # 0
      BY <1>17, <1>19
    <3>2. n > 0 /\ 1 \in 1 .. n /\ w[1] = st[1]
      BY <3>1, <1>19
    <3>3. 2 \in DOMAIN st /\ st[2].entt = e
      <4>1. st[1].kind = "insert" /\ 1 \in DOMAIN st
        BY <3>2, <1>3, <1>4
      <4>2. MayTouch(e)
        BY DEF Emplace
      <4>3. 1 + 1 \in DOMAIN stack /\ stack[1 + 1].entt = e
        BY <4>1, <4>2, <1>1, <1>25 DEF MayTouch
      <4> QED BY <4>3, <1>1
    <3>4. 2 \in 1 .. n /\ 2 \in 2 .. n
      BY <3>3, <1>3, <1>4
    <3>5. w[2] = st[2] /\ w[n + 1].entt = e
      BY <3>4, <1>17, <1>19
    <3>6. /\ InOrder(u.pools[st[1].type], st[1])
          /\ st[1].type \in ToSet(Owned) => u.len <= st[1].next
          /\ \A k \in 2 .. n : /\ st[k].entt = e
                               /\ Early(u.pools[st[1].type], st[1].next, st[k].entt)
      BY <2>2, <3>2, <3>3, <1>4 DEF Inserting
    <3>7. ASSUME NEW k \in 2 .. Len(w)
          PROVE  w[k].entt = w[2].entt /\ Early(u.pools[w[1].type], w[1].next, w[k].entt)
      <4>1. k = n + 1 \/ (k \in 2 .. n /\ w[k] = st[k])
        BY <1>19
      <4>2. w[k].entt = e
        BY <4>1, <3>5, <3>6
      <4> QED BY <4>2, <3>2, <3>3, <3>4, <3>5, <3>6
    <3> QED BY <3>2, <3>6, <3>7 DEF Inserting
  <2>4. ASSUME NEW g, NEW x PROVE StillWaits(r, st, u, w, g, x)
    <3> SUFFICES ASSUME NEW types, Waits(u, st, g, x, types) PROVE Waits(u, w, g, x, types)
      BY <2>2 DEF StillWaits
    <3>1. PICK k \in 1 .. n : st[k].type \in types /\ FrameWaits(u, st[k], g, x)
      BY <1>4 DEF Waits
    <3>2. k \in 1 .. Len(w) /\ w[k] = st[k]
      BY <1>19
    <3> QED BY <3>1, <3>2 DEF Waits
  <2>5. ASSUME NEW g \in Groupings, Created(g) PROVE WaitsFor(u, w, g, e, t)
    <3> SUFFICES ASSUME t \in Concerns(g), NEW types, t \in types PROVE Waits(u, w, g, e, types)
      BY DEF WaitsFor
    <3>1. g \in Hearing(t)
      BY <2>5 DEF Hearing
    <3>2. FrameWaits(u, z, g, e)
      BY <3>1, <1>14, <1>15, <1>17 DEF FrameWaits
    <3>3. n + 1 \in 1 .. Len(w)
      BY <1>19
    <3> QED BY <3>2, <3>3, <1>17, <1>19 DEF Waits
  <2>6. ASSUME NEW g \in Groupings, Created(g), NEW x \in Entities PROVE FitsBut(u, w, g, x)
    <3>1. FitsBut(r, st, g, x) /\ (In(u, g, x) <=> In(r, g, x)) /\ StillWaits(r, st, u, w, g, x)
      BY <2>1, <2>4, <2>6, <1>11 DEF Exact
    <3>2. CASE x = e
      <4>1. \A p \in Types : Has(u, p, x) <=> Has(r, p, x) \/ p = t
        BY <3>2, <1>12
      <4>2. WaitsFor(u, w, g, x, t)
        BY <2>5, <2>6, <3>2
      <4> QED BY <4>1, <4>2, <3>1, AddedFits
    <3>3. CASE x # e
      <4>1. \A p \in Types : Has(u, p, x) <=> Has(r, p, x)
        BY <3>3, <1>12
      <4> QED BY <4>1, <3>1, UntouchedFits
    <3> QED BY <3>2, <3>3
  <2> QED BY <2>3, <2>6 DEF Exact
<1>26. Good(u, w)
  BY <1>11, <1>13, <1>23, <1>25 DEF Good
<1> QED BY <1>1, <1>2, <1>26, Keeps

(* An element is erased, maybe by a listener: no insertion notices, no     *)
(* group gets wrong.                                                       *)
LEMMA EraseKeeps ==
  ASSUME Inv, NEW t \in Types, NEW e \in Entities, Erase(t, e)
  PROVE  Inv'
<1>1. PICK r, st, u : r = reg /\ st = stack /\ u = reg' /\ st = stack'
  BY DEF Erase
<1>2. Listening /\ Good(r, st) /\ UNCHANGED listeners /\ Has(r, t, e) /\ u = Pop(r, t, e)
  BY <1>1 DEF Inv, Erase
<1>3. Placed(r) /\ Absent(r) /\ st \in Seq(Frames) /\ \A k \in 1 .. Len(st) : GoodFrame(r, st[k], k)
  BY <1>2 DEF Good, Stacked
<1>4. PICK n \in Nat : n = Len(st) /\ DOMAIN st = 1 .. n
  BY <1>3, SeqFacts
<1>5. Popping(r, u, t, e)
  BY <1>2, <1>3, PopIs
<1>6. /\ Absent(u)
      /\ \A g \in Groupings : Created(g) =>
           \A x, barred, needed : Fits(r, g, x, barred, needed) => Fits(u, g, x, barred, needed)
  BY <1>2, <1>3, <1>5, PoppingFits
<1>7. /\ Placed(u)
      /\ \A p \in Types : \A x : Has(u, p, x) <=> Has(r, p, x) /\ ~ (p = t /\ x = e)
  BY <1>5 DEF Popping
<1>8. PICK s : /\ Reacted(r, s, e) /\ u.len = s.len
               /\ \A p \in Types \ {t} : u.pools[p] = s.pools[p]
  BY <1>5 DEF Popping
<1>9. \A k \in 1 .. n : st[k] \in Frames /\ st[k].type \in Types /\ st[k].type # t /\ GoodFrame(r, st[k], k)
  <2>1. \A k \in 1 .. n : st[k] \in Frames /\ st[k].type \in Types /\ GoodFrame(r, st[k], k)
    BY <1>3, <1>4, SeqFacts, FrameParts
  <2>2. \A k \in 1 .. n : st[k].type # t
    BY <1>1, <1>4 DEF Erase, MayRemove
  <2> QED BY <2>1, <2>2
<1>10. \A p \in Types \ {t} : Len(u.pools[p]) = Len(r.pools[p])
  BY <1>8 DEF Reacted, Same
<1>11. Stacked(u, st)
  <2>1. ASSUME NEW k \in 1 .. n PROVE GoodFrame(u, st[k], k)
    <3>1. st[k].type \in Types \ {t} /\ GoodFrame(r, st[k], k)
      BY <1>9
    <3>2. Len(u.pools[st[k].type]) = Len(r.pools[st[k].type])
      BY <3>1, <1>10
    <3>3. \A x : Has(u, st[k].type, x) <=> Has(r, st[k].type, x)
      BY <3>1, <1>7
    <3> QED BY <3>1, <3>2, <3>3 DEF GoodFrame
  <2> QED BY <2>1, <1>3, <1>4 DEF Stacked
<1>12. ASSUME ~ Foreign PROVE Exact(u, st) /\ Inserting(u, st)
  <2>1. Exact(r, st) /\ Inserting(r, st)
    BY <1>2, <1>12 DEF Good
  <2>2. Steady(r, u, st)
    <3> SUFFICES ASSUME NEW k \in 1 .. n, st[k].kind = "insert" PROVE Calm(r, u, st[k])
      BY <1>4 DEF Steady
    <3>1. k = 1 /\ n > 0
      BY <1>9 DEF GoodFrame
    <3>2. 2 \in 1 .. n /\ st[2].entt = e
      <4>1. 1 \in DOMAIN st /\ st[1].kind = "insert"
        BY <3>1, <1>4
      <4>2. MayTouch(e)
        BY DEF Erase, MayRemove
      <4>3. 1 + 1 \in DOMAIN stack /\ stack[1 + 1].entt = e
        BY <4>1, <4>2, <1>1, <1>12 DEF MayTouch
      <4> QED BY <4>3, <1>1, <1>4
    <3>3. 2 \in 2 .. n
      BY <3>2
    <3>4. /\ st[1].type \in ToSet(Owned) => r.len <= st[1].next
          /\ Early(r.pools[st[1].type], st[1].next, e)
      BY <2>1, <3>1, <3>2, <3>3, <1>4 DEF Inserting
    <3>5. st[1] \in Frames /\ st[1].type \in Types \ {t}
      BY <3>1, <1>9
    <3>6. Calm(r, s, st[1])
      BY <3>4, <3>5, <1>3, <1>8, ReactedCalm
    <3> QED BY <3>1, <3>5, <3>6, <1>8 DEF Calm
  <2>3. /\ \A g, x, types : Waits(u, st, g, x, types) <=> Waits(r, st, g, x, types)
        /\ Inserting(u, st)
    BY <2>1, <2>2, <1>4, SteadyFacts
  <2>4. ASSUME NEW g \in Groupings, Created(g), NEW x \in Entities PROVE FitsBut(u, st, g, x)
    <3>1. FitsBut(r, st, g, x)
      BY <2>1, <2>4 DEF Exact
    <3>2. \A barred, needed : Fits(r, g, x, barred, needed) => Fits(u, g, x, barred, needed)
      BY <2>4, <1>6
    <3>3. /\ Fits(r, g, x, TRUE, TRUE) => Fits(u, g, x, TRUE, TRUE)
          /\ Fits(r, g, x, TRUE, FALSE) => Fits(u, g, x, TRUE, FALSE)
          /\ Fits(r, g, x, FALSE, TRUE) => Fits(u, g, x, FALSE, TRUE)
          /\ Fits(r, g, x, FALSE, FALSE) => Fits(u, g, x, FALSE, FALSE)
      BY <3>2
    <3>4. /\ Waits(u, st, g, x, Bars(g)) <=> Waits(r, st, g, x, Bars(g))
          /\ Waits(u, st, g, x, Need(g)) <=> Waits(r, st, g, x, Need(g))
      BY <2>3
    <3>5. CASE Waits(r, st, g, x, Bars(g)) /\ Waits(r, st, g, x, Need(g))
      <4>1. Fits(r, g, x, TRUE, TRUE)
        BY <3>1 DEF FitsBut, Fits
      <4>2. Fits(u, g, x, TRUE, TRUE)
        BY <4>1, <3>3
      <4> QED BY <4>2, <3>4, <3>5 DEF FitsBut, Fits
    <3>6. CASE Waits(r, st, g, x, Bars(g)) /\ ~ Waits(r, st, g, x, Need(g))
      <4>1. Fits(r, g, x, TRUE, FALSE)
        BY <3>1, <3>6 DEF FitsBut, Fits
      <4>2. Fits(u, g, x, TRUE, FALSE)
        BY <4>1, <3>3
      <4> QED BY <4>2, <3>4, <3>6 DEF FitsBut, Fits
    <3>7. CASE ~ Waits(r, st, g, x, Bars(g)) /\ Waits(r, st, g, x, Need(g))
      <4>1. Fits(r, g, x, FALSE, TRUE)
        BY <3>1, <3>7 DEF FitsBut, Fits
      <4>2. Fits(u, g, x, FALSE, TRUE)
        BY <4>1, <3>3
      <4> QED BY <4>2, <3>4, <3>7 DEF FitsBut, Fits
    <3>8. CASE ~ Waits(r, st, g, x, Bars(g)) /\ ~ Waits(r, st, g, x, Need(g))
      <4>1. Fits(r, g, x, FALSE, FALSE)
        BY <3>1, <3>8 DEF FitsBut, Fits
      <4>2. Fits(u, g, x, FALSE, FALSE)
        BY <4>1, <3>3
      <4> QED BY <4>2, <3>4, <3>8 DEF FitsBut, Fits
    <3> QED BY <3>5, <3>6, <3>7, <3>8
  <2> QED BY <2>3, <2>4 DEF Exact
<1>13. Good(u, st)
  BY <1>6, <1>7, <1>11, <1>12 DEF Good
<1> QED BY <1>1, <1>2, <1>13, Keeps

(* A whole call without a listener of the program in between.              *)
LEMMA SettledStep ==
  ASSUME Inv, stack = << >>, UNCHANGED <<listeners, stack>>, Settled(reg) => Settled(reg')
  PROVE  Inv'
<1>1. PICK r, st, u, w : r = reg /\ st = stack /\ u = reg' /\ w = stack'
  OBVIOUS
<1>2. st = << >> /\ w = << >>
  BY <1>1
<1>3. Good(r, << >>)
  BY <1>1, <1>2 DEF Inv
<1>4. Settled(r)
  BY <1>3, SettledGood
<1>5. Settled(u)
  BY <1>1, <1>4
<1>6. Good(u, w)
  BY <1>2, <1>5, SettledGood
<1> QED BY <1>1, <1>6, Keeps DEF Inv

(* A pool is cleared.                                                      *)
LEMMA ClearKeeps ==
  ASSUME Inv, NEW t \in Types, Clear(t)
  PROVE  Inv'
<1>1. Settled(reg) => Settled(reg')
  BY PopAllSettled DEF Inv, Clear
<1> QED BY <1>1, SettledStep DEF Clear

(* An entity is destroyed.                                                 *)
LEMMA DestroyKeeps ==
  ASSUME Inv, NEW e \in Entities, Destroy(e)
  PROVE  Inv'
<1>1. reg' = DestroyAll(reg, e)
  BY DEF Destroy, DestroyAll
<1>2. Settled(reg) => Settled(reg')
  BY <1>1, DestroySettled DEF Inv
<1> QED BY <1>2, SettledStep DEF Destroy

(* The group is sorted.                                                    *)
LEMMA SortKeeps ==
  ASSUME Inv, Sort
  PROVE  Inv'
<1>1. ASSUME Settled(reg) PROVE Settled(reg')
  <2>1. PICK r, u : r = reg /\ u = reg'
    OBVIOUS
  <2>2. PICK perm \in Bijection(1 .. reg.len, 1 .. reg.len) :
          LET first == reg.pools[Owned[1]]
              head  == [n \in DOMAIN first |-> IF n <= reg.len THEN first[perm[n]] ELSE first[n]]
          IN  reg' = [reg EXCEPT !.pools =
                        [t \in Types |-> CASE t = Owned[1]            -> head
                                           [] t \in ToSet(Tail(Owned)) -> Follow(@[t], head, reg.len)
                                           [] OTHER                    -> @[t]]]
    BY DEF Sort
  <2>3. PICK first, head :
          /\ first = r.pools[Owned[1]]
          /\ head = [n \in DOMAIN first |-> IF n <= r.len THEN first[perm[n]] ELSE first[n]]
    OBVIOUS
  <2>4. u = [r EXCEPT !.pools =
               [t \in Types |-> CASE t = Owned[1]            -> head
                                  [] t \in ToSet(Tail(Owned)) -> Follow(@[t], head, r.len)
                                  [] OTHER                    -> @[t]]]
    BY <2>1, <2>2, <2>3
  <2>5. Settled(r)
    BY <1>1, <2>1
  <2>6. Placed(r)
    BY <2>5 DEF Settled
  <2>7. Placed(u) /\ Same(r, u) /\ \A g \in Groupings : \A x : In(u, g, x) <=> In(r, g, x)
    <3>1. perm \in Bijection(1 .. r.len, 1 .. r.len)
      BY <2>1
    <3> QED BY SMTT(60), <3>1, <2>3, <2>4, <2>6, SortFacts
  <2>8. Settled(u)
    BY <2>5, <2>7, SettledSame
  <2> QED BY <2>1, <2>8
<1> QED BY <1>1, SettledStep DEF Sort

(* A free pool is sorted.                                                  *)
LEMMA SortFreeKeeps ==
  ASSUME Inv, NEW t \in Types, SortFree(t)
  PROVE  Inv'
<1>1. ASSUME Settled(reg) PROVE Settled(reg')
  <2>1. PICK r, u : r = reg /\ u = reg'
    OBVIOUS
  <2>2. PICK perm \in Bijection(DOMAIN r.pools[t], DOMAIN r.pools[t]) :
          u = [r EXCEPT !.pools[t] = [n \in DOMAIN @ |-> @[perm[n]]]]
    BY <2>1 DEF SortFree
  <2>3. Settled(r)
    BY <1>1, <2>1
  <2>4. Placed(r)
    BY <2>3 DEF Settled
  <2>5. t \in ToSet(Owned) => r.len = 0
    <3>1. t \in ToSet(Owned) => ~ Created("owning")
      BY DEF SortFree
    <3>2. ~ Created("owning") => \A x : ~ In(r, "owning", x)
      BY <2>3 DEF Settled, Absent, Groupings
    <3> QED BY <3>1, <3>2, <2>4, EmptyGroup
  <2>6. Placed(u) /\ Same(r, u) /\ \A g \in Groupings : \A x : In(u, g, x) <=> In(r, g, x)
    BY <2>2, <2>4, <2>5, SortFreeFacts
  <2>7. Settled(u)
    BY <2>3, <2>6, SettledSame
  <2> QED BY <2>1, <2>7
<1> QED BY <1>1, SettledStep DEF SortFree

(* q is s with the range es behind it.                                     *)
Extended(s, es, q) ==
  /\ q \in Seq(Entities) /\ IsInjective(q) /\ Len(q) = Len(s) + 2
  /\ \A i \in 1 .. Len(s) : q[i] = s[i]
  /\ es \in Seq(Entities) /\ es[1] \in Entities /\ Len(es) = 2
  /\ q[Len(s) + 1] = es[1] /\ q[Len(s) + 2] = es[2]
  /\ \A x : x \in ToSet(q) <=> x \in ToSet(s) \/ Late(q, Len(s), Len(s) + 2, x)

(* A range of two is put behind the others.                                *)
LEMMA RangeFacts ==
  ASSUME NEW s \in Seq(Entities), IsInjective(s), NEW es \in Pairs,
         \A n \in DOMAIN es : es[n] \notin ToSet(s), NEW q, q = s \o es
  PROVE  Extended(s, es, q)
<1>1. PICK d \in Entities, e \in Entities : es = << d, e >> /\ d # e
  BY DEF Pairs
<1>2. PICK l \in Nat : l = Len(s)
  BY SeqFacts
<1>3. /\ q \in Seq(Entities) /\ Len(q) = l + 2 /\ q[l + 1] = d /\ q[l + 2] = e
      /\ \A i \in 1 .. l : q[i] = s[i]
  BY <1>1, <1>2, TwoMoreFacts
<1>4. /\ es \in Seq(Entities) /\ es[1] = d /\ es[2] = e /\ Len(es) = 2
      /\ d \notin ToSet(s) /\ e \notin ToSet(s)
  <2>1. es \in Seq(Entities) /\ es[1] = d /\ es[2] = e /\ Len(es) = 2 /\ 1 \in DOMAIN es /\ 2 \in DOMAIN es
    BY <1>1
  <2> QED BY <2>1
<1>5. ToSet(s) = {s[i] : i \in 1 .. l} /\ \A i, j \in 1 .. l : s[i] = s[j] => i = j
  BY <1>2, ElementsIs
<1>6. \A i \in 1 .. l + 2 : i \in 1 .. l \/ i = l + 1 \/ i = l + 2
  OBVIOUS
<1>7. \A i \in 1 .. l : q[i] # d /\ q[i] # e
  BY <1>3, <1>4, <1>5
<1>8. \A i, j \in 1 .. l + 2 : q[i] = q[j] => i = j
  BY <1>1, <1>3, <1>5, <1>6, <1>7
<1>9. ToSet(q) = {q[i] : i \in 1 .. Len(q)}
      /\ (IsInjective(q) <=> \A i, j \in 1 .. Len(q) : q[i] = q[j] => i = j)
  BY ONLY <1>3, ElementsIs
<1>10. IsInjective(q)
  BY <1>3, <1>8, <1>9
<1>11. \A x : Late(q, l, l + 2, x) <=> x = d \/ x = e
  <2>1. \A i \in 1 .. l + 2 : l < i <=> i = l + 1 \/ i = l + 2
    OBVIOUS
  <2>2. l + 1 \in 1 .. l + 2 /\ l + 2 \in 1 .. l + 2 /\ l + 1 <= l + 2 /\ l + 2 <= l + 2
    OBVIOUS
  <2> QED BY <2>1, <2>2, <1>3 DEF Late
<1>12. ASSUME NEW x PROVE x \in ToSet(q) <=> x \in ToSet(s) \/ x = d \/ x = e
  <2>1. x \in ToSet(q) <=> \E i \in 1 .. l + 2 : q[i] = x
    BY <1>3, <1>9
  <2>2. x \in ToSet(s) <=> \E i \in 1 .. l : q[i] = x
    BY <1>3, <1>5
  <2>3. l + 1 \in 1 .. l + 2 /\ l + 2 \in 1 .. l + 2 /\ \A i \in 1 .. l : i \in 1 .. l + 2
    OBVIOUS
  <2> QED BY <2>1, <2>2, <2>3, <1>3, <1>6
<1> QED BY <1>1, <1>2, <1>3, <1>4, <1>10, <1>11, <1>12 DEF Extended

(* A range is inserted: the groups that listen wait for the loop.          *)
LEMMA InsertKeeps ==
  ASSUME Inv, NEW t \in Types, NEW es \in Pairs, Insert(t, es)
  PROVE  Inv'
<1>1. PICK r, st, u, w : r = reg /\ st = stack /\ u = reg' /\ w = stack'
  OBVIOUS
<1>2. /\ Listening /\ Good(r, st) /\ UNCHANGED listeners /\ st = << >>
      /\ \A n \in DOMAIN es : ~ Has(r, t, es[n])
  BY <1>1 DEF Inv, Insert
<1>3. Placed(r) /\ Absent(r) /\ Settled(r)
  BY <1>2, SettledGood DEF Settled
<1>4. PICK s \in Seq(Entities) : s = r.pools[t] /\ IsInjective(s)
  BY <1>3, RegParts DEF Placed
<1>5. PICK q, l : q = s \o es /\ l = Len(s) /\ l \in Nat
  BY <1>4, SeqFacts
<1>6. /\ q \in Seq(Entities) /\ IsInjective(q) /\ Len(q) = l + 2
      /\ \A i \in 1 .. l : q[i] = s[i]
      /\ es \in Seq(Entities) /\ es[1] \in Entities /\ Len(es) = 2
      /\ q[l + 1] = es[1] /\ q[l + 2] = es[2]
      /\ \A x : x \in ToSet(q) <=> x \in ToSet(s) \/ Late(q, l, l + 2, x)
  <2>1. \A n \in DOMAIN es : es[n] \notin ToSet(s)
    BY <1>2, <1>4 DEF Has
  <2>2. Extended(s, es, q)
    BY <2>1, <1>4, <1>5, RangeFacts
  <2> QED BY <2>2, <1>5 DEF Extended
<1>7. r.len \in Nat /\ (t \in ToSet(Owned) => r.len <= l)
  BY <1>3, <1>4, <1>5, RegParts DEF Placed
<1>8. Changed(r, u, t, q)
  <2>1. u = [r EXCEPT !.pools[t] = q]
    BY <1>1, <1>4, <1>5 DEF Insert
  <2>2. BehindOnly(r, t, q)
    <3>1. ASSUME t \in ToSet(Owned) PROVE r.len <= Len(q) /\ \A i \in 1 .. r.len : q[i] = s[i]
      BY <3>1, <1>5, <1>6, <1>7
    <3> QED BY <3>1, <1>4 DEF BehindOnly
  <2> QED BY <2>1, <2>2, <1>3, <1>6, ChangedPool
<1>9. /\ Placed(u) /\ u.len = r.len /\ u.pools[t] = q
      /\ \A p \in Types : p # t => u.pools[p] = r.pools[p]
      /\ \A g \in Groupings : \A x : In(u, g, x) <=> In(r, g, x)
  BY <1>8 DEF Changed
<1>10. \A p \in Types : \A x : Has(u, p, x) <=> Has(r, p, x) \/ (p = t /\ Late(q, l, l + 2, x))
  BY <1>4, <1>6, <1>9 DEF Has
<1>11. Absent(u)
  BY <1>3, <1>9 DEF Absent
<1>12. PICK f : f = [kind |-> "insert", type |-> t, entt |-> es[1], next |-> l, to |-> l + 2,
                     es |-> es, told |-> << >>]
  OBVIOUS
<1>13. /\ f \in Frames /\ f.kind = "insert" /\ f.type = t /\ f.next = l /\ f.to = l + 2
       /\ f.es = es /\ f.told = << >>
  <2>1. l + 2 \in Nat /\ << >> \in Seq(Entities)
    BY <1>5
  <2> QED BY <2>1, <1>5, <1>6, <1>12 DEF Frames
<1>14. PICK ls, c : ls = listeners["construct"][t] /\ c = Len(ls)
  OBVIOUS
<1>15. \A g \in Groupings : g \in Hearing(t) <=> \E i \in 1 .. c : ls[i] = g
  BY <1>2, <1>14, ConstructionTells DEF Telling
<1>16. w = IF ls = << >> THEN << >> ELSE << f >>
  BY <1>1, <1>2, <1>4, <1>5, <1>6, <1>12, <1>14 DEF Insert
<1>17. CASE ls = << >>
  <2>1. w = << >>
    BY <1>16, <1>17
  <2>2. ASSUME ~ Foreign, NEW g \in Groupings, Created(g), NEW x \in Entities
        PROVE  Fits(u, g, x, FALSE, FALSE)
    <3>1. \A i \in 1 .. c : FALSE
      BY <1>14, <1>17
    <3>2. g \notin Hearing(t)
      BY <3>1, <1>15
    <3>3. t \notin Concerns(g)
      BY <3>2, <2>2 DEF Hearing
    <3>4. \A p \in Concerns(g) : Has(u, p, x) <=> Has(r, p, x)
      BY <3>3, <1>10, TypeFacts DEF Concerns
    <3>5. Fits(r, g, x, FALSE, FALSE) /\ (In(u, g, x) <=> In(r, g, x))
      BY <2>2, <1>3, <1>9 DEF Settled
    <3> QED BY <3>4, <3>5, FitsSame
  <2>3. Settled(u)
    BY <2>2, <1>9, <1>11 DEF Settled
  <2>4. Good(u, w)
    BY <2>1, <2>3, SettledGood
  <2> QED BY <2>4, <1>1, <1>2, Keeps
<1>18. CASE ls # << >>
  <2>1. w = << f >>
    BY <1>16, <1>18
  <2>2. w \in Seq(Frames) /\ Len(w) = 1 /\ w[1] = f
    BY <2>1, <1>13
  <2>3. Stacked(u, w)
    <3>1. l <= l + 2 /\ l + 2 <= Len(u.pools[t])
      BY <1>5, <1>6, <1>9
    <3>2. GoodFrame(u, f, 1)
      BY <3>1, <1>13 DEF GoodFrame
    <3>3. \A k \in 1 .. Len(w) : k = 1
      BY <2>2
    <3> QED BY <3>2, <3>3, <2>2 DEF Stacked
  <2>4. ASSUME NEW g, NEW x, Late(q, l, l + 2, x) PROVE WaitsFor(u, w, g, x, t)
    <3>1. FrameWaits(u, f, g, x)
      BY <2>4, <1>9, <1>13 DEF FrameWaits
    <3>2. 1 \in 1 .. Len(w)
      BY <2>2
    <3> QED BY <3>1, <3>2, <2>2, <1>13 DEF WaitsFor, Waits
  <2>5. ASSUME ~ Foreign, NEW g \in Groupings, Created(g), NEW x \in Entities PROVE FitsBut(u, w, g, x)
    <3>1. Exact(r, st)
      BY <1>2, <2>5 DEF Good
    <3>2. FitsBut(r, st, g, x) /\ (In(u, g, x) <=> In(r, g, x))
      BY <3>1, <2>5, <1>9 DEF Exact
    <3>3. \A k \in 1 .. Len(st) : FALSE
      BY <1>2
    <3>4. StillWaits(r, st, u, w, g, x)
      BY <3>3 DEF StillWaits, Waits
    <3>5. CASE Late(q, l, l + 2, x)
      <4>1. \A p \in Types : Has(u, p, x) <=> Has(r, p, x) \/ p = t
        BY <3>5, <1>10
      <4>2. WaitsFor(u, w, g, x, t)
        BY <3>5, <2>4
      <4> QED BY <4>1, <4>2, <3>2, <3>4, AddedFits
    <3>6. CASE ~ Late(q, l, l + 2, x)
      <4>1. \A p \in Types : Has(u, p, x) <=> Has(r, p, x)
        BY <3>6, <1>10
      <4> QED BY <4>1, <3>2, <3>4, UntouchedFits
    <3> QED BY <3>5, <3>6
  <2>6. Inserting(u, w)
    <3>1. Len(f.told) = 0 /\ \A i \in 1 .. Len(f.told) : FALSE
      BY <1>13
    <3>2. ASSUME NEW i \in 1 .. Len(q), l < i, i <= l + 2 PROVE q[i] = es[i + 2 - (l + 2)]
      <4>1. (i = l + 1 /\ i + 2 - (l + 2) = 1) \/ (i = l + 2 /\ i + 2 - (l + 2) = 2)
        BY <3>2, <1>5
      <4> QED BY <4>1, <1>6
    <3>3. InOrder(q, f)
      BY <3>1, <3>2, <1>5, <1>6, <1>13 DEF InOrder
    <3>4. \A k \in 2 .. Len(w) : FALSE
      BY <2>2
    <3> QED BY <3>3, <3>4, <2>2, <1>7, <1>9, <1>13 DEF Inserting
  <2>7. Good(u, w)
    BY <2>3, <2>5, <2>6, <1>9, <1>11 DEF Good, Exact
  <2> QED BY <2>7, <1>1, <1>2, Keeps
<1> QED BY <1>17, <1>18

-------------------------------------------------------------------------------
(* A group is made, or the program starts to listen.                       *)

(* The lists after who has connected.                                      *)
ListsAfter(ls, who, types, signals) ==
  /\ ls \in [Signals -> [Types -> Seq(Kinds)]]
  /\ \A s \in Signals, t \in Types :
       /\ IsInjective(ls[s][t])
       /\ \A x : x \in ToSet(ls[s][t])
                   <=> x \in ToSet(listeners[s][t]) \/ (x = who /\ s \in signals /\ t \in types)

(* A listener is appended to the lists of some pools.                      *)
LEMMA ConnectedLists ==
  ASSUME Listening, NEW who \in Kinds, NEW types \in SUBSET Types, NEW signals \in SUBSET Signals,
         \A s \in signals, t \in types : who \notin ToSet(listeners[s][t]),
         NEW ls, ls = Connected(who, types, signals)
  PROVE  ListsAfter(ls, who, types, signals)
<1>1. ls = [s \in Signals |-> [t \in Types |-> IF t \in types /\ s \in signals
                                              THEN Append(listeners[s][t], who)
                                              ELSE listeners[s][t]]]
  BY DEF Connected, Signals
<1>2. ASSUME NEW s \in Signals, NEW t \in Types
      PROVE  /\ ls[s][t] \in Seq(Kinds) /\ IsInjective(ls[s][t])
             /\ \A x : x \in ToSet(ls[s][t])
                         <=> x \in ToSet(listeners[s][t]) \/ (x = who /\ s \in signals /\ t \in types)
  <2>1. PICK q \in Seq(Kinds) : q = listeners[s][t] /\ IsInjective(q)
    BY DEF Listening
  <2>2. PICK v : v = ls[s][t]
    OBVIOUS
  <2>3. v = IF t \in types /\ s \in signals THEN Append(q, who) ELSE q
    BY <1>1, <2>1, <2>2
  <2>4. CASE t \in types /\ s \in signals
    <3>1. who \notin ToSet(q) /\ v = Append(q, who)
      BY <2>1, <2>3, <2>4
    <3>2. v \in Seq(Kinds) /\ IsInjective(v) /\ ToSet(v) = ToSet(q) \cup {who}
      BY <3>1, <2>1, PushFacts, PushInjective, PushElements
    <3> QED BY <3>2, <2>1, <2>2, <2>4
  <2>5. CASE ~ (t \in types /\ s \in signals)
    <3>1. v = q
      BY <2>3, <2>5
    <3> QED BY <3>1, <2>1, <2>2, <2>5
  <2> QED BY <2>4, <2>5
<1>3. ls \in [Signals -> [Types -> Seq(Kinds)]]
  <2>1. \A s \in Signals : ls[s] \in [Types -> Seq(Kinds)]
    BY <1>1, <1>2
  <2> QED BY <2>1, <1>1
<1> QED BY <1>2, <1>3 DEF ListsAfter

(* A group connects to all its pools.                                      *)
LEMMA GroupConnects ==
  ASSUME Listening, NEW who \in Groupings, ~ Created(who),
         listeners' = Connected(who, Concerns(who), Signals)
  PROVE  Listening' /\ \A g \in Groupings : Created(g)' <=> Created(g) \/ g = who
<1>1. Concerns(who) \subseteq Types /\ who \in Kinds
  BY TypeFacts DEF Concerns, Kinds, Groupings
<1>2. \A s \in Signals, t \in Concerns(who) : who \notin ToSet(listeners[s][t])
  BY <1>1 DEF Listening
<1>3. PICK ls : ls = listeners'
  OBVIOUS
<1>4. /\ ls \in [Signals -> [Types -> Seq(Kinds)]]
      /\ \A s \in Signals, t \in Types :
           /\ IsInjective(ls[s][t])
           /\ \A x : x \in ToSet(ls[s][t])
                       <=> x \in ToSet(listeners[s][t]) \/ (x = who /\ t \in Concerns(who))
  <2>1. ListsAfter(ls, who, Concerns(who), Signals)
    BY <1>1, <1>2, <1>3, ConnectedLists
  <2> QED BY <2>1 DEF ListsAfter
<1>5. \E t \in Types : t \in Concerns(who)
  <2>1. Owned[1] \in Concerns("owning")
    BY TypeFacts DEF Concerns, Need
  <2>2. Observed # << >> /\ Observed \in Seq(Types)
    BY GroupAssumption
  <2>3. 1 \in 1 .. Len(Observed) /\ ToSet(Observed) = {Observed[i] : i \in 1 .. Len(Observed)}
    BY <2>2, SeqFacts, ElementsIs
  <2>4. Observed[1] \in Concerns("observing")
    BY <2>3 DEF Concerns, Need
  <2> QED BY <2>1, <2>4, <1>1 DEF Groupings
<1>6. ASSUME NEW g \in Groupings PROVE Created(g)' <=> Created(g) \/ g = who
  <2>1. "destroy" \in Signals
    BY DEF Signals
  <2>2. \A t \in Types : g \in ToSet(ls["destroy"][t])
                           <=> g \in ToSet(listeners["destroy"][t]) \/ (g = who /\ t \in Concerns(who))
    BY <2>1, <1>4
  <2>3. Created(g)' <=> \E t \in Types : g \in ToSet(ls["destroy"][t])
    BY <1>3 DEF Created
  <2> QED BY <2>2, <2>3, <1>5 DEF Created
<1>7. Listening'
  <2>1. ASSUME NEW s \in Signals, NEW t \in Types
        PROVE  /\ \A g \in Groupings : g \in ToSet(ls[s][t]) <=> Created(g)' /\ t \in Concerns(g)
               /\ "user" \in ToSet(ls[s][t]) => s = "construct"
    <3>1. \A g \in Groupings : g \in ToSet(listeners[s][t]) <=> Created(g) /\ t \in Concerns(g)
      BY DEF Listening
    <3>2. "user" \in ToSet(listeners[s][t]) => s = "construct"
      BY DEF Listening
    <3>3. who # "user"
      BY DEF Groupings
    <3> QED BY <3>1, <3>2, <3>3, <1>4, <1>6
  <2> QED BY <2>1, <1>3, <1>4 DEF Listening
<1> QED BY <1>6, <1>7

(* A step with no call in progress, after which the groups are exact.      *)
LEMMA MadeGood ==
  ASSUME Listening', stack' = << >>, NEW u, u = reg', Placed(u),
         \A g \in Groupings : ~ Created(g)' => \A x : ~ In(u, g, x),
         ~ Foreign => \A g \in Groupings : Created(g)' => \A x \in Entities : Fits(u, g, x, FALSE, FALSE)
  PROVE  Inv'
<1>1. Absent(reg)' /\ Placed(reg)'
  BY DEF Absent
<1>2. Len(stack') = 0 /\ stack' \in Seq(Frames)
  OBVIOUS
<1>3. \A k \in 1 .. Len(stack') : FALSE
  BY <1>2
<1>4. Stacked(reg, stack)'
  BY <1>2, <1>3 DEF Stacked
<1>5. Inserting(reg, stack)'
  BY <1>2 DEF Inserting
<1>6. ASSUME ~ Foreign PROVE Exact(reg, stack)'
  <2>1. ASSUME NEW g \in Groupings, Created(g)', NEW x \in Entities PROVE FitsBut(reg, stack, g, x)'
    <3>1. Fits(u, g, x, FALSE, FALSE)
      BY <1>6, <2>1
    <3>2. ~ Waits(reg, stack, g, x, Bars(g))' /\ ~ Waits(reg, stack, g, x, Need(g))'
      BY <1>3 DEF Waits
    <3> QED BY <3>1, <3>2 DEF FitsBut, Fits
  <2> QED BY <2>1 DEF Exact
<1> QED BY <1>1, <1>4, <1>5, <1>6 DEF Inv, Good

(* A group is made of the elements there are.                              *)
LEMMA CreateGood ==
  ASSUME Inv, stack = << >>, UNCHANGED stack, NEW who \in Groupings, ~ Created(who),
         listeners' = Connected(who, Concerns(who), Signals),
         NEW r, r = reg, NEW u, u = reg', Placed(u), Same(r, u),
         \A x : Fits(u, who, x, FALSE, FALSE),
         \A g \in Groupings : g # who => \A x : In(u, g, x) <=> In(r, g, x)
  PROVE  Inv'
<1>1. Listening /\ Good(r, << >>)
  BY DEF Inv
<1>2. Settled(r)
  BY <1>1, SettledGood
<1>3. Listening' /\ \A g \in Groupings : Created(g)' <=> Created(g) \/ g = who
  BY <1>1, GroupConnects
<1>4. \A g \in Groupings : ~ Created(g)' => \A x : ~ In(u, g, x)
  BY <1>2, <1>3 DEF Settled, Absent
<1>5. ASSUME ~ Foreign, NEW g \in Groupings, Created(g)', NEW x \in Entities
      PROVE  Fits(u, g, x, FALSE, FALSE)
  <2>1. CASE g = who
    BY <2>1
  <2>2. CASE g # who
    <3>1. Fits(r, g, x, FALSE, FALSE) /\ (In(u, g, x) <=> In(r, g, x))
      BY <1>2, <1>3, <1>5, <2>2 DEF Settled
    <3>2. \A p \in Concerns(g) : Has(u, p, x) <=> Has(r, p, x)
      BY SameHas, TypeFacts DEF Concerns
    <3> QED BY <3>1, <3>2, FitsSame
  <2> QED BY <2>1, <2>2
<1> QED BY <1>3, <1>4, <1>5, MadeGood

(* The group that owns pools is made.                                      *)
LEMMA CreateOwningKeeps ==
  ASSUME Inv, CreateOwning
  PROVE  Inv'
<1>1. PICK r, u, who : r = reg /\ u = reg' /\ who = "owning"
  OBVIOUS
<1>2. Placed(r) /\ Absent(r)
  BY <1>1 DEF Inv, Good
<1>3. ~ Created(who) /\ who \in Groupings /\ u = CommonSetup(r) /\ stack = << >> /\ UNCHANGED stack
  BY <1>1 DEF CreateOwning, Groupings
<1>4. \A x : ~ In(r, "owning", x)
  BY <1>1, <1>2, <1>3 DEF Absent
<1>5. /\ Placed(u) /\ Same(r, u)
      /\ \A x : Fits(u, "owning", x, FALSE, FALSE)
      /\ \A x : In(u, "observing", x) <=> In(r, "observing", x)
  BY <1>2, <1>3, <1>4, CommonSetupFacts
<1>6. listeners' = Connected(who, Concerns(who), Signals)
  BY <1>1 DEF CreateOwning, Concerns, Need, Bars, Signals
<1>7. \A x : Fits(u, who, x, FALSE, FALSE)
  BY <1>1, <1>5
<1>8. \A g \in Groupings : g # who => \A x : In(u, g, x) <=> In(r, g, x)
  BY <1>1, <1>5 DEF Groupings
<1> QED BY <1>1, <1>3, <1>5, <1>6, <1>7, <1>8, CreateGood

(* The group that owns nothing is made.                                    *)
LEMMA CreateObservingKeeps ==
  ASSUME Inv, CreateObserving
  PROVE  Inv'
<1>1. PICK r, u, who : r = reg /\ u = reg' /\ who = "observing"
  OBVIOUS
<1>2. Placed(r) /\ Absent(r)
  BY <1>1 DEF Inv, Good
<1>3. ~ Created(who) /\ who \in Groupings /\ u = ElemCommonSetup(r) /\ stack = << >> /\ UNCHANGED stack
  BY <1>1 DEF CreateObserving, Groupings
<1>4. \A x : ~ In(r, "observing", x)
  BY <1>1, <1>2, <1>3 DEF Absent
<1>5. /\ Placed(u) /\ Same(r, u)
      /\ \A x : Fits(u, "observing", x, FALSE, FALSE)
      /\ \A x : In(u, "owning", x) <=> In(r, "owning", x)
  BY <1>2, <1>3, <1>4, ElemCommonSetupFacts
<1>6. listeners' = Connected(who, Concerns(who), Signals)
  BY <1>1 DEF CreateObserving, Concerns, Need, Bars, Signals
<1>7. \A x : Fits(u, who, x, FALSE, FALSE)
  BY <1>1, <1>5
<1>8. \A g \in Groupings : g # who => \A x : In(u, g, x) <=> In(r, g, x)
  BY <1>1, <1>5 DEF Groupings
<1> QED BY <1>1, <1>3, <1>5, <1>6, <1>7, <1>8, CreateGood

(* The program starts to listen.                                           *)
LEMMA ConnectKeeps ==
  ASSUME Inv, NEW t \in Types, Connect(t)
  PROVE  Inv'
<1>1. PICK ls, r, signals : ls = listeners' /\ r = reg /\ r = reg' /\ signals = {"construct"}
  BY DEF Connect
<1>2. Listening /\ Good(r, << >>) /\ stack' = << >>
  BY <1>1 DEF Inv, Connect
<1>3. Settled(r)
  BY <1>2, SettledGood
<1>4. "user" \in Kinds /\ signals \in SUBSET Signals /\ {t} \in SUBSET Types
  BY <1>1 DEF Kinds, Signals
<1>5. \A s \in signals, p \in {t} : "user" \notin ToSet(listeners[s][p])
  BY <1>1 DEF Connect
<1>6. ls = Connected("user", {t}, signals)
  BY <1>1 DEF Connect
<1>7. ListsAfter(ls, "user", {t}, signals)
  BY <1>2, <1>4, <1>5, <1>6, ConnectedLists
<1>8. ASSUME NEW s \in Signals, NEW p \in Types
      PROVE  /\ IsInjective(ls[s][p])
             /\ \A g \in Groupings : g \in ToSet(ls[s][p]) <=> g \in ToSet(listeners[s][p])
             /\ "user" \in ToSet(ls[s][p]) => s = "construct"
  <2>1. \A g \in Groupings : g # "user"
    BY DEF Groupings
  <2>2. "user" \in ToSet(listeners[s][p]) => s = "construct"
    BY <1>2 DEF Listening
  <2> QED BY <2>1, <2>2, <1>1, <1>7 DEF ListsAfter
<1>9. \A g \in Groupings : Created(g)' <=> Created(g)
  <2>1. "destroy" \in Signals
    BY DEF Signals
  <2>2. \A g \in Groupings : \A p \in Types :
          g \in ToSet(ls["destroy"][p]) <=> g \in ToSet(listeners["destroy"][p])
    BY <2>1, <1>8
  <2>3. \A g \in Groupings : Created(g)' <=> \E p \in Types : g \in ToSet(ls["destroy"][p])
    BY <1>1 DEF Created
  <2> QED BY <2>2, <2>3 DEF Created
<1>10. Listening'
  <2>1. \A s \in Signals, p \in Types : \A g \in Groupings :
          g \in ToSet(ls[s][p]) <=> Created(g)' /\ p \in Concerns(g)
    BY <1>2, <1>8, <1>9 DEF Listening
  <2>2. ls \in [Signals -> [Types -> Seq(Kinds)]]
    BY <1>7 DEF ListsAfter
  <2> QED BY <2>1, <2>2, <1>1, <1>8 DEF Listening
<1>11. Placed(r) /\ \A g \in Groupings : ~ Created(g)' => \A x : ~ In(r, g, x)
  BY <1>3, <1>9 DEF Settled, Absent
<1>12. ~ Foreign => \A g \in Groupings : Created(g)' => \A x \in Entities : Fits(r, g, x, FALSE, FALSE)
  BY <1>3, <1>9 DEF Settled
<1> QED BY <1>1, <1>2, <1>10, <1>11, <1>12, MadeGood

-------------------------------------------------------------------------------
(* The theorems.                                                           *)

(* The invariant holds of the empty registry.                              *)
LEMMA InitInv ==
  ASSUME Init
  PROVE  Inv
<1>1. PICK none : none = << >>
  OBVIOUS
<1>2. /\ reg = [pools |-> [t \in Types |-> none], len |-> 0, elem |-> none]
      /\ listeners = [signal \in Signals |-> [t \in Types |-> none]] /\ stack = << >>
  BY <1>1 DEF Init, Signals
<1>3. none \in Seq(Entities) /\ none \in Seq(Kinds) /\ Len(none) = 0 /\ \A i \in 1 .. Len(none) : FALSE
  BY <1>1
<1>4. IsInjective(none) /\ ToSet(none) = {}
  <2>1. ToSet(none) = {none[i] : i \in 1 .. Len(none)}
        /\ (IsInjective(none) <=> \A i, j \in 1 .. Len(none) : none[i] = none[j] => i = j)
    <3>1. none \in Seq(Entities)
      BY <1>3
    <3> QED BY ONLY <3>1, ElementsIs
  <2> QED BY ONLY <2>1, <1>3
<1>5. /\ reg \in Regs /\ reg.len = 0 /\ reg.elem = none
      /\ \A t \in Types : reg.pools[t] = none
  BY <1>2, <1>3 DEF Regs
<1>6. Placed(reg)
  <2>1. \A i \in 1 .. 0 : FALSE
    OBVIOUS
  <2>2. ToSet(Owned) \subseteq Types
    BY TypeFacts
  <2> QED BY <2>1, <2>2, <1>3, <1>4, <1>5 DEF Placed
<1>7. \A g \in Groupings : \A x : ~ In(reg, g, x)
  <2>1. \A i \in 1 .. reg.len : FALSE
    BY <1>5
  <2> QED BY <2>1, <1>4, <1>5 DEF In
<1>8. \A s \in Signals, t \in Types : listeners[s][t] = none
  BY <1>2
<1>9. "destroy" \in Signals
  BY DEF Signals
<1>10. \A g : ~ Created(g)
  BY <1>4, <1>8, <1>9 DEF Created
<1>11. Listening
  <2>1. listeners \in [Signals -> [Types -> Seq(Kinds)]]
    BY <1>2, <1>3
  <2> QED BY <2>1, <1>4, <1>8, <1>10 DEF Listening
<1>12. Settled(reg)
  BY <1>6, <1>7, <1>10 DEF Settled, Absent
<1>13. Good(reg, stack)
  BY <1>2, <1>12, SettledGood
<1> QED BY <1>11, <1>13 DEF Inv

(* Every step keeps the invariant.                                         *)
LEMMA NextInv ==
  ASSUME Inv, [Next]_vars
  PROVE  Inv'
<1>1. CASE UNCHANGED vars
  <2>1. PICK u, w : u = reg' /\ w = stack'
    OBVIOUS
  <2>2. Good(u, w) /\ Listening /\ UNCHANGED listeners
    BY <1>1, <2>1 DEF vars, Inv
  <2> QED BY <2>1, <2>2, Keeps
<1>2. CASE \E t \in Types, e \in Entities : Emplace(t, e)
  BY <1>2, EmplaceKeeps
<1>3. CASE \E t \in Types, e \in Entities : Erase(t, e)
  BY <1>3, EraseKeeps
<1>4. CASE \E t \in Types, es \in Pairs : Insert(t, es)
  BY <1>4, InsertKeeps
<1>5. CASE \E t \in Types : Clear(t)
  BY <1>5, ClearKeeps
<1>6. CASE \E e \in Entities : Destroy(e)
  BY <1>6, DestroyKeeps
<1>7. CASE InsertStep
  BY <1>7, InsertStepKeeps
<1>8. CASE InsertEnds
  BY <1>8, InsertEndsKeeps
<1>9. CASE PublishStep
  BY <1>9, PublishStepKeeps
<1>10. CASE PublishEnds
  BY <1>10, PublishEndsKeeps
<1>11. CASE UserReturns
  BY <1>11, UserReturnsKeeps
<1>12. CASE Sort
  BY <1>12, SortKeeps
<1>13. CASE \E t \in Types : SortFree(t)
  BY <1>13, SortFreeKeeps
<1>14. CASE CreateOwning
  BY <1>14, CreateOwningKeeps
<1>15. CASE CreateObserving
  BY <1>15, CreateObservingKeeps
<1>16. CASE \E t \in Listened : Connect(t)
  BY <1>16, ConnectKeeps, GroupAssumption
<1> QED BY <1>1, <1>2, <1>3, <1>4, <1>5, <1>6, <1>7, <1>8, <1>9, <1>10, <1>11, <1>12, <1>13, <1>14,
           <1>15, <1>16 DEF Next, Calls, Loops, Sorts

(* The first n elements of a sequence.                                     *)
LEMMA PrefixFacts ==
  ASSUME NEW S, NEW s \in Seq(S), NEW n \in Nat, n <= Len(s), NEW t, t = SubSeq(s, 1, n)
  PROVE  t \in Seq(S) /\ Len(t) = n /\ \A i \in 1 .. n : t[i] = s[i]
<1>1. Len(s) \in Nat /\ \A i \in 1 .. Len(s) : s[i] \in S
  BY SeqFacts
<1>2. \A i \in 1 .. n : s[i] \in S
  BY <1>1
<1>3. 1 \in Int /\ n \in Int /\ n - 1 + 1 = n /\ (IF 1 <= n THEN n - 1 + 1 ELSE 0) = n
  OBVIOUS
<1>4. t \in Seq(S) /\ Len(t) = n /\ \A i \in 1 .. n : t[i] = s[1 + i - 1]
  BY <1>2, <1>3, SubSeqProperties
<1>5. \A i \in 1 .. n : 1 + i - 1 = i
  OBVIOUS
<1> QED BY <1>4, <1>5

(* What the invariant says of the owned pools.                             *)
LEMMA InvSamePrefix ==
  ASSUME Inv
  PROVE  SamePrefix
<1>1. Placed(reg) /\ reg \in Regs
  BY DEF Inv, Good, Placed
<1>2. /\ reg.len \in Nat /\ reg.elem \in Seq(Entities)
      /\ \A t \in Types : reg.pools[t] \in Seq(Entities) /\ Len(reg.pools[t]) \in Nat
  BY <1>1, RegParts, SeqFacts
<1>3. Owned[1] \in ToSet(Owned) /\ ToSet(Owned) \subseteq Types
  BY TypeFacts
<1>4. \A t \in ToSet(Owned) : reg.len <= Len(reg.pools[t])
  BY <1>1 DEF Placed
<1>5. TypeOK
  BY <1>1, <1>2, <1>3, <1>4 DEF TypeOK, Placed
<1>6. ASSUME NEW t \in ToSet(Owned)
      PROVE  SubSeq(reg.pools[t], 1, reg.len) = SubSeq(reg.pools[Owned[1]], 1, reg.len)
  <2>1. PICK n \in Nat : n = reg.len
    BY <1>2
  <2>2. PICK s \in Seq(Entities) : s = reg.pools[t] /\ n <= Len(s)
    BY <1>2, <1>3, <1>4, <2>1
  <2>3. PICK q \in Seq(Entities) : q = reg.pools[Owned[1]] /\ n <= Len(q)
    BY <1>2, <1>3, <1>4, <2>1
  <2>4. \A i \in 1 .. n : s[i] = q[i]
    BY <1>1, <2>1, <2>2, <2>3 DEF Placed
  <2>5. PICK v, w : v = SubSeq(s, 1, n) /\ w = SubSeq(q, 1, n)
    OBVIOUS
  <2>6. v \in Seq(Entities) /\ Len(v) = n /\ \A i \in 1 .. n : v[i] = s[i]
    BY <2>2, <2>5, PrefixFacts
  <2>7. w \in Seq(Entities) /\ Len(w) = n /\ \A i \in 1 .. n : w[i] = q[i]
    BY <2>3, <2>5, PrefixFacts
  <2>8. Len(v) = Len(w) /\ \A i \in 1 .. Len(v) : v[i] = w[i]
    BY <2>4, <2>6, <2>7
  <2>9. v = w
    BY <2>6, <2>7, <2>8, SeqEqual
  <2> QED BY <2>1, <2>2, <2>3, <2>5, <2>9
<1> QED BY <1>4, <1>5, <1>6 DEF SamePrefix

(* Whom a call will still tell of is pending.                              *)
LEMMA WaitsPending ==
  ASSUME Inv, NEW g, NEW e, e \notin Pending, NEW types
  PROVE  ~ Waits(reg, stack, g, e, types)
<1>1. stack \in Seq(Frames) /\ \A k \in 1 .. Len(stack) : GoodFrame(reg, stack[k], k)
  BY DEF Inv, Good, Stacked
<1>2. PICK n \in Nat : n = Len(stack) /\ DOMAIN stack = 1 .. n
  BY <1>1, SeqFacts
<1>3. ASSUME NEW k \in 1 .. n, FrameWaits(reg, stack[k], g, e) PROVE FALSE
  <2>1. e \notin IF stack[k].kind = "insert"
                 THEN {reg.pools[stack[k].type][i] : i \in stack[k].next + 1 .. stack[k].to}
                 ELSE {stack[k].entt}
    BY <1>2 DEF Pending
  <2>2. stack[k] \in Frames
    BY <1>1, <1>2, SeqFacts
  <2>3. stack[k].next \in Nat /\ stack[k].to \in Nat
    BY <2>2, FrameParts
  <2>4. CASE stack[k].kind = "insert"
    <3>1. Late(reg.pools[stack[k].type], stack[k].next, stack[k].to, e)
      BY <1>3, <2>4 DEF FrameWaits
    <3>2. PICK i \in 1 .. Len(reg.pools[stack[k].type]) :
            stack[k].next < i /\ i <= stack[k].to /\ reg.pools[stack[k].type][i] = e
      BY <3>1 DEF Late
    <3>3. i \in stack[k].next + 1 .. stack[k].to
      BY <3>2, <2>3
    <3> QED BY <3>2, <3>3, <2>1, <2>4
  <2>5. CASE stack[k].kind # "insert"
    <3>1. e = stack[k].entt
      BY <1>3, <2>5 DEF FrameWaits
    <3> QED BY <3>1, <2>1, <2>5
  <2> QED BY <2>4, <2>5
<1> QED BY <1>2, <1>3 DEF Waits

(* So the group is exact for the others.                                   *)
LEMMA InvExact ==
  ASSUME Inv, ~ Foreign, NEW g \in Groupings, Created(g), NEW e \in Entities \ Pending
  PROVE  In(reg, g, e) <=> HasAll(reg, Need(g), e) /\ Excluded(reg, Bars(g), e) = 0
<1>1. FitsBut(reg, stack, g, e)
  BY DEF Inv, Good, Exact
<1>2. ~ Waits(reg, stack, g, e, Bars(g)) /\ ~ Waits(reg, stack, g, e, Need(g))
  BY WaitsPending
<1>3. Fits(reg, g, e, FALSE, FALSE)
  BY <1>1, <1>2 DEF FitsBut, Fits
<1>4. Bars(g) \subseteq Types
  BY TypeFacts
<1>5. Excluded(reg, Bars(g), e) = 0 <=> \A t \in Bars(g) : ~ Has(reg, t, e)
  BY <1>4, ExcludedFacts
<1> QED BY <1>3, <1>5 DEF Fits

(* What it says of the entities of the group that owns pools.              *)
LEMMA InvOwningExact ==
  ASSUME Inv, ~ Foreign
  PROVE  OwningExact
<1> SUFFICES ASSUME Created("owning"), NEW e \in Entities \ Pending
             PROVE  e \in ToSet(SubSeq(reg.pools[Owned[1]], 1, reg.len))
                      <=> HasAll(reg, Members, e) /\ Excluded(reg, Exclude, e) = 0
  BY DEF OwningExact
<1>1. "owning" \in Groupings /\ Need("owning") = Members /\ Bars("owning") = Exclude
  BY DEF Groupings, Need, Bars
<1>2. In(reg, "owning", e) <=> HasAll(reg, Members, e) /\ Excluded(reg, Exclude, e) = 0
  BY <1>1, InvExact
<1>3. Placed(reg) /\ Owned[1] \in ToSet(Owned) /\ Owned[1] \in Types
  BY TypeFacts DEF Inv, Good
<1>4. PICK n \in Nat : n = reg.len
  BY <1>3, RegParts DEF Placed
<1>5. PICK s \in Seq(Entities) : s = reg.pools[Owned[1]] /\ n <= Len(s)
  BY <1>3, <1>4, RegParts DEF Placed
<1>6. PICK t : t = SubSeq(s, 1, n)
  OBVIOUS
<1>7. t \in Seq(Entities) /\ Len(t) = n /\ \A i \in 1 .. n : t[i] = s[i]
  BY <1>5, <1>6, PrefixFacts
<1>8. ToSet(t) = {t[i] : i \in 1 .. Len(t)}
  BY <1>7, ElementsIs
<1>9. e \in ToSet(t) <=> \E i \in 1 .. n : s[i] = e
  BY <1>7, <1>8
<1>10. In(reg, "owning", e) <=> \E i \in 1 .. n : s[i] = e
  BY <1>4, <1>5 DEF In
<1> QED BY <1>2, <1>4, <1>5, <1>6, <1>9, <1>10

(* What it says of the entities of the other group.                        *)
LEMMA InvObservingExact ==
  ASSUME Inv, ~ Foreign
  PROVE  ObservingExact
<1> SUFFICES ASSUME Created("observing"), NEW e \in Entities \ Pending
             PROVE  e \in ToSet(reg.elem)
                      <=> HasAll(reg, ToSet(Observed), e) /\ Excluded(reg, Filtered, e) = 0
  BY DEF ObservingExact
<1>1. /\ "observing" \in Groupings /\ Need("observing") = ToSet(Observed)
      /\ Bars("observing") = Filtered
  BY DEF Groupings, Need, Bars
<1>2. In(reg, "observing", e) <=> HasAll(reg, ToSet(Observed), e) /\ Excluded(reg, Filtered, e) = 0
  BY <1>1, InvExact
<1>3. In(reg, "observing", e) <=> e \in ToSet(reg.elem)
  BY DEF In
<1> QED BY <1>2, <1>3

(* What it says of an insertion.                                           *)
LEMMA InvInsertTellsEach ==
  ASSUME Inv, ~ Foreign
  PROVE  InsertTellsEach
<1> SUFFICES ASSUME NEW k \in DOMAIN stack, stack[k].kind = "insert"
             PROVE  /\ IsPrefix(stack[k].told, stack[k].es)
                    /\ stack[k].next = stack[k].to => stack[k].told = stack[k].es
  BY DEF InsertTellsEach
<1>1. stack \in Seq(Frames) /\ \A i \in 1 .. Len(stack) : GoodFrame(reg, stack[i], i)
  BY DEF Inv, Good, Stacked
<1>2. k \in 1 .. Len(stack) /\ Len(stack) \in Nat
  BY <1>1, SeqFacts
<1>3. k = 1
  BY <1>1, <1>2 DEF GoodFrame
<1>4. Len(stack) > 0 /\ stack[1].kind = "insert"
  BY <1>2, <1>3
<1>5. Inserting(reg, stack)
  BY DEF Inv, Good
<1>6. PICK f : f = stack[1] /\ InOrder(reg.pools[f.type], f)
  BY <1>4, <1>5 DEF Inserting
<1>7. /\ f.next \in Nat /\ f.to \in Nat /\ f.next <= f.to
      /\ f.es \in Seq(Entities) /\ f.told \in Seq(Entities)
  <2>1. f \in Frames /\ GoodFrame(reg, f, 1) /\ f.kind = "insert"
    BY <1>1, <1>2, <1>3, <1>4, <1>6, SeqFacts
  <2> QED BY <2>1, FrameParts DEF GoodFrame
<1>8. PICK s \in Seq(Entities), t \in Seq(Entities) : s = f.told /\ t = f.es
  BY <1>7
<1>9. PICK m \in Nat, n \in Nat : m = Len(s) /\ n = Len(t)
  BY <1>8, SeqFacts
<1>10. f.next + n = f.to + m /\ \A i \in 1 .. m : s[i] = t[i]
  BY <1>6, <1>8, <1>9 DEF InOrder
<1>11. m <= n
  BY <1>7, <1>9, <1>10
<1>12. IsPrefix(s, t)
  <2>1. PICK v, w : v = SubSeq(s, 1, m) /\ w = SubSeq(t, 1, m)
    OBVIOUS
  <2>2. v \in Seq(Entities) /\ Len(v) = m /\ \A i \in 1 .. m : v[i] = s[i]
    BY <2>1, <1>9, PrefixFacts
  <2>3. w \in Seq(Entities) /\ Len(w) = m /\ \A i \in 1 .. m : w[i] = t[i]
    BY <2>1, <1>9, <1>11, PrefixFacts
  <2>4. v = w
    BY <2>2, <2>3, <1>10, SeqEqual
  <2> QED BY <2>1, <2>4, <1>9, <1>11 DEF IsPrefix
<1>13. ASSUME f.next = f.to PROVE s = t
  <2>1. m = n
    BY <1>7, <1>9, <1>10, <1>13
  <2> QED BY <2>1, <1>8, <1>9, <1>10, SeqEqual
<1> QED BY <1>3, <1>6, <1>8, <1>12, <1>13

(* The invariant holds in every behaviour.                                 *)
LEMMA SpecInv == Spec => []Inv
<1>1. Init => Inv
  BY InitInv
<1>2. Inv /\ [Next]_vars => Inv'
  BY NextInv
<1> QED BY <1>1, <1>2, PTL DEF Spec

(* In every behaviour the owned pools begin with the same entities in the  *)
(* same order, whatever listeners do: the elements of a group are read     *)
(* from all its pools at one position (group.hpp).                         *)
THEOREM GroupsSamePrefix == Spec => []SamePrefix
<1>1. Inv => SamePrefix
  BY InvSamePrefix
<1> QED BY <1>1, SpecInv, PTL

(* A group that owns pools has exactly the entities with its elements and  *)
(* none it excludes, but for those whose construction is still being       *)
(* published, if the listeners of an insertion stay with the entity they   *)
(* are called for.                                                         *)
THEOREM GroupsOwningExact ==
  ASSUME ~ Foreign
  PROVE  Spec => []OwningExact
<1>1. Inv => OwningExact
  BY InvOwningExact
<1> QED BY <1>1, SpecInv, PTL

(* The same of a group that owns nothing.                                  *)
THEOREM GroupsObservingExact ==
  ASSUME ~ Foreign
  PROVE  Spec => []ObservingExact
<1>1. Inv => ObservingExact
  BY InvObservingExact
<1> QED BY <1>1, SpecInv, PTL

(* The loop of insert tells of the new elements, each once, in their order *)
(* and of no other, and of all by its end, though the listeners it calls   *)
(* make the group permute the pool it walks, if they stay with their       *)
(* entity.                                                                 *)
THEOREM GroupsInsertTellsEach ==
  ASSUME ~ Foreign
  PROVE  Spec => []InsertTellsEach
<1>1. Inv => InsertTellsEach
  BY InvInsertTellsEach
<1> QED BY <1>1, SpecInv, PTL

===============================================================================
