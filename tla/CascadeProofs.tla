----------------------------- MODULE CascadeProofs -----------------------------
(***************************************************************************)
(* That destruction tells the listeners of every element once, and leaves  *)
(* no element of an entity that is gone, for any number of identifiers and *)
(* pools, however deep the calls of the listeners nest.                    *)
(*                                                                         *)
(* Inv is the inductive invariant.  Its parts:                             *)
(*   Typed     the types of the variables; no identifier twice in a pool   *)
(*   Whole     every call in progress holds what its pool still has        *)
(*   Nested    which call can be above which                               *)
(*   Apart     two removals in one pool are of one element each, not the   *)
(*             same                                                        *)
(*   Cleared   what a destruction will remove no call below it is removing *)
(*   Walked    what a walk over the pools has passed is gone from them     *)
(*   Valid     every element is of an identifier in use                    *)
(*   Told      ToldOnce, with the positions of the pools                   *)
(***************************************************************************)
EXTENDS Cascade, SequenceFacts, FiniteSetTheorems, WellFoundedInduction, TLAPS

FrameSet ==
  [kind : {"destroy"}, id : Handles, next : Nat]
    \cup [kind : {"range"}, ids : Seq(Handles), pool : Nat, from : Nat]
    \cup [kind : {"clear"}, next : Nat]
    \cup [kind : {"pop"}, type : AllPools, left : Seq(Handles)]
    \cup [kind : {"popall"}, type : AllPools, next : Nat]

Typed ==
  /\ alive \subseteq Handles
  /\ own \in [AllPools -> Seq(Handles)]
  /\ \A t \in AllPools : IsInjective(own[t])
  /\ stack \in Seq(FrameSet)
  /\ told \in [AllPools -> [Handles -> Nat]]

FrameWhole(f) ==
  /\ f.kind = "pop" => /\ f.left # << >> /\ IsInjective(f.left)
                       /\ ToSet(f.left) \subseteq ToSet(own[f.type])
  /\ f.kind = "popall" => 0 < f.next /\ f.next <= Len(own[f.type])
  /\ f.kind \in {"destroy", "clear"} => f.next <= PoolCount
  /\ f.kind = "range" => IsInjective(f.ids) /\ f.from > 0 /\ f.pool > 0

Whole == \A k \in 1 .. Len(stack) : FrameWhole(stack[k])

(* Call g was made by call f.                                              *)
Above(f, g) ==
  /\ f.kind = "destroy" => g = PopFrame(f.next + 1, << f.id >>)
  /\ f.kind = "range" => g.kind = "pop" /\ g.type = f.pool
  /\ f.kind = "clear" => g.kind = "popall" /\ g.type = f.next + 1

Nested ==
  \A k \in 1 .. Len(stack) :
    /\ stack[k].kind \in {"range", "clear"} => k = 1
    /\ k < Len(stack) => Above(stack[k], stack[k + 1])

(* A removal of one element other than id.                                 *)
LoneOther(f, id) == f.kind = "pop" /\ Len(f.left) = 1 /\ Head(f.left) # id

Apart ==
  \A j, k \in 1 .. Len(stack) :
    j # k /\ Telling(j) /\ Telling(k) /\ stack[j].type = stack[k].type
      => stack[k].kind = "pop" /\ LoneOther(stack[j], Head(stack[k].left))

Cleared ==
  \A j, k \in 1 .. Len(stack) :
    j < k /\ Telling(j) /\ stack[k].kind = "destroy" /\ Has(stack[j].type, stack[k].id)
      => LoneOther(stack[j], stack[k].id)

DestroyWalked(k) ==
  \A t \in AllPools : Has(t, stack[k].id) =>
    \/ t <= stack[k].next
    \/ k < Len(stack) /\ t = stack[k].next + 1

RangeWalked(k) ==
  \A t \in AllPools, n \in 1 .. Len(stack[k].ids) : Has(t, stack[k].ids[n]) =>
    \/ t > stack[k].pool
    \/ t = stack[k].pool /\ n >= stack[k].from
    \/ t = stack[k].pool /\ k < Len(stack) /\ stack[k].ids[n] \in ToSet(stack[k + 1].left)

ClearWalked(k) ==
  \A t \in AllPools : own[t] # << >> =>
    \/ t <= stack[k].next
    \/ k < Len(stack) /\ t = stack[k].next + 1

Walked ==
  \A k \in 1 .. Len(stack) :
    /\ stack[k].kind = "destroy" => DestroyWalked(k)
    /\ stack[k].kind = "range" => RangeWalked(k)
    /\ stack[k].kind = "clear" => ClearWalked(k)

Valid == \A t \in AllPools : ToSet(own[t]) \subseteq alive

(* A listener is being told by call f that the element goes.               *)
Announced(f, t, id) ==
  /\ f.kind \in {"pop", "popall"} /\ f.type = t
  /\ f.kind = "pop" => Head(f.left) = id
  /\ f.kind = "popall" => \E n \in f.next .. Len(own[t]) : own[t][n] = id

Going(t, id) == \E k \in 1 .. Len(stack) : Announced(stack[k], t, id)

ToldSound(t, id) == told[t][id] = IF Has(t, id) /\ ~ Going(t, id) THEN 0 ELSE 1

Told == \A t \in AllPools, id \in Handles : ToldSound(t, id)

Inv == Typed /\ Whole /\ Nested /\ Apart /\ Cleared /\ Walked /\ Valid /\ Told

-------------------------------------------------------------------------------
(* Calls in progress, and pools.                                           *)

(* The fields of a call, by its kind.                                      *)
LEMMA FrameTypes ==
  ASSUME NEW f \in FrameSet
  PROVE  /\ f.kind \in {"destroy", "range", "clear", "pop", "popall"}
         /\ f.kind = "destroy" => f.id \in Handles /\ f.next \in Nat
         /\ f.kind = "range" => f.ids \in Seq(Handles) /\ f.pool \in Nat /\ f.from \in Nat
         /\ f.kind = "clear" => f.next \in Nat
         /\ f.kind = "pop" => f.type \in AllPools /\ f.left \in Seq(Handles)
         /\ f.kind = "popall" => f.type \in AllPools /\ f.next \in Nat
BY DEF FrameSet

(* The innermost call.                                                     *)
LEMMA TopIs ==
  ASSUME Typed, stack # << >>
  PROVE  /\ Top = stack[Len(stack)] /\ Top \in FrameSet
         /\ Len(stack) \in Nat /\ Len(stack) > 0 /\ Len(stack) \in 1 .. Len(stack)
BY PopFacts, SeqFacts DEF Typed, Top

LEMMA StackIs ==
  ASSUME Typed
  PROVE  /\ stack \in Seq(FrameSet) /\ Len(stack) \in Nat /\ DOMAIN stack = 1 .. Len(stack)
         /\ \A k \in 1 .. Len(stack) : stack[k] \in FrameSet
         /\ stack = << >> <=> Len(stack) = 0
BY SeqFacts DEF Typed

(* A pool, by position.                                                    *)
LEMMA PoolIs ==
  ASSUME Typed, NEW t \in AllPools
  PROVE  /\ own[t] \in Seq(Handles) /\ Len(own[t]) \in Nat /\ ToSet(own[t]) \subseteq Handles
         /\ DOMAIN own[t] = 1 .. Len(own[t])
         /\ ToSet(own[t]) = {own[t][n] : n \in 1 .. Len(own[t])}
         /\ \A m, n \in 1 .. Len(own[t]) : own[t][m] = own[t][n] => m = n
         /\ own[t] = << >> <=> Len(own[t]) = 0
         /\ own[t] = << >> <=> ToSet(own[t]) = {}
<1>1. own[t] \in Seq(Handles) /\ IsInjective(own[t])
  BY DEF Typed
<1>2. Len(own[t]) \in Nat /\ (own[t] = << >> <=> Len(own[t]) = 0) /\ DOMAIN own[t] = 1 .. Len(own[t])
  BY <1>1
<1>3. ToSet(own[t]) = {own[t][n] : n \in 1 .. Len(own[t])} /\ ToSet(own[t]) \subseteq Handles
      /\ \A m, n \in 1 .. Len(own[t]) : own[t][m] = own[t][n] => m = n
  BY <1>1, ElementsIs
<1>4. own[t] = << >> <=> ToSet(own[t]) = {}
  <2>1. Len(own[t]) = 0 => ToSet(own[t]) = {}
    BY <1>2, <1>3
  <2>2. Len(own[t]) # 0 => own[t][1] \in ToSet(own[t])
    BY <1>2, <1>3
  <2> QED BY <1>2, <2>1, <2>2
<1> QED BY <1>1, <1>2, <1>3, <1>4

LEMMA InPool ==
  ASSUME Typed, NEW t \in AllPools, NEW n \in 1 .. Len(own[t])
  PROVE  own[t][n] \in Handles /\ Has(t, own[t][n])
<1>1. ToSet(own[t]) = {own[t][m] : m \in 1 .. Len(own[t])} /\ ToSet(own[t]) \subseteq Handles
  BY PoolIs
<1>2. own[t][n] \in ToSet(own[t])
  BY <1>1
<1> QED BY <1>1, <1>2 DEF Has

(* The elements whose destruction is being published.                      *)
LEMMA LeavingIs ==
  ASSUME Typed, Whole, NEW t \in AllPools, NEW id
  PROVE  Leaving(t, id) <=> Going(t, id)
<1>1. ASSUME NEW k \in 1 .. Len(stack), stack[k].kind = "popall", stack[k].type = t
      PROVE  id \in ToSet(SubSeq(own[t], stack[k].next, Len(own[t])))
               <=> \E n \in stack[k].next .. Len(own[t]) : own[t][n] = id
  <2>1. stack[k].next \in Nat /\ 0 < stack[k].next /\ stack[k].next <= Len(own[t])
    BY <1>1, StackIs, FrameTypes DEF Whole, FrameWhole
  <2>2. stack[k].next \in 1 .. Len(own[t]) /\ Len(own[t]) \in stack[k].next .. Len(own[t])
    BY <2>1, PoolIs
  <2> DEFINE s == own[t]
             i == stack[k].next
             j == Len(s)
  <2>3. s \in Seq(Handles) /\ IsInjective(s) /\ i \in 1 .. Len(s) /\ j \in i .. Len(s)
    BY <2>2 DEF Typed
  <2> HIDE DEF s, i, j
  <2>4. PICK u : u = SubSeq(s, i, j)
    OBVIOUS
  <2>5. ToSet(u) = Slice(s, i, j)
    BY ONLY ZenonT(60), <2>3, <2>4, PartFacts
  <2> QED BY <2>4, <2>5 DEF s, i, j, Slice
<1> QED BY <1>1, StackIs DEF Leaving, Telling, Announced, Going

(* An arrangement of a pool has the elements of the pool.                  *)
LEMMA ArrangedFacts ==
  ASSUME Typed, NEW t \in AllPools, NEW seq \in Arrangements(t)
  PROVE  /\ seq \in Seq(Handles) /\ IsInjective(seq) /\ Len(seq) = Len(own[t])
         /\ ToSet(seq) = ToSet(own[t])
<1> DEFINE n == Len(own[t])
           E == ToSet(own[t])
<1>1. /\ n \in Nat /\ DOMAIN own[t] = 1 .. n /\ E \subseteq Handles
      /\ E = {own[t][i] : i \in 1 .. n}
      /\ \A i, j \in 1 .. n : own[t][i] = own[t][j] => i = j
  BY PoolIs
<1>2. seq \in [1 .. n -> E] /\ IsInjective(seq)
  BY <1>1 DEF Arrangements
<1>3. seq \in Seq(Handles) /\ Len(seq) = n /\ DOMAIN seq = 1 .. n
  <2>1. seq \in [1 .. n -> Handles]
    BY <1>1, <1>2
  <2>2. seq \in Seq(Handles)
    BY <1>1, <2>1, SeqDef
  <2> QED BY <1>1, <1>2, <2>2
<1>4. ToSet(seq) \subseteq E
  BY <1>2, <1>3 DEF ToSet
<1>5. ASSUME NEW x \in E, x \notin ToSet(seq) PROVE FALSE
  <2>1. IsFiniteSet(1 .. n) /\ Cardinality(1 .. n) = n
    BY <1>1, FS_Interval
  <2>2. PICK m \in 1 .. n : own[t][m] = x
    BY <1>1
  <2>3. own[t] \in Bijection(1 .. n, E)
    BY <1>1 DEF Bijection, Injection, Surjection, IsInjective, Typed
  <2>4. IsFiniteSet(E) /\ Cardinality(E) = n
    <3> HIDE DEF E, n
    <3>1. ExistsBijection(1 .. n, E)
      BY <2>3 DEF ExistsBijection
    <3> QED BY <2>1, <3>1, FS_Bijection
  <2>5. IsFiniteSet(E \ {x}) /\ Cardinality(E \ {x}) < n
    <3> HIDE DEF E, n
    <3>1. IsFiniteSet(E \ {x}) /\ Cardinality(E \ {x}) = n - 1
      BY <2>4, <1>5, FS_RemoveElement
    <3> QED BY <3>1, <1>1
  <2>6. seq \in [1 .. n -> E \ {x}]
    BY <1>2, <1>3, <1>5 DEF ToSet
  <2>7. \E i, j \in 1 .. n : i # j /\ seq[i] = seq[j]
    BY <2>1, <2>5, <2>6, FS_PigeonHole
  <2> QED BY <2>7, <1>2, <1>3 DEF IsInjective
<1> QED BY <1>2, <1>3, <1>4, <1>5

-------------------------------------------------------------------------------
(* Calls that begin while the program has control.                         *)

(* One more listener is told, of an element nobody was told of.            *)
LEMMA ToldOneMore ==
  ASSUME Typed, Told, own' = own,
         NEW t0 \in AllPools, NEW id0 \in Handles, Has(t0, id0), ~ Going(t0, id0),
         \A t \in AllPools, id \in Handles :
           Going(t, id)' <=> Going(t, id) \/ (t = t0 /\ id = id0),
         told' = [told EXCEPT ![t0][id0] = @ + 1]
  PROVE  Told'
<1>1. told \in [AllPools -> [Handles -> Nat]]
  BY DEF Typed
<1>2. \A t \in AllPools, id \in Handles :
        told'[t][id] = IF t = t0 /\ id = id0 THEN told[t][id] + 1 ELSE told[t][id]
  BY <1>1
<1>3. told[t0][id0] = 0
  BY DEF Told, ToldSound
<1>4. ASSUME NEW t \in AllPools, NEW id \in Handles PROVE ToldSound(t, id)'
  <2>1. Has(t, id)' <=> Has(t, id)
    BY DEF Has
  <2>2. CASE t = t0 /\ id = id0
    BY <1>2, <1>3, <2>2 DEF ToldSound
  <2>3. CASE ~ (t = t0 /\ id = id0)
    <3>1. ToldSound(t, id) /\ (Going(t, id)' <=> Going(t, id))
      BY <2>3 DEF Told
    <3>2. told'[t][id] = told[t][id]
      BY <1>2, <2>3
    <3> QED BY <2>1, <3>1, <3>2 DEF ToldSound
  <2> QED BY <2>2, <2>3
<1> QED BY <1>4 DEF Told

(* No listener more is told, and nothing goes.                             *)
LEMMA ToldTheSame ==
  ASSUME Told, told' = told,
         \A t \in AllPools, id \in Handles :
           (Has(t, id)' <=> Has(t, id)) /\ (Going(t, id)' <=> Going(t, id))
  PROVE  Told'
BY DEF Told, ToldSound

Tells(f) == f.kind \in {"pop", "popall"}

(* What a call must fulfil that the program may make.                      *)
Callable(g) ==
  /\ FrameWhole(g)
  /\ g.kind \in {"range", "clear"} => stack = << >>
  /\ Tells(g) => \A j \in 1 .. Len(stack) :
                   Telling(j) /\ stack[j].type = g.type
                     => g.kind = "pop" /\ stack[j].kind = "pop"
                        /\ LoneOther(stack[j], Head(g.left)) /\ LoneOther(g, Head(stack[j].left))
  /\ g.kind = "destroy" => /\ g.next = PoolCount
                           /\ \A j \in 1 .. Len(stack) :
                                Telling(j) /\ Has(stack[j].type, g.id) => LoneOther(stack[j], g.id)
  /\ g.kind = "range" => g.pool = 1 /\ g.from = 1
  /\ g.kind = "clear" => g.next = PoolCount

(* What is to be shown of the removals of the next state.                  *)
LEMMA ApartIs ==
  ASSUME \A j, k \in 1 .. Len(stack') :
           j # k /\ Tells(stack'[j]) /\ Tells(stack'[k]) /\ stack'[j].type = stack'[k].type
             => stack'[k].kind = "pop" /\ LoneOther(stack'[j], Head(stack'[k].left))
  PROVE  Apart'
BY DEF Apart, Telling, Tells

LEMMA CallSound ==
  ASSUME PoolCount \in Nat, Inv, UserCode, NEW g \in FrameSet, Callable(g),
         stack' \in Seq(FrameSet), Pushed(stack, g, stack'),
         own' = own, alive' = alive, told' \in [AllPools -> [Handles -> Nat]]
  PROVE  Typed' /\ Whole' /\ Nested' /\ Apart' /\ Cleared' /\ Walked' /\ Valid'
<1> USE DEF Inv
<1>1. /\ Len(stack) \in Nat /\ Len(stack') = Len(stack) + 1 /\ stack'[Len(stack) + 1] = g
      /\ \A k \in 1 .. Len(stack) : stack'[k] = stack[k]
  BY StackIs DEF Pushed
<1>2. \A k \in 1 .. Len(stack) : stack[k].kind \notin {"pop", "popall"} => k < Len(stack)
  BY <1>1, TopIs, StackIs DEF UserCode, Telling
<1>3. Typed'
  BY DEF Typed
<1>4. Whole'
  <2> SUFFICES ASSUME NEW k \in 1 .. Len(stack') PROVE FrameWhole(stack[k])'
    BY DEF Whole
  <2>1. FrameWhole(stack'[k])
    BY <1>1 DEF Whole, Callable
  <2> QED BY <2>1 DEF FrameWhole
<1>5. Nested'
  <2> SUFFICES ASSUME NEW k \in 1 .. Len(stack')
               PROVE  /\ stack'[k].kind \in {"range", "clear"} => k = 1
                      /\ k < Len(stack') => Above(stack'[k], stack'[k + 1])
    BY DEF Nested
  <2>1. CASE k = Len(stack) + 1
    <3>1. stack = << >> => k = 1
      BY <1>1, <2>1, StackIs
    <3> QED BY <1>1, <2>1, <3>1 DEF Callable
  <2>2. CASE k \in 1 .. Len(stack) /\ k < Len(stack)
    BY <1>1, <2>2 DEF Nested
  <2>3. CASE k \in 1 .. Len(stack) /\ ~ (k < Len(stack))
    <3>1. stack'[k].kind \in {"pop", "popall"}
      BY <1>1, <1>2, <2>3
    <3> QED BY <3>1 DEF Above
  <2> QED BY <1>1, <2>1, <2>2, <2>3
<1>6. Apart'
  <2> SUFFICES ASSUME NEW j \in 1 .. Len(stack'), NEW k \in 1 .. Len(stack'), j # k,
                      Tells(stack'[j]), Tells(stack'[k]), stack'[j].type = stack'[k].type
               PROVE  stack'[k].kind = "pop" /\ LoneOther(stack'[j], Head(stack'[k].left))
    BY ApartIs
  <2>1. CASE j \in 1 .. Len(stack) /\ k \in 1 .. Len(stack)
    BY <1>1, <2>1 DEF Apart, Telling, Tells
  <2>2. CASE j \in 1 .. Len(stack) /\ k = Len(stack) + 1
    BY <1>1, <2>2 DEF Callable, Telling, Tells
  <2>3. CASE j = Len(stack) + 1 /\ k \in 1 .. Len(stack)
    BY <1>1, <2>3 DEF Callable, Telling, Tells
  <2> QED BY <1>1, <2>1, <2>2, <2>3
<1>7. Cleared'
  <2> SUFFICES ASSUME NEW j \in 1 .. Len(stack'), NEW k \in 1 .. Len(stack'), j < k,
                      Tells(stack'[j]), stack'[k].kind = "destroy",
                      Has(stack'[j].type, stack'[k].id)
               PROVE  LoneOther(stack'[j], stack'[k].id)
    BY DEF Cleared, Telling, Tells, Has
  <2>1. CASE k \in 1 .. Len(stack)
    BY <1>1, <2>1 DEF Cleared, Telling, Tells
  <2>2. CASE k = Len(stack) + 1
    BY <1>1, <2>2 DEF Callable, Telling, Tells
  <2> QED BY <1>1, <2>1, <2>2
<1>8. Walked'
  <2> SUFFICES ASSUME NEW k \in 1 .. Len(stack')
               PROVE  /\ stack'[k].kind = "destroy" => DestroyWalked(k)'
                      /\ stack'[k].kind = "range" => RangeWalked(k)'
                      /\ stack'[k].kind = "clear" => ClearWalked(k)'
    BY DEF Walked
  <2>1. CASE k \in 1 .. Len(stack) /\ stack[k].kind \notin {"pop", "popall"}
    <3>1. k < Len(stack) /\ k < Len(stack') /\ stack'[k] = stack[k] /\ stack'[k + 1] = stack[k + 1]
      BY <1>1, <1>2, <2>1
    <3>2. /\ stack[k].kind = "destroy" => DestroyWalked(k)
          /\ stack[k].kind = "range" => RangeWalked(k)
          /\ stack[k].kind = "clear" => ClearWalked(k)
      BY <2>1 DEF Walked
    <3> QED BY <3>1, <3>2 DEF DestroyWalked, RangeWalked, ClearWalked, Has
  <2>2. CASE k \in 1 .. Len(stack) /\ stack[k].kind \in {"pop", "popall"}
    BY <1>1, <2>2
  <2>3. CASE k = Len(stack) + 1
    <3>1. /\ stack'[k] = g
          /\ g.kind \in {"destroy", "clear"} => g.next = PoolCount
          /\ g.kind = "range" => g.pool = 1 /\ g.from = 1
      BY <1>1, <2>3 DEF Callable
    <3>2. \A t \in AllPools : t <= PoolCount /\ (t > 1 \/ t = 1)
      BY DEF AllPools
    <3>3. g.kind = "range" => \A n \in 1 .. Len(g.ids) : n >= 1
      BY FrameTypes
    <3> QED BY <3>1, <3>2, <3>3 DEF DestroyWalked, RangeWalked, ClearWalked
  <2> QED BY <1>1, <2>1, <2>2, <2>3
<1>9. Valid'
  BY DEF Valid
<1> QED BY <1>3, <1>4, <1>5, <1>6, <1>7, <1>8, <1>9

(* A call that tells nobody yet.                                           *)
LEMMA SilentCallInv ==
  ASSUME PoolCount \in Nat, Inv, UserCode, NEW g \in FrameSet, Callable(g), ~ Tells(g),
         stack' \in Seq(FrameSet), Pushed(stack, g, stack'),
         own' = own, alive' = alive, told' = told
  PROVE  Inv'
<1>1. Typed' /\ Whole' /\ Nested' /\ Apart' /\ Cleared' /\ Walked' /\ Valid'
  BY CallSound DEF Inv, Typed
<1>2. /\ Len(stack) \in Nat /\ Len(stack') = Len(stack) + 1 /\ stack'[Len(stack) + 1] = g
      /\ \A k \in 1 .. Len(stack) : stack'[k] = stack[k]
  BY StackIs DEF Pushed, Inv
<1>3. ASSUME NEW t \in AllPools, NEW id \in Handles
      PROVE  (Has(t, id)' <=> Has(t, id)) /\ (Going(t, id)' <=> Going(t, id))
  <2>1. ~ Announced(g, t, id)
    BY DEF Announced, Tells
  <2>2. Going(t, id)' <=> \E k \in 1 .. Len(stack') : Announced(stack'[k], t, id)
    BY DEF Going, Announced
  <2>3. Going(t, id)' <=> Going(t, id)
    BY <1>2, <2>1, <2>2 DEF Going
  <2> QED BY <2>3 DEF Has
<1>4. Told'
  BY <1>3, ToldTheSame DEF Inv
<1> QED BY <1>1, <1>4 DEF Inv

(* A call that tells a listener at once.                                   *)
LEMMA TellingCallInv ==
  ASSUME PoolCount \in Nat, Inv, UserCode, NEW g \in FrameSet, Callable(g), Tells(g),
         NEW id0 \in Handles, Has(g.type, id0),
         \A id \in Handles : Announced(g, g.type, id) <=> id = id0,
         stack' \in Seq(FrameSet), Pushed(stack, g, stack'),
         own' = own, alive' = alive, Tell(g.type, id0)
  PROVE  Inv'
<1>0. g.type \in AllPools
  BY FrameTypes DEF Tells
<1>1. told' = [told EXCEPT ![g.type][id0] = @ + 1] /\ told' \in [AllPools -> [Handles -> Nat]]
  BY <1>0 DEF Inv, Typed, Tell
<1>2. Typed' /\ Whole' /\ Nested' /\ Apart' /\ Cleared' /\ Walked' /\ Valid'
  BY <1>1, CallSound
<1>3. /\ Len(stack) \in Nat /\ Len(stack') = Len(stack) + 1 /\ stack'[Len(stack) + 1] = g
      /\ \A k \in 1 .. Len(stack) : stack'[k] = stack[k]
  BY StackIs DEF Pushed, Inv
<1>4. ~ Going(g.type, id0)
  <2> SUFFICES ASSUME NEW k \in 1 .. Len(stack), Announced(stack[k], g.type, id0)
               PROVE  FALSE
    BY DEF Going
  <2>1. /\ Telling(k) /\ stack[k].type = g.type
        /\ stack[k].kind = "pop" => Head(stack[k].left) = id0
    BY DEF Announced, Telling
  <2>2. g.kind = "pop" /\ stack[k].kind = "pop" /\ LoneOther(stack[k], Head(g.left))
    BY <2>1 DEF Callable
  <2>3. Head(g.left) = id0
    BY <2>2 DEF Announced
  <2> QED BY <2>1, <2>2, <2>3 DEF LoneOther
<1>5. ASSUME NEW t \in AllPools, NEW id \in Handles
      PROVE  Going(t, id)' <=> Going(t, id) \/ (t = g.type /\ id = id0)
  <2>1. Announced(g, t, id) <=> t = g.type /\ id = id0
    BY DEF Announced
  <2>2. Going(t, id)' <=> \E k \in 1 .. Len(stack') : Announced(stack'[k], t, id)
    BY DEF Going, Announced
  <2> QED BY <1>3, <2>1, <2>2 DEF Going
<1>6. Told'
  BY <1>0, <1>1, <1>4, <1>5, ToldOneMore DEF Inv
<1> QED BY <1>2, <1>6 DEF Inv

(* With no call in progress the parts on the calls say nothing.            *)
LEMMA NoCalls ==
  ASSUME Len(stack) = 0
  PROVE  /\ Whole /\ Nested /\ Apart /\ Cleared /\ Walked
         /\ \A t, id : ~ Going(t, id)
BY DEF Whole, Nested, Apart, Cleared, Walked, Going

LEMMA CreateInv == ASSUME Inv, NEW id \in Handles, Create(id) PROVE Inv'
<1> USE DEF Inv
<1>1. /\ stack = << >> /\ alive' = alive \cup {id}
      /\ own' = own /\ stack' = stack /\ told' = told
  BY DEF Create, Outside
<1>2. Len(stack) = 0 /\ Len(stack') = 0
  BY <1>1
<1>3. Typed' /\ Valid'
  BY <1>1 DEF Typed, Valid
<1>4. Whole' /\ Nested' /\ Apart' /\ Cleared' /\ Walked'
  BY <1>2 DEF Whole, Nested, Apart, Cleared, Walked
<1>5. Told'
  BY <1>1, <1>2 DEF Told, ToldSound, Has, Going
<1> QED BY <1>3, <1>4, <1>5

LEMMA EmplaceInv ==
  ASSUME Inv, NEW t \in AllPools, NEW id \in Handles, Emplace(t, id)
  PROVE  Inv'
<1> USE DEF Inv
<1>1. /\ stack = << >> /\ stack' = stack /\ alive' = alive /\ id \in alive /\ ~ Has(t, id)
      /\ own' = [own EXCEPT ![t] = Append(own[t], id)]
      /\ told' = [told EXCEPT ![t][id] = 0]
  BY DEF Emplace, Outside
<1>2. Len(stack) = 0 /\ Len(stack') = 0
  BY <1>1
<1>3. /\ own'[t] \in Seq(Handles) /\ IsInjective(own'[t]) /\ ToSet(own'[t]) = ToSet(own[t]) \cup {id}
      /\ \A u \in AllPools : u # t => own'[u] = own[u]
      /\ DOMAIN own' = AllPools
  <2>1. own[t] \in Seq(Handles) /\ IsInjective(own[t]) /\ id \notin ToSet(own[t])
        /\ own \in [AllPools -> Seq(Handles)]
    BY <1>1 DEF Typed, Has
  <2>2. own'[t] = Append(own[t], id)
    BY <1>1, <2>1
  <2> QED BY <1>1, <2>1, <2>2, PushElements, PushInjective, PushFacts
<1>4. \A u \in AllPools : own'[u] \in Seq(Handles) /\ IsInjective(own'[u])
  BY <1>3 DEF Typed
<1>5. Typed'
  <2>1. told' \in [AllPools -> [Handles -> Nat]]
    BY <1>1 DEF Typed
  <2>2. own' \in [AllPools -> Seq(Handles)]
    BY <1>1, <1>3, <1>4 DEF Typed
  <2> QED BY <1>1, <1>4, <2>1, <2>2 DEF Typed
<1>6. Valid'
  BY <1>1, <1>3 DEF Valid
<1>7. Whole' /\ Nested' /\ Apart' /\ Cleared' /\ Walked'
  BY <1>2 DEF Whole, Nested, Apart, Cleared, Walked
<1>8. Told'
  <2> SUFFICES ASSUME NEW u \in AllPools, NEW x \in Handles PROVE ToldSound(u, x)'
    BY DEF Told
  <2>1. ~ Going(u, x) /\ ~ Going(u, x)'
    BY <1>2 DEF Going
  <2>2. Has(u, x)' <=> Has(u, x) \/ (u = t /\ x = id)
    BY <1>3 DEF Has
  <2>3. told'[u][x] = IF u = t /\ x = id THEN 0 ELSE told[u][x]
    BY <1>1 DEF Typed
  <2> QED BY <2>1, <2>2, <2>3 DEF Told, ToldSound
<1> QED BY <1>5, <1>6, <1>7, <1>8

(* A removal that nothing below excludes.                                  *)
LEMMA RemovableIs ==
  ASSUME Inv, NEW t \in AllPools, NEW id \in Handles, Removable(t, id),
         NEW j \in 1 .. Len(stack), Telling(j), stack[j].type = t
  PROVE  stack[j].kind = "pop" /\ LoneOther(stack[j], id)
<1>1. DOMAIN stack = 1 .. Len(stack) /\ stack[j] \in FrameSet
  BY StackIs DEF Inv
<1>2. stack[j].kind = "pop" /\ ~ (Len(stack[j].left) > 1)
  BY <1>1 DEF Removable, Untouchable, Telling
<1>3. stack[j].left \in Seq(Handles) /\ stack[j].left # << >>
  BY <1>1, <1>2, FrameTypes DEF Inv, Whole, FrameWhole
<1>4. Len(stack[j].left) = 1
  <2>1. Len(stack[j].left) \in Nat /\ Len(stack[j].left) > 0
    BY <1>3, SeqFacts
  <2>2. \A n \in Nat : n > 0 /\ ~ (n > 1) => n = 1
    OBVIOUS
  <2> QED BY <1>2, <2>1, <2>2
<1>5. Head(stack[j].left) # id
  BY <1>1, <1>2 DEF Removable, Frames
<1> QED BY <1>2, <1>4, <1>5 DEF LoneOther

(* The frame of the erasure of one element.                                *)
LEMMA LoneFrame ==
  ASSUME NEW t \in AllPools, NEW id \in Handles, NEW g, g = PopFrame(t, << id >>)
  PROVE  /\ g \in FrameSet /\ g.kind = "pop" /\ g.type = t /\ g.left = << id >>
         /\ Tells(g) /\ Len(g.left) = 1 /\ Head(g.left) = id /\ g.left # << >>
         /\ IsInjective(g.left) /\ ToSet(g.left) = {id}
         /\ \A x : LoneOther(g, x) <=> x # id
         /\ \A x : Announced(g, t, x) <=> x = id
<1>1. g = [kind |-> "pop", type |-> t, left |-> << id >>]
  BY DEF PopFrame
<1>2. /\ g \in FrameSet /\ g.kind = "pop" /\ g.type = t /\ g.left = << id >>
  BY <1>1 DEF FrameSet
<1>3. Len(<< id >>) = 1 /\ Head(<< id >>) = id /\ << id >> # << >>
      /\ DOMAIN << id >> = {1} /\ << id >>[1] = id
  OBVIOUS
<1>4. IsInjective(<< id >>) /\ ToSet(<< id >>) = {id}
  BY <1>3 DEF IsInjective, ToSet
<1> QED BY <1>2, <1>3, <1>4 DEF Tells, LoneOther, Announced

LEMMA EraseOneInv ==
  ASSUME PoolCount \in Nat, Inv, NEW t \in AllPools, NEW id \in Handles, EraseOne(t, id)
  PROVE  Inv'
<1>1. PICK g : g = PopFrame(t, << id >>)
  OBVIOUS
<1>2. /\ UserCode /\ Has(t, id) /\ Removable(t, id) /\ stack' = Append(stack, g)
      /\ Tell(t, id) /\ own' = own /\ alive' = alive
  BY <1>1 DEF EraseOne, MayCall
<1>3. /\ g \in FrameSet /\ g.kind = "pop" /\ g.type = t /\ Tells(g) /\ Head(g.left) = id
      /\ g.left # << >> /\ IsInjective(g.left) /\ ToSet(g.left) = {id}
      /\ \A x : LoneOther(g, x) <=> x # id
      /\ \A x : Announced(g, t, x) <=> x = id
  BY <1>1, LoneFrame
<1>4. FrameWhole(g)
  BY <1>2, <1>3 DEF FrameWhole, Has
<1>5. ASSUME NEW j \in 1 .. Len(stack), Telling(j), stack[j].type = g.type
      PROVE  /\ stack[j].kind = "pop" /\ LoneOther(stack[j], Head(g.left))
             /\ LoneOther(g, Head(stack[j].left))
  BY <1>2, <1>3, <1>5, RemovableIs DEF LoneOther
<1>6. Callable(g)
  BY <1>3, <1>4, <1>5 DEF Callable
<1>7. stack' \in Seq(FrameSet) /\ Pushed(stack, g, stack')
  BY <1>2, <1>3, PushFacts DEF Inv, Typed
<1> QED BY <1>2, <1>3, <1>6, <1>7, TellingCallInv

LEMMA DestroyInv ==
  ASSUME PoolCount \in Nat, Inv, NEW id \in Handles, Destroy(id)
  PROVE  Inv'
<1>1. PICK g : g = [kind |-> "destroy", id |-> id, next |-> PoolCount]
  OBVIOUS
<1>2. /\ UserCode /\ stack' = Append(stack, g)
      /\ \A t \in AllPools : Has(t, id) => Removable(t, id)
      /\ own' = own /\ alive' = alive /\ told' = told
  BY <1>1 DEF Destroy, MayCall
<1>3. /\ g \in FrameSet /\ g.kind = "destroy" /\ g.id = id /\ g.next = PoolCount /\ ~ Tells(g)
  BY <1>1 DEF FrameSet, Tells
<1>4. ASSUME NEW j \in 1 .. Len(stack), Telling(j), Has(stack[j].type, id)
      PROVE  LoneOther(stack[j], id)
  <2>1. stack[j].type \in AllPools
    BY <1>4, StackIs, FrameTypes DEF Inv, Telling
  <2> QED BY <1>2, <1>4, <2>1, RemovableIs
<1>5. Callable(g)
  BY <1>3, <1>4 DEF Callable, FrameWhole
<1>6. stack' \in Seq(FrameSet) /\ Pushed(stack, g, stack')
  BY <1>2, <1>3, PushFacts DEF Inv, Typed
<1> QED BY <1>2, <1>3, <1>5, <1>6, SilentCallInv

(* The first call of all.                                                  *)
LEMMA FirstCall ==
  ASSUME Inv, stack = << >>, NEW g \in FrameSet, FrameWhole(g), stack' = << g >>,
         g.kind = "destroy" => g.next = PoolCount,
         g.kind = "range" => g.pool = 1 /\ g.from = 1,
         g.kind = "clear" => g.next = PoolCount
  PROVE  /\ UserCode /\ Callable(g) /\ stack' \in Seq(FrameSet) /\ Pushed(stack, g, stack')
         /\ Len(stack) = 0
<1>1. Len(stack) = 0 /\ Len(stack') = 1 /\ stack'[1] = g /\ stack' \in Seq(FrameSet) /\ stack' # << >>
  OBVIOUS
<1>2. Callable(g)
  BY <1>1 DEF Callable
<1> QED BY <1>1, <1>2 DEF UserCode, Pushed

LEMMA EraseRangeInv ==
  ASSUME PoolCount \in Nat, Inv, NEW t \in AllPools,
         NEW first \in 0 .. Len(own[t]), NEW last \in 0 .. Len(own[t]), EraseRange(t, first, last)
  PROVE  Inv'
<1> DEFINE part == SubSeq(own[t], last + 1, first)
           back == Reverse(part)
           g == PopFrame(t, back)
<1>1. /\ stack = << >> /\ last < first /\ stack' = << g >> /\ Tell(t, own[t][first])
      /\ own' = own /\ alive' = alive
  BY DEF EraseRange, Outside
<1>2. /\ own[t] \in Seq(Handles) /\ IsInjective(own[t]) /\ Len(own[t]) \in Nat
      /\ last + 1 \in 1 .. Len(own[t]) /\ first \in last + 1 .. Len(own[t]) /\ first \in 1 .. Len(own[t])
  BY <1>1, PoolIs DEF Inv, Typed
<1>3. /\ part \in Seq(Handles) /\ part # << >> /\ IsInjective(part)
      /\ ToSet(part) \subseteq ToSet(own[t]) /\ part[Len(part)] = own[t][first]
  <2> DEFINE s == own[t]
             i == last + 1
  <2>1. /\ s \in Seq(Handles) /\ IsInjective(s) /\ i \in 1 .. Len(s) /\ first \in i .. Len(s)
        /\ Len(s) \in Nat
    BY <1>2
  <2> HIDE DEF s, i
  <2>2. PICK u : u = SubSeq(s, i, first)
    OBVIOUS
  <2>3. /\ u \in Seq(Handles) /\ u # << >> /\ IsInjective(u)
    BY ONLY <2>1, <2>2, PartFacts
  <2>4. ToSet(u) \subseteq ToSet(s)
    BY ONLY <2>1, <2>2, PartFacts
  <2>5. u[Len(u)] = s[first]
    BY ONLY <2>1, <2>2, PartFacts
  <2> QED BY <2>2, <2>3, <2>4, <2>5 DEF s, i
<1> HIDE DEF part
<1>4. /\ back \in Seq(Handles) /\ back # << >> /\ IsInjective(back)
      /\ ToSet(back) \subseteq ToSet(own[t]) /\ Head(back) = own[t][first]
  <2>1. PICK u : u = Reverse(part)
    OBVIOUS
  <2>2. /\ u \in Seq(Handles) /\ u # << >> /\ Head(u) = part[Len(part)]
        /\ IsInjective(u) /\ ToSet(u) = ToSet(part)
    BY <1>3, <2>1, ReverseFacts
  <2> QED BY <1>3, <2>1, <2>2
<1> HIDE DEF back
<1>5. /\ g \in FrameSet /\ g.kind = "pop" /\ g.type = t /\ g.left = back /\ Tells(g)
  BY <1>4 DEF PopFrame, FrameSet, Tells
<1> HIDE DEF g
<1>6. FrameWhole(g)
  BY <1>4, <1>5 DEF FrameWhole
<1>7. own[t][first] \in Handles /\ Has(t, own[t][first])
  BY <1>2, InPool DEF Inv
<1>8. \A id \in Handles : Announced(g, g.type, id) <=> id = own[t][first]
  BY <1>4, <1>5 DEF Announced
<1>9. /\ UserCode /\ Callable(g) /\ stack' \in Seq(FrameSet) /\ Pushed(stack, g, stack')
  BY <1>1, <1>5, <1>6, FirstCall
<1> QED BY <1>1, <1>5, <1>7, <1>8, <1>9, TellingCallInv

LEMMA DestroyRangeInv ==
  ASSUME PoolCount \in Nat, Inv, NEW ids \in Seq(Handles), DestroyRange(ids)
  PROVE  Inv'
<1>1. PICK g : g = [kind |-> "range", ids |-> ids, pool |-> 1, from |-> 1]
  OBVIOUS
<1>2. /\ stack = << >> /\ IsInjective(ids) /\ stack' = << g >>
      /\ own' = own /\ alive' = alive /\ told' = told
  BY <1>1 DEF DestroyRange, Outside
<1>3. /\ g \in FrameSet /\ g.kind = "range" /\ g.ids = ids /\ g.pool = 1 /\ g.from = 1 /\ ~ Tells(g)
  BY <1>1 DEF FrameSet, Tells
<1>4. FrameWhole(g)
  BY <1>2, <1>3 DEF FrameWhole
<1> QED BY <1>2, <1>3, <1>4, FirstCall, SilentCallInv

LEMMA ClearInv == ASSUME PoolCount \in Nat, Inv, Clear PROVE Inv'
<1>1. PICK g : g = [kind |-> "clear", next |-> PoolCount]
  OBVIOUS
<1>2. /\ stack = << >> /\ stack' = << g >> /\ own' = own /\ alive' = alive /\ told' = told
  BY <1>1 DEF Clear, Outside
<1>3. /\ g \in FrameSet /\ g.kind = "clear" /\ g.next = PoolCount /\ ~ Tells(g)
  BY <1>1 DEF FrameSet, Tells
<1>4. FrameWhole(g)
  BY <1>3 DEF FrameWhole
<1> QED BY <1>2, <1>3, <1>4, FirstCall, SilentCallInv

(* The frame with which a pool is emptied.                                 *)
LEMMA WholeFrame ==
  ASSUME Typed, NEW t \in AllPools, own[t] # << >>, NEW g, g = PopAllFrame(t)
  PROVE  /\ g \in FrameSet /\ g.kind = "popall" /\ g.type = t /\ g.next = Len(own[t]) /\ Tells(g)
         /\ FrameWhole(g) /\ Last(own[t]) \in Handles /\ Has(t, Last(own[t]))
         /\ \A id \in Handles : Announced(g, t, id) <=> id = Last(own[t])
<1>1. g = [kind |-> "popall", type |-> t, next |-> Len(own[t])]
  BY DEF PopAllFrame
<1>2. Len(own[t]) \in Nat /\ Len(own[t]) > 0 /\ Last(own[t]) = own[t][Len(own[t])]
      /\ Len(own[t]) \in 1 .. Len(own[t])
  BY PoolIs DEF Last
<1>3. g \in FrameSet /\ g.kind = "popall" /\ g.type = t /\ g.next = Len(own[t]) /\ Tells(g)
  BY <1>1, <1>2 DEF FrameSet, Tells
<1>4. FrameWhole(g)
  BY <1>2, <1>3 DEF FrameWhole
<1>5. Last(own[t]) \in Handles /\ Has(t, Last(own[t]))
  BY <1>2, InPool
<1>6. \A n : n \in Len(own[t]) .. Len(own[t]) <=> n = Len(own[t])
  BY <1>2
<1> QED BY <1>2, <1>3, <1>4, <1>5, <1>6 DEF Announced

LEMMA ClearTypeInv ==
  ASSUME PoolCount \in Nat, Inv, NEW t \in AllPools, ClearType(t)
  PROVE  Inv'
<1>1. PICK g : g = PopAllFrame(t)
  OBVIOUS
<1>2. /\ stack = << >> /\ own[t] # << >> /\ stack' = << g >> /\ Tell(t, Last(own[t]))
      /\ own' = own /\ alive' = alive
  BY <1>1 DEF ClearType, Outside
<1>3. /\ g \in FrameSet /\ g.kind = "popall" /\ g.type = t /\ Tells(g) /\ FrameWhole(g)
      /\ Last(own[t]) \in Handles /\ Has(t, Last(own[t]))
      /\ \A id \in Handles : Announced(g, t, id) <=> id = Last(own[t])
  BY <1>1, <1>2, WholeFrame DEF Inv
<1>4. /\ UserCode /\ Callable(g) /\ stack' \in Seq(FrameSet) /\ Pushed(stack, g, stack')
  BY <1>2, <1>3, FirstCall
<1> QED BY <1>2, <1>3, <1>4, TellingCallInv

-------------------------------------------------------------------------------
(* The walks over the pools.                                               *)

Walks(f) == f.kind \in {"destroy", "range", "clear"}

(* What is below a walk is a listener, and a walk is on top alone.         *)
LEMMA BelowWalk ==
  ASSUME Inv, NEW n, n = Len(stack), stack # << >>, Walks(stack[n])
  PROVE  /\ n \in Nat /\ n \in 1 .. n /\ ~ Telling(n)
         /\ \A k \in 1 .. n : k # n => /\ k + 1 \in 1 .. n /\ k < n
                                       /\ Walks(stack[k]) => k + 1 # n
<1>1. n \in Nat /\ n > 0
  BY TopIs DEF Inv
<1>2. ~ Telling(n)
  BY DEF Walks, Telling
<1>3. ASSUME NEW k \in 1 .. n, k # n
      PROVE  k + 1 \in 1 .. n /\ k < n /\ (Walks(stack[k]) => k + 1 # n)
  <2>1. k + 1 \in 1 .. n /\ k < n
    BY <1>1, <1>3
  <2>2. Above(stack[k], stack[k + 1])
    BY <2>1 DEF Inv, Nested
  <2>3. ASSUME Walks(stack[k]) PROVE stack[k + 1].kind \in {"pop", "popall"}
    <3>1. \A t, ids : PopFrame(t, ids).kind = "pop"
      BY DEF PopFrame
    <3> QED BY <2>2, <2>3, <3>1 DEF Above, Walks
  <2> QED BY <2>1, <2>3 DEF Walks
<1> QED BY <1>1, <1>2, <1>3

(* What the walk does before it goes on.                                   *)
WalkStep(n, f) ==
  /\ n = Len(stack) /\ stack # << >> /\ Walks(stack[n])
  /\ f.kind = stack[n].kind /\ FrameWhole(f)
  /\ f.kind = "destroy" => f.id = stack[n].id
  /\ stack' \in Seq(FrameSet) /\ stack'[n] = f
  /\ \A k \in 1 .. n : k # n => stack'[k] = stack[k]
  /\ f.kind = "destroy" => DestroyWalked(n)'
  /\ f.kind = "range" => RangeWalked(n)'
  /\ f.kind = "clear" => ClearWalked(n)'
  /\ own' = own /\ alive' = alive

(* It visits the next pool and erases nothing.                             *)
LEMMA WalkInv ==
  ASSUME Inv, NEW n, NEW f, WalkStep(n, f), Len(stack') = n, told' = told
  PROVE  Inv'
<1> USE DEF Inv
<1>1. /\ n \in Nat /\ n \in 1 .. n /\ ~ Telling(n)
      /\ \A k \in 1 .. n : k # n => /\ k + 1 \in 1 .. n /\ k < n
                                    /\ Walks(stack[k]) => k + 1 # n
  BY BelowWalk DEF WalkStep
<1>2. /\ n = Len(stack) /\ Walks(stack[n]) /\ f.kind = stack[n].kind /\ FrameWhole(f)
      /\ f.kind = "destroy" => f.id = stack[n].id
      /\ stack' \in Seq(FrameSet) /\ stack'[n] = f
      /\ \A k \in 1 .. n : k # n => stack'[k] = stack[k]
      /\ own' = own /\ alive' = alive
  BY DEF WalkStep
<1>3. Typed'
  BY <1>2 DEF Typed
<1>4. Whole'
  <2> SUFFICES ASSUME NEW k \in 1 .. n PROVE FrameWhole(stack[k])'
    BY DEF Whole
  <2>1. FrameWhole(stack'[k])
    BY <1>2 DEF Whole
  <2> QED BY <1>2, <2>1 DEF FrameWhole
<1>5. Nested'
  <2> SUFFICES ASSUME NEW k \in 1 .. n
               PROVE  /\ stack'[k].kind \in {"range", "clear"} => k = 1
                      /\ k < n => Above(stack'[k], stack'[k + 1])
    BY DEF Nested
  <2>1. stack'[k].kind = stack[k].kind
    BY <1>2
  <2>2. CASE k = n
    BY <1>1, <1>2, <2>1, <2>2 DEF Nested
  <2>3. CASE k # n /\ k + 1 # n
    BY <1>1, <1>2, <2>3 DEF Nested
  <2>4. CASE k # n /\ k + 1 = n
    BY <1>1, <1>2, <2>1, <2>4 DEF Nested, Walks, Above
  <2> QED BY <2>2, <2>3, <2>4
<1>6. Apart'
  BY <1>2 DEF Apart, Telling, Walks
<1>7. Cleared'
  BY <1>2 DEF Cleared, Telling, Walks, Has
<1>8. Walked'
  <2> SUFFICES ASSUME NEW k \in 1 .. n
               PROVE  /\ stack'[k].kind = "destroy" => DestroyWalked(k)'
                      /\ stack'[k].kind = "range" => RangeWalked(k)'
                      /\ stack'[k].kind = "clear" => ClearWalked(k)'
    BY DEF Walked
  <2>1. CASE k = n
    BY <1>2, <2>1 DEF WalkStep
  <2>2. CASE k # n /\ Walks(stack[k])
    <3>1. /\ k < n /\ stack'[k] = stack[k] /\ stack'[k + 1] = stack[k + 1]
      BY <1>1, <1>2, <2>2
    <3>2. /\ stack[k].kind = "destroy" => DestroyWalked(k)
          /\ stack[k].kind = "range" => RangeWalked(k)
          /\ stack[k].kind = "clear" => ClearWalked(k)
      BY <1>2 DEF Walked
    <3> QED BY <1>2, <3>1, <3>2 DEF DestroyWalked, RangeWalked, ClearWalked, Has
  <2>3. CASE k # n /\ ~ Walks(stack[k])
    BY <1>2, <2>3 DEF Walks
  <2> QED BY <2>1, <2>2, <2>3
<1>9. Valid'
  BY <1>2 DEF Valid
<1>10. ASSUME NEW t \in AllPools, NEW id \in Handles
       PROVE  (Has(t, id)' <=> Has(t, id)) /\ (Going(t, id)' <=> Going(t, id))
  <2>1. ~ Announced(f, t, id) /\ ~ Announced(stack[n], t, id)
    BY <1>2 DEF Announced, Walks
  <2>2. Going(t, id)' <=> \E k \in 1 .. n : Announced(stack'[k], t, id)
    BY <1>2 DEF Going, Announced
  <2>3. Going(t, id)' <=> Going(t, id)
    BY <1>2, <2>1, <2>2 DEF Going
  <2> QED BY <1>2, <2>3 DEF Has
<1>11. Told'
  BY <1>10, ToldTheSame
<1> QED BY <1>3, <1>4, <1>5, <1>6, <1>7, <1>8, <1>9, <1>11

(* It erases, and a listener is told.                                      *)
LEMMA WalkTellsInv ==
  ASSUME Inv, NEW n, NEW f, WalkStep(n, f),
         NEW g \in FrameSet, Callable(g), Tells(g), Above(f, g),
         Len(stack') = n + 1, stack'[n + 1] = g,
         NEW id0 \in Handles, Has(g.type, id0),
         \A id \in Handles : Announced(g, g.type, id) <=> id = id0,
         Tell(g.type, id0)
  PROVE  Inv'
<1> USE DEF Inv
<1>1. /\ n \in Nat /\ n \in 1 .. n /\ ~ Telling(n)
      /\ \A k \in 1 .. n : k # n => /\ k + 1 \in 1 .. n /\ k < n
                                    /\ Walks(stack[k]) => k + 1 # n
  BY BelowWalk DEF WalkStep
<1>2. /\ n = Len(stack) /\ Walks(stack[n]) /\ f.kind = stack[n].kind /\ FrameWhole(f)
      /\ f.kind = "destroy" => f.id = stack[n].id
      /\ stack' \in Seq(FrameSet) /\ stack'[n] = f
      /\ \A k \in 1 .. n : k # n => stack'[k] = stack[k]
      /\ own' = own /\ alive' = alive
  BY DEF WalkStep
<1>3. g.type \in AllPools /\ told' = [told EXCEPT ![g.type][id0] = @ + 1]
      /\ \A k \in 1 .. n + 1 : k \in 1 .. n \/ k = n + 1
  BY <1>1, FrameTypes DEF Tells, Tell
<1>4. Typed'
  BY <1>2, <1>3 DEF Typed
<1>5. Whole'
  <2> SUFFICES ASSUME NEW k \in 1 .. n + 1 PROVE FrameWhole(stack[k])'
    BY DEF Whole
  <2>1. FrameWhole(stack'[k])
    BY <1>2, <1>3 DEF Whole, Callable
  <2> QED BY <1>2, <2>1 DEF FrameWhole
<1>6. Nested'
  <2> SUFFICES ASSUME NEW k \in 1 .. n + 1
               PROVE  /\ stack'[k].kind \in {"range", "clear"} => k = 1
                      /\ k < n + 1 => Above(stack'[k], stack'[k + 1])
    BY DEF Nested
  <2>1. CASE k = n + 1
    BY <1>1, <2>1 DEF Tells
  <2>2. CASE k = n
    BY <1>1, <1>2, <2>2 DEF Nested
  <2>3. CASE k \in 1 .. n /\ k # n /\ k + 1 # n
    BY <1>1, <1>2, <2>3 DEF Nested
  <2>4. CASE k \in 1 .. n /\ k # n /\ k + 1 = n
    BY <1>1, <1>2, <2>4 DEF Nested, Walks, Above
  <2> QED BY <1>3, <2>1, <2>2, <2>3, <2>4
<1>7. Apart'
  <2> SUFFICES ASSUME NEW j \in 1 .. n + 1, NEW k \in 1 .. n + 1, j # k,
                      Tells(stack'[j]), Tells(stack'[k]), stack'[j].type = stack'[k].type
               PROVE  stack'[k].kind = "pop" /\ LoneOther(stack'[j], Head(stack'[k].left))
    BY DEF Apart, Telling, Tells
  <2>1. j # n /\ k # n
    BY <1>2 DEF Tells, Walks
  <2>2. CASE j \in 1 .. n /\ k \in 1 .. n
    BY <1>2, <2>1, <2>2 DEF Apart, Telling, Tells
  <2>3. CASE j \in 1 .. n /\ k = n + 1
    BY <1>2, <2>1, <2>3 DEF Callable, Telling, Tells
  <2>4. CASE j = n + 1 /\ k \in 1 .. n
    BY <1>2, <2>1, <2>4 DEF Callable, Telling, Tells
  <2> QED BY <1>3, <2>2, <2>3, <2>4
<1>8. Cleared'
  <2> SUFFICES ASSUME NEW j \in 1 .. n + 1, NEW k \in 1 .. n + 1, j < k,
                      Tells(stack'[j]), stack'[k].kind = "destroy",
                      Has(stack'[j].type, stack'[k].id)
               PROVE  LoneOther(stack'[j], stack'[k].id)
    BY <1>2 DEF Cleared, Telling, Tells, Has
  <2>1. k \in 1 .. n
    BY <1>3 DEF Tells
  <2>2. j \in 1 .. n /\ j # n
    BY <1>1, <1>2, <2>1 DEF Tells, Walks
  <2>3. stack[k].kind = "destroy" /\ stack[k].id = stack'[k].id /\ stack[j] = stack'[j]
    BY <1>2, <2>1, <2>2
  <2> QED BY <1>2, <2>1, <2>2, <2>3 DEF Cleared, Telling, Tells
<1>9. Walked'
  <2> SUFFICES ASSUME NEW k \in 1 .. n + 1
               PROVE  /\ stack'[k].kind = "destroy" => DestroyWalked(k)'
                      /\ stack'[k].kind = "range" => RangeWalked(k)'
                      /\ stack'[k].kind = "clear" => ClearWalked(k)'
    BY DEF Walked
  <2>1. CASE k = n
    BY <1>2, <2>1 DEF WalkStep
  <2>2. CASE k \in 1 .. n /\ k # n /\ Walks(stack[k])
    <3>1. /\ k < n /\ k < n + 1 /\ stack'[k] = stack[k] /\ stack'[k + 1] = stack[k + 1]
      BY <1>1, <1>2, <2>2
    <3>2. /\ stack[k].kind = "destroy" => DestroyWalked(k)
          /\ stack[k].kind = "range" => RangeWalked(k)
          /\ stack[k].kind = "clear" => ClearWalked(k)
      BY <1>2, <2>2 DEF Walked
    <3> QED BY <1>2, <3>1, <3>2 DEF DestroyWalked, RangeWalked, ClearWalked, Has
  <2>3. CASE k \in 1 .. n /\ k # n /\ ~ Walks(stack[k])
    BY <1>2, <2>3 DEF Walks
  <2>4. CASE k = n + 1
    BY <2>4 DEF Tells
  <2> QED BY <1>3, <2>1, <2>2, <2>3, <2>4
<1>10. Valid'
  BY <1>2 DEF Valid
<1>11. ~ Going(g.type, id0)
  <2> SUFFICES ASSUME NEW k \in 1 .. n, Announced(stack[k], g.type, id0)
               PROVE  FALSE
    BY <1>2 DEF Going
  <2>1. /\ Telling(k) /\ stack[k].type = g.type
        /\ stack[k].kind = "pop" => Head(stack[k].left) = id0
    BY DEF Announced, Telling
  <2>2. g.kind = "pop" /\ stack[k].kind = "pop" /\ LoneOther(stack[k], Head(g.left))
    BY <1>2, <2>1 DEF Callable
  <2>3. Head(g.left) = id0
    BY <2>2 DEF Announced
  <2> QED BY <2>1, <2>2, <2>3 DEF LoneOther
<1>12. ASSUME NEW t \in AllPools, NEW id \in Handles
       PROVE  Going(t, id)' <=> Going(t, id) \/ (t = g.type /\ id = id0)
  <2>1. Announced(g, t, id) <=> t = g.type /\ id = id0
    BY DEF Announced
  <2>2. ~ Announced(f, t, id) /\ ~ Announced(stack[n], t, id)
    BY <1>2 DEF Announced, Walks
  <2>3. Going(t, id)' <=> \E k \in 1 .. n + 1 : Announced(stack'[k], t, id)
    BY <1>2 DEF Going, Announced
  <2>4. n + 1 \in 1 .. n + 1 /\ \A k \in 1 .. n : k \in 1 .. n + 1
    BY <1>1
  <2> QED BY <1>2, <1>3, <2>1, <2>2, <2>3, <2>4 DEF Going
<1>13. Told'
  BY <1>2, <1>3, <1>11, <1>12, ToldOneMore
<1> QED BY <1>4, <1>5, <1>6, <1>7, <1>8, <1>9, <1>10, <1>13

(* The walk is over.                                                       *)
LEMMA ReturnInv ==
  ASSUME Inv, NEW n, n = Len(stack), stack # << >>, Walks(stack[n]),
         stack' = Below, own' = own, told' = told, alive' \subseteq Handles, Valid'
  PROVE  Inv'
<1> USE DEF Inv
<1>1. /\ n \in Nat /\ n \in 1 .. n /\ ~ Telling(n)
      /\ \A k \in 1 .. n : k # n => /\ k + 1 \in 1 .. n /\ k < n
                                    /\ Walks(stack[k]) => k + 1 # n
  BY BelowWalk
<1>2. /\ stack' \in Seq(FrameSet) /\ Len(stack') = n - 1
      /\ \A k \in 1 .. n - 1 : stack'[k] = stack[k] /\ k \in 1 .. n /\ k # n
  <2>1. stack' \in Seq(FrameSet) /\ Popped(stack, stack')
    BY PopFacts DEF Typed, Below
  <2> QED BY <1>1, <2>1 DEF Popped
<1>3. Typed'
  BY <1>2 DEF Typed
<1>4. Whole'
  <2> SUFFICES ASSUME NEW k \in 1 .. n - 1 PROVE FrameWhole(stack[k])'
    BY <1>2 DEF Whole
  <2>1. FrameWhole(stack'[k])
    BY <1>2 DEF Whole
  <2> QED BY <2>1 DEF FrameWhole
<1>5. Nested'
  <2> SUFFICES ASSUME NEW k \in 1 .. n - 1
               PROVE  /\ stack'[k].kind \in {"range", "clear"} => k = 1
                      /\ k < n - 1 => Above(stack'[k], stack'[k + 1])
    BY <1>2 DEF Nested
  <2>1. k < n - 1 => k + 1 \in 1 .. n - 1
    BY <1>1
  <2> QED BY <1>1, <1>2, <2>1 DEF Nested
<1>6. Apart'
  <2> SUFFICES ASSUME NEW j \in 1 .. Len(stack'), NEW k \in 1 .. Len(stack'), j # k,
                      Tells(stack'[j]), Tells(stack'[k]), stack'[j].type = stack'[k].type
               PROVE  stack'[k].kind = "pop" /\ LoneOther(stack'[j], Head(stack'[k].left))
    BY ApartIs
  <2>1. stack'[j] = stack[j] /\ stack'[k] = stack[k] /\ j \in 1 .. n /\ k \in 1 .. n
    BY <1>2
  <2> QED BY <2>1 DEF Apart, Telling, Tells
<1>7. Cleared'
  <2> SUFFICES ASSUME NEW j \in 1 .. n - 1, NEW k \in 1 .. n - 1, j < k,
                      Tells(stack'[j]), stack'[k].kind = "destroy",
                      Has(stack'[j].type, stack'[k].id)
               PROVE  LoneOther(stack'[j], stack'[k].id)
    BY <1>2 DEF Cleared, Telling, Tells, Has
  <2>1. stack'[j] = stack[j] /\ stack'[k] = stack[k] /\ j \in 1 .. n /\ k \in 1 .. n
    BY <1>2
  <2> QED BY <2>1 DEF Cleared, Telling, Tells
<1>8. Walked'
  <2> SUFFICES ASSUME NEW k \in 1 .. n - 1, Walks(stack'[k])
               PROVE  /\ stack'[k].kind = "destroy" => DestroyWalked(k)'
                      /\ stack'[k].kind = "range" => RangeWalked(k)'
                      /\ stack'[k].kind = "clear" => ClearWalked(k)'
    BY <1>2 DEF Walked, Walks
  <2>1. stack'[k] = stack[k] /\ k < n /\ k + 1 # n
    BY <1>1, <1>2
  <2>2. k < n - 1 /\ stack'[k + 1] = stack[k + 1]
    <3>1. k < n - 1 /\ k + 1 \in 1 .. n - 1
      BY <1>1, <2>1
    <3> QED BY <1>2, <3>1
  <2>3. /\ stack[k].kind = "destroy" => DestroyWalked(k)
        /\ stack[k].kind = "range" => RangeWalked(k)
        /\ stack[k].kind = "clear" => ClearWalked(k)
    BY <1>2 DEF Walked
  <2> QED BY <1>2, <2>1, <2>2, <2>3 DEF DestroyWalked, RangeWalked, ClearWalked, Has
<1>9. ASSUME NEW t \in AllPools, NEW id \in Handles
      PROVE  (Has(t, id)' <=> Has(t, id)) /\ (Going(t, id)' <=> Going(t, id))
  <2>1. ~ Announced(stack[n], t, id)
    BY DEF Announced, Walks
  <2>2. Going(t, id)' <=> \E k \in 1 .. n - 1 : Announced(stack'[k], t, id)
    BY <1>2 DEF Going, Announced
  <2>3. \A k \in 1 .. n : k = n \/ k \in 1 .. n - 1
    BY <1>1
  <2>4. Going(t, id)' <=> Going(t, id)
    BY <1>2, <2>1, <2>2, <2>3 DEF Going
  <2> QED BY <2>4 DEF Has
<1>10. Told'
  BY <1>9, ToldTheSame
<1> QED BY <1>3, <1>4, <1>5, <1>6, <1>7, <1>8, <1>10

(* The new innermost calls, when the walk goes on by f or by f and g.      *)
LEMMA GoesOnIs ==
  ASSUME Typed, stack # << >>, NEW f \in FrameSet
  PROVE  LET n == Len(stack) IN
    /\ stack' = Append(Below, f)
         => /\ stack' \in Seq(FrameSet) /\ Len(stack') = n /\ stack'[n] = f
            /\ \A k \in 1 .. n : k # n => stack'[k] = stack[k]
    /\ \A g \in FrameSet : stack' = Below \o << f, g >>
         => /\ stack' \in Seq(FrameSet) /\ Len(stack') = n + 1 /\ stack'[n] = f /\ stack'[n + 1] = g
            /\ \A k \in 1 .. n : k # n => stack'[k] = stack[k]
<1> DEFINE n == Len(stack)
<1>1. /\ Below \in Seq(FrameSet) /\ Len(Below) = n - 1 /\ n \in Nat /\ n > 0
      /\ \A k \in 1 .. n - 1 : Below[k] = stack[k]
  BY ZenonT(60), PopFacts, TopIs DEF Typed, Below, Popped
<1>2. \A k \in 1 .. n : k # n => k \in 1 .. n - 1
  BY <1>1
<1> HIDE DEF n
<1>3. ASSUME stack' = Append(Below, f)
      PROVE  /\ stack' \in Seq(FrameSet) /\ Len(stack') = n /\ stack'[n] = f
             /\ \A k \in 1 .. n : k # n => stack'[k] = stack[k]
  <2>1. stack' \in Seq(FrameSet) /\ Len(stack') = n /\ stack'[n] = f
    BY <1>1, <1>3
  <2>2. \A k \in 1 .. n - 1 : stack'[k] = Below[k]
    BY <1>1, <1>3
  <2> QED BY <1>1, <1>2, <2>1, <2>2
<1>4. ASSUME NEW g \in FrameSet, stack' = Below \o << f, g >>
      PROVE  /\ stack' \in Seq(FrameSet) /\ Len(stack') = n + 1 /\ stack'[n] = f /\ stack'[n + 1] = g
             /\ \A k \in 1 .. n : k # n => stack'[k] = stack[k]
  <2>1. /\ stack' \in Seq(FrameSet) /\ Len(stack') = n - 1 + 2
        /\ stack'[n - 1 + 1] = f /\ stack'[n - 1 + 2] = g
        /\ \A k \in 1 .. n - 1 : stack'[k] = Below[k]
    BY <1>1, <1>4, TwoMoreFacts
  <2>2. n - 1 + 1 = n /\ n - 1 + 2 = n + 1
    BY <1>1
  <2>3. stack'[n] = f /\ stack'[n + 1] = g /\ Len(stack') = n + 1
    BY <2>1, <2>2
  <2> QED BY <1>1, <1>2, <2>1, <2>3
<1> QED BY <1>3, <1>4 DEF n

LEMMA DestroyStepInv == ASSUME PoolCount \in Nat, Inv, DestroyStep PROVE Inv'
<1>1. PICK n : n = Len(stack)
  OBVIOUS
<1>2. PICK f : f = [Top EXCEPT !.next = @ - 1]
  OBVIOUS
<1>3. PICK t : t = Top.next
  OBVIOUS
<1>4. PICK g : g = PopFrame(t, << Top.id >>)
  OBVIOUS
<1>5. /\ stack # << >> /\ Top.kind = "destroy" /\ t > 0 /\ own' = own /\ alive' = alive
      /\ \/ Has(t, Top.id) /\ stack' = Below \o << f, g >> /\ Tell(t, Top.id)
         \/ ~ Has(t, Top.id) /\ stack' = Append(Below, f) /\ told' = told
  BY <1>2, <1>3, <1>4 DEF DestroyStep, Running, Erases
<1>6. /\ Top = stack[n] /\ Top \in FrameSet /\ n \in Nat /\ n > 0 /\ n \in 1 .. n
  BY <1>1, <1>5, TopIs DEF Inv
<1>7. /\ Top \in [kind : {"destroy"}, id : Handles, next : Nat] /\ Top.id \in Handles
      /\ Top.next \in Nat /\ Top.next <= PoolCount
  <2>1. FrameWhole(Top)
    BY <1>1, <1>6 DEF Inv, Whole
  <2>2. Top \in [kind : {"destroy"}, id : Handles, next : Nat]
    BY <1>5, <1>6 DEF FrameSet
  <2> QED BY <1>5, <2>1, <2>2 DEF FrameWhole
<1>8. t \in AllPools /\ t \in Nat /\ t - 1 \in Nat /\ t - 1 <= PoolCount
  BY <1>3, <1>5, <1>7 DEF AllPools
<1>9. /\ f \in [kind : {"destroy"}, id : Handles, next : Nat]
      /\ f.kind = "destroy" /\ f.id = Top.id /\ f.next = t - 1
  BY <1>2, <1>3, <1>7, <1>8
<1>10. f \in FrameSet /\ FrameWhole(f)
  BY <1>8, <1>9 DEF FrameSet, FrameWhole
<1>11. DestroyWalked(n)
  BY <1>1, <1>5, <1>6 DEF Inv, Walked
<1>12. CASE Has(t, Top.id) /\ stack' = Below \o << f, g >> /\ Tell(t, Top.id)
  <2>1. /\ g \in FrameSet /\ g.kind = "pop" /\ g.type = t /\ g.left = << Top.id >> /\ Tells(g)
        /\ Head(g.left) = Top.id /\ g.left # << >> /\ IsInjective(g.left) /\ ToSet(g.left) = {Top.id}
        /\ \A x : LoneOther(g, x) <=> x # Top.id
        /\ \A x : Announced(g, t, x) <=> x = Top.id
    BY <1>4, <1>7, <1>8, LoneFrame
  <2>2. /\ stack' \in Seq(FrameSet) /\ Len(stack') = n + 1 /\ stack'[n] = f /\ stack'[n + 1] = g
        /\ \A k \in 1 .. n : k # n => stack'[k] = stack[k]
    BY <1>1, <1>5, <1>10, <1>12, <2>1, GoesOnIs DEF Inv
  <2>3. Above(f, g)
    <3>1. f.next + 1 = t
      BY <1>8, <1>9
    <3> QED BY <1>4, <1>9, <3>1 DEF Above
  <2>4. FrameWhole(g)
    BY <1>12, <2>1 DEF FrameWhole, Has
  <2>5. ASSUME NEW j \in 1 .. n, Telling(j), stack[j].type = g.type
        PROVE  /\ stack[j].kind = "pop" /\ LoneOther(stack[j], Head(g.left))
               /\ LoneOther(g, Head(stack[j].left))
    <3>1. j # n
      BY <1>5, <1>6, <2>5 DEF Telling
    <3>2. j < n
      BY <1>6, <3>1
    <3>3. LoneOther(stack[j], Top.id)
      BY <1>1, <1>5, <1>6, <1>12, <2>1, <2>5, <3>2 DEF Inv, Cleared
    <3> QED BY <2>1, <3>3 DEF LoneOther
  <2>6. Callable(g)
    BY <1>1, <2>1, <2>4, <2>5 DEF Callable
  <2>7. DestroyWalked(n)'
    <3> SUFFICES ASSUME NEW u \in AllPools, Has(u, f.id)
                 PROVE  u <= f.next \/ (n < n + 1 /\ u = f.next + 1)
      BY <1>5, <2>2 DEF DestroyWalked, Has
    <3>1. u <= t
      BY <1>1, <1>3, <1>6, <1>9, <1>11 DEF DestroyWalked
    <3>2. u \in Nat
      BY DEF AllPools
    <3> QED BY <1>6, <1>8, <1>9, <3>1, <3>2
  <2>8. WalkStep(n, f)
    BY <1>1, <1>5, <1>6, <1>9, <1>10, <2>2, <2>7 DEF WalkStep, Walks
  <2> QED BY <1>7, <1>12, <2>1, <2>2, <2>3, <2>6, <2>8, WalkTellsInv
<1>13. CASE ~ Has(t, Top.id) /\ stack' = Append(Below, f) /\ told' = told
  <2>1. /\ stack' \in Seq(FrameSet) /\ Len(stack') = n /\ stack'[n] = f
        /\ \A k \in 1 .. n : k # n => stack'[k] = stack[k]
    BY <1>1, <1>5, <1>10, <1>13, GoesOnIs DEF Inv
  <2>2. DestroyWalked(n)'
    <3> SUFFICES ASSUME NEW u \in AllPools, Has(u, f.id)
                 PROVE  u <= f.next
      BY <1>5, <2>1 DEF DestroyWalked, Has
    <3>1. u <= t /\ u # t
      BY <1>1, <1>3, <1>6, <1>9, <1>11, <1>13 DEF DestroyWalked
    <3>2. u \in Nat
      BY DEF AllPools
    <3> QED BY <1>8, <1>9, <3>1, <3>2
  <2>3. WalkStep(n, f)
    BY <1>1, <1>5, <1>6, <1>9, <1>10, <2>1, <2>2 DEF WalkStep, Walks
  <2> QED BY <1>13, <2>1, <2>3, WalkInv
<1> QED BY <1>5, <1>12, <1>13

LEMMA DestroyReturnsInv == ASSUME PoolCount \in Nat, Inv, DestroyReturns PROVE Inv'
<1>1. /\ stack # << >> /\ Top.kind = "destroy" /\ Top.next = 0 /\ alive' = alive \ {Top.id}
      /\ stack' = Below /\ own' = own /\ told' = told
  BY DEF DestroyReturns, Running
<1>2. PICK n : n = Len(stack)
  OBVIOUS
<1>3. Top = stack[n] /\ n \in Nat /\ n \in 1 .. n
  BY <1>1, <1>2, TopIs DEF Inv
<1>4. ASSUME NEW t \in AllPools PROVE ~ Has(t, Top.id)
  <2>1. DestroyWalked(n)
    BY <1>1, <1>2, <1>3 DEF Inv, Walked
  <2>2. t \in Nat /\ ~ (t <= 0)
    BY DEF AllPools
  <2> QED BY <1>1, <1>2, <1>3, <2>1, <2>2 DEF DestroyWalked
<1>5. Valid' /\ alive' \subseteq Handles
  BY <1>1, <1>4 DEF Inv, Valid, Typed, Has
<1> QED BY <1>1, <1>2, <1>3, <1>5, ReturnInv DEF Walks

LEMMA RangeReturnsInv == ASSUME PoolCount \in Nat, Inv, RangeReturns PROVE Inv'
<1>1. /\ stack # << >> /\ Top.kind = "range" /\ Top.pool > PoolCount
      /\ alive' = alive \ ToSet(Top.ids)
      /\ stack' = Below /\ own' = own /\ told' = told
  BY DEF RangeReturns, Running
<1>2. PICK n : n = Len(stack)
  OBVIOUS
<1>3. Top = stack[n] /\ Top \in FrameSet /\ n \in Nat /\ n \in 1 .. n
  BY <1>1, <1>2, TopIs DEF Inv
<1>4. Top.ids \in Seq(Handles) /\ Top.pool \in Nat
  BY <1>1, <1>3, FrameTypes
<1>5. ASSUME NEW t \in AllPools, NEW id \in ToSet(Top.ids) PROVE ~ Has(t, id)
  <2>1. RangeWalked(n)
    BY <1>1, <1>2, <1>3 DEF Inv, Walked
  <2>2. PICK m \in 1 .. Len(Top.ids) : Top.ids[m] = id
    BY <1>4, ElementsIs
  <2>3. t \in Nat /\ ~ (t > Top.pool) /\ t # Top.pool
    BY <1>1, <1>4 DEF AllPools
  <2> QED BY <1>2, <1>3, <2>1, <2>2, <2>3 DEF RangeWalked
<1>6. Valid' /\ alive' \subseteq Handles
  BY <1>1, <1>5 DEF Inv, Valid, Typed, Has
<1> QED BY <1>1, <1>2, <1>3, <1>6, ReturnInv DEF Walks

LEMMA ClearReturnsInv == ASSUME PoolCount \in Nat, Inv, ClearReturns PROVE Inv'
<1>1. /\ stack # << >> /\ Top.kind = "clear" /\ Top.next = 0 /\ alive' = {}
      /\ stack' = Below /\ own' = own /\ told' = told
  BY DEF ClearReturns, Running
<1>2. PICK n : n = Len(stack)
  OBVIOUS
<1>3. Top = stack[n] /\ n \in Nat /\ n \in 1 .. n
  BY <1>1, <1>2, TopIs DEF Inv
<1>4. ASSUME NEW t \in AllPools PROVE ToSet(own[t]) = {}
  <2>1. ClearWalked(n)
    BY <1>1, <1>2, <1>3 DEF Inv, Walked
  <2>2. t \in Nat /\ ~ (t <= 0) /\ ~ (n < n)
    BY <1>3 DEF AllPools
  <2>3. own[t] = << >>
    BY <1>1, <1>2, <1>3, <2>1, <2>2 DEF ClearWalked
  <2> QED BY <2>3, PoolIs DEF Inv
<1>5. Valid' /\ alive' \subseteq Handles
  BY <1>1, <1>4 DEF Valid
<1> QED BY <1>1, <1>2, <1>3, <1>5, ReturnInv DEF Walks

LEMMA ClearStepInv == ASSUME PoolCount \in Nat, Inv, ClearStep PROVE Inv'
<1>1. PICK n : n = Len(stack)
  OBVIOUS
<1>2. PICK f : f = [Top EXCEPT !.next = @ - 1]
  OBVIOUS
<1>3. PICK t : t = Top.next
  OBVIOUS
<1>4. PICK g : g = PopAllFrame(t)
  OBVIOUS
<1>5. /\ stack # << >> /\ Top.kind = "clear" /\ t > 0 /\ own' = own /\ alive' = alive
      /\ \/ own[t] # << >> /\ stack' = Below \o << f, g >> /\ Tell(t, Last(own[t]))
         \/ own[t] = << >> /\ stack' = Append(Below, f) /\ told' = told
  BY <1>2, <1>3, <1>4 DEF ClearStep, Running
<1>6. /\ Top = stack[n] /\ Top \in FrameSet /\ n \in Nat /\ n > 0 /\ n \in 1 .. n
  BY <1>1, <1>5, TopIs DEF Inv
<1>7. Top \in [kind : {"clear"}, next : Nat] /\ Top.next \in Nat /\ Top.next <= PoolCount
  <2>1. FrameWhole(Top)
    BY <1>1, <1>6 DEF Inv, Whole
  <2>2. Top \in [kind : {"clear"}, next : Nat]
    BY <1>5, <1>6 DEF FrameSet
  <2> QED BY <1>5, <2>1, <2>2 DEF FrameWhole
<1>8. t \in AllPools /\ t \in Nat /\ t - 1 \in Nat /\ t - 1 <= PoolCount
  BY <1>3, <1>5, <1>7 DEF AllPools
<1>9. f \in [kind : {"clear"}, next : Nat] /\ f.kind = "clear" /\ f.next = t - 1
  BY <1>2, <1>3, <1>7, <1>8
<1>10. f \in FrameSet /\ FrameWhole(f)
  BY <1>8, <1>9 DEF FrameSet, FrameWhole
<1>11. ClearWalked(n) /\ n = 1
  BY <1>1, <1>5, <1>6 DEF Inv, Walked, Nested
<1>12. CASE own[t] # << >> /\ stack' = Below \o << f, g >> /\ Tell(t, Last(own[t]))
  <2>1. /\ g \in FrameSet /\ g.kind = "popall" /\ g.type = t /\ Tells(g) /\ FrameWhole(g)
        /\ Last(own[t]) \in Handles /\ Has(t, Last(own[t]))
        /\ \A id \in Handles : Announced(g, t, id) <=> id = Last(own[t])
    BY <1>4, <1>8, <1>12, WholeFrame DEF Inv
  <2>2. /\ stack' \in Seq(FrameSet) /\ Len(stack') = n + 1 /\ stack'[n] = f /\ stack'[n + 1] = g
        /\ \A k \in 1 .. n : k # n => stack'[k] = stack[k]
    BY <1>1, <1>5, <1>10, <1>12, <2>1, GoesOnIs DEF Inv
  <2>3. Above(f, g)
    <3>1. f.next + 1 = t
      BY <1>8, <1>9
    <3> QED BY <1>9, <2>1, <3>1 DEF Above
  <2>4. \A j \in 1 .. n : ~ Telling(j)
    BY <1>5, <1>6, <1>11 DEF Telling
  <2>5. Callable(g)
    BY <1>1, <2>1, <2>4 DEF Callable
  <2>6. ClearWalked(n)'
    <3> SUFFICES ASSUME NEW u \in AllPools, own[u] # << >>
                 PROVE  u <= f.next \/ (n < n + 1 /\ u = f.next + 1)
      BY <1>5, <2>2 DEF ClearWalked
    <3>1. u <= t
      BY <1>1, <1>3, <1>6, <1>11 DEF ClearWalked
    <3>2. u \in Nat
      BY DEF AllPools
    <3> QED BY <1>6, <1>8, <1>9, <3>1, <3>2
  <2>7. WalkStep(n, f)
    BY <1>1, <1>5, <1>6, <1>9, <1>10, <2>2, <2>6 DEF WalkStep, Walks
  <2> QED BY <1>12, <2>1, <2>2, <2>3, <2>5, <2>7, WalkTellsInv
<1>13. CASE own[t] = << >> /\ stack' = Append(Below, f) /\ told' = told
  <2>1. /\ stack' \in Seq(FrameSet) /\ Len(stack') = n /\ stack'[n] = f
        /\ \A k \in 1 .. n : k # n => stack'[k] = stack[k]
    BY <1>1, <1>5, <1>10, <1>13, GoesOnIs DEF Inv
  <2>2. ClearWalked(n)'
    <3> SUFFICES ASSUME NEW u \in AllPools, own[u] # << >>
                 PROVE  u <= f.next
      BY <1>5, <2>1 DEF ClearWalked
    <3>1. u <= t /\ u # t
      BY <1>1, <1>3, <1>6, <1>11, <1>13 DEF ClearWalked
    <3>2. u \in Nat
      BY DEF AllPools
    <3> QED BY <1>8, <1>9, <3>1, <3>2
  <2>3. WalkStep(n, f)
    BY <1>1, <1>5, <1>6, <1>9, <1>10, <2>1, <2>2 DEF WalkStep, Walks
  <2> QED BY <1>13, <2>1, <2>3, WalkInv
<1> QED BY <1>5, <1>12, <1>13

(* Where a pool has an identifier of the range, from a position on, and    *)
(* where a run of those that it has may end.                               *)
Held(t, ids, from) == {i \in from .. Len(ids) : Has(t, ids[i])}
Ends(t, ids, first) == {m \in first .. Len(ids) + 1 : m > Len(ids) \/ ~ Has(t, ids[m])}

(* The next run of identifiers that the pool has.                          *)
IsRun(t, ids, from, first, end, left) ==
  /\ end \in Nat /\ end > 0 /\ first # 0 /\ first \in 1 .. Len(ids)
  /\ left \in Seq(Handles) /\ left # << >> /\ Head(left) = ids[first]
  /\ IsInjective(left) /\ ToSet(left) \subseteq ToSet(own[t])
  /\ ids[first] \in Handles /\ Has(t, ids[first])
  /\ \A m \in 1 .. Len(ids) : m >= from /\ Has(t, ids[m]) => m >= end \/ ids[m] \in ToSet(left)

LEMMA RunFacts ==
  ASSUME Typed, NEW t \in AllPools, NEW ids \in Seq(Handles), IsInjective(ids),
         NEW from \in Nat, from > 0,
         NEW I, I = Held(t, ids, from), I # {}, NEW first, first = Min(I),
         NEW E, E = Ends(t, ids, first),
         NEW end, end = Min(E), NEW left, left = SubSeq(ids, first, end - 1)
  PROVE  IsRun(t, ids, from, first, end, left)
<1>1. Len(ids) \in Nat
  BY SeqFacts
<1>2. first \in I /\ \A x \in I : first <= x
  <2>1. I \subseteq Nat
    BY <1>1 DEF Held
  <2> QED BY <2>1, LeastExists
<1>3. /\ first \in Nat /\ from <= first /\ first <= Len(ids) /\ first \in 1 .. Len(ids)
      /\ Has(t, ids[first])
  BY <1>1, <1>2 DEF Held
<1>4. end \in E /\ \A x \in E : end <= x
  <2>1. ASSUME NEW x \in E PROVE x \in Nat
    <3>1. x \in first .. Len(ids) + 1
      BY DEF Ends
    <3> QED BY <1>1, <1>3, <3>1
  <2>2. Len(ids) + 1 \in first .. Len(ids) + 1 /\ Len(ids) + 1 > Len(ids)
    BY <1>1, <1>3
  <2>3. Len(ids) + 1 \in E
    BY <2>2 DEF Ends
  <2> QED BY <2>1, <2>3, LeastExists
<1>5. end \in Nat /\ first < end /\ end <= Len(ids) + 1
  <2>1. end # first /\ end \in first .. Len(ids) + 1
    BY <1>1, <1>3, <1>4 DEF Ends
  <2> QED BY <1>1, <1>3, <2>1
<1>6. ASSUME NEW m \in first .. end - 1 PROVE m \in 1 .. Len(ids) /\ Has(t, ids[m])
  <2>1. m \in 1 .. Len(ids) /\ m \in first .. Len(ids) + 1 /\ ~ (end <= m)
    BY SMTT(60), <1>1, <1>3, <1>5
  <2> QED BY <1>4, <2>1 DEF Ends
<1>7. PICK j : j = end - 1
  OBVIOUS
<1>8. j \in first .. Len(ids)
  BY SMTT(60), <1>1, <1>3, <1>5, <1>7
<1>9. ids \in Seq(Handles) /\ IsInjective(ids) /\ first \in 1 .. Len(ids) /\ j \in first .. Len(ids)
      /\ left = SubSeq(ids, first, j)
  BY <1>3, <1>7, <1>8
<1>10. /\ left \in Seq(Handles) /\ left # << >> /\ Head(left) = ids[first] /\ IsInjective(left)
       /\ ToSet(left) = Slice(ids, first, j)
  <2>1. left \in Seq(Handles) /\ left # << >>
    BY ONLY <1>9, PartFacts
  <2>2. Head(left) = ids[first]
    BY ONLY <1>9, PartFacts
  <2>3. IsInjective(left)
    BY ONLY <1>9, PartFacts
  <2>4. ToSet(left) = Slice(ids, first, j)
    BY ONLY ZenonT(60), <1>9, PartFacts
  <2> QED BY <2>1, <2>2, <2>3, <2>4
<1>11. ToSet(left) \subseteq ToSet(own[t])
  BY <1>6, <1>7, <1>10 DEF Slice, Has
<1>12. ASSUME NEW m \in 1 .. Len(ids), m >= from, Has(t, ids[m])
       PROVE  m >= end \/ ids[m] \in ToSet(left)
  <2>1. first <= m
    <3>1. m \in Held(t, ids, from)
      BY <1>1, <1>12 DEF Held
    <3> QED BY <1>2, <3>1
  <2>2. ~ (m >= end) => m \in first .. j
    BY <1>1, <1>3, <1>5, <1>7, <2>1
  <2> QED BY <1>10, <2>2 DEF Slice
<1>13. ids[first] \in Handles
  BY <1>3, SeqFacts
<1>14. end > 0 /\ first # 0
  BY <1>3, <1>5
<1> QED BY <1>3, <1>5, <1>10, <1>11, <1>12, <1>13, <1>14 DEF IsRun

LEMMA RangeStepInv == ASSUME PoolCount \in Nat, Inv, RangeStep PROVE Inv'
<1>1. PICK n : n = Len(stack)
  OBVIOUS
<1>2. PICK t : t = Top.pool
  OBVIOUS
<1>3. PICK I : I = Held(t, Top.ids, Top.from)
  OBVIOUS
<1>4. PICK first : first = IF I # {} THEN Min(I) ELSE 0
  OBVIOUS
<1>5. PICK E : E = Ends(t, Top.ids, first)
  OBVIOUS
<1>6. PICK end : end = Min(E)
  OBVIOUS
<1>7. PICK left : left = SubSeq(Top.ids, first, end - 1)
  OBVIOUS
<1>8. /\ stack # << >> /\ Top.kind = "range" /\ t <= PoolCount /\ own' = own /\ alive' = alive
      /\ \/ /\ first = 0 /\ told' = told
            /\ stack' = Append(Below, [Top EXCEPT !.pool = t + 1, !.from = 1])
         \/ /\ first # 0 /\ Tell(t, Top.ids[first])
            /\ stack' = Below \o << [Top EXCEPT !.from = end], PopFrame(t, left) >>
  BY <1>2, <1>3, <1>4, <1>5, <1>6, <1>7 DEF RangeStep, Running, SelectInSubSeq, Held, Ends
<1>9. /\ Top = stack[n] /\ Top \in FrameSet /\ n \in Nat /\ n > 0 /\ n \in 1 .. n
  BY <1>1, <1>8, TopIs DEF Inv
<1>10. /\ Top \in [kind : {"range"}, ids : Seq(Handles), pool : Nat, from : Nat]
       /\ Top.ids \in Seq(Handles) /\ Top.pool \in Nat /\ Top.from \in Nat /\ Top.from > 0
       /\ Top.pool > 0 /\ IsInjective(Top.ids) /\ Len(Top.ids) \in Nat
  <2>1. FrameWhole(Top)
    BY <1>1, <1>9 DEF Inv, Whole
  <2>2. Top \in [kind : {"range"}, ids : Seq(Handles), pool : Nat, from : Nat]
    BY <1>8, <1>9 DEF FrameSet
  <2> QED BY <1>8, <2>1, <2>2, SeqFacts DEF FrameWhole
<1>11. t \in AllPools /\ t \in Nat
  BY <1>2, <1>8, <1>10 DEF AllPools
<1>12. RangeWalked(n) /\ n = 1
  BY <1>1, <1>8, <1>9 DEF Inv, Walked, Nested
<1>13. ASSUME NEW u \in AllPools, NEW m \in 1 .. Len(Top.ids), Has(u, Top.ids[m])
       PROVE  u > t \/ (u = t /\ m \in I /\ m >= Top.from)
  <2>1. m \in Nat
    BY <1>10
  <2>2. u > t \/ (u = t /\ m >= Top.from)
    BY <1>1, <1>2, <1>9, <1>12, <1>13 DEF RangeWalked
  <2>3. m >= Top.from => m \in Top.from .. Len(Top.ids)
    BY <1>10, <2>1
  <2> QED BY <1>3, <1>13, <2>2, <2>3 DEF Held
<1>14. CASE I = {}
  <2>1. PICK f : f = [Top EXCEPT !.pool = t + 1, !.from = 1]
    OBVIOUS
  <2>2. /\ f \in [kind : {"range"}, ids : Seq(Handles), pool : Nat, from : Nat]
        /\ f.kind = "range" /\ f.ids = Top.ids /\ f.pool = t + 1 /\ f.from = 1
    <3>1. f = [kind |-> "range", ids |-> Top.ids, pool |-> t + 1, from |-> 1]
      BY <1>10, <2>1
    <3>2. t + 1 \in Nat
      BY <1>11
    <3> QED BY <1>10, <3>1, <3>2
  <2>3. f \in FrameSet /\ FrameWhole(f)
    BY <1>10, <1>11, <2>2 DEF FrameSet, FrameWhole
  <2>4. stack' = Append(Below, f) /\ told' = told
    BY <1>4, <1>8, <1>14, <2>1
  <2>5. /\ stack' \in Seq(FrameSet) /\ Len(stack') = n /\ stack'[n] = f
        /\ \A k \in 1 .. n : k # n => stack'[k] = stack[k]
    BY <1>1, <1>8, <2>3, <2>4, GoesOnIs DEF Inv
  <2>6. RangeWalked(n)'
    <3> SUFFICES ASSUME NEW u \in AllPools, NEW m \in 1 .. Len(Top.ids), Has(u, Top.ids[m])
                 PROVE  u > t + 1 \/ (u = t + 1 /\ m >= 1)
      BY <1>8, <2>2, <2>5 DEF RangeWalked, Has
    <3>1. u > t
      BY <1>13, <1>14
    <3>2. u \in Nat /\ m >= 1
      BY <1>10 DEF AllPools
    <3> QED BY <1>11, <3>1, <3>2
  <2>7. WalkStep(n, f)
    BY <1>1, <1>8, <1>9, <2>2, <2>3, <2>5, <2>6 DEF WalkStep, Walks
  <2> QED BY <2>4, <2>5, <2>7, WalkInv
<1>15. CASE I # {}
  <2>1. /\ end \in Nat /\ end > 0 /\ first # 0 /\ first \in 1 .. Len(Top.ids)
        /\ left \in Seq(Handles) /\ left # << >> /\ Head(left) = Top.ids[first]
        /\ IsInjective(left) /\ ToSet(left) \subseteq ToSet(own[t])
        /\ Top.ids[first] \in Handles /\ Has(t, Top.ids[first])
        /\ \A m \in 1 .. Len(Top.ids) :
             m >= Top.from /\ Has(t, Top.ids[m]) => m >= end \/ Top.ids[m] \in ToSet(left)
    <3>1. first = Min(I) /\ Typed
      BY <1>4, <1>15 DEF Inv
    <3>2. PICK ids : ids = Top.ids
      OBVIOUS
    <3>3. PICK from : from = Top.from
      OBVIOUS
    <3>4. /\ ids \in Seq(Handles) /\ IsInjective(ids) /\ from \in Nat /\ from > 0
          /\ I = Held(t, ids, from) /\ I # {} /\ E = Ends(t, ids, first)
          /\ left = SubSeq(ids, first, end - 1)
      BY <1>3, <1>5, <1>7, <1>10, <1>15, <3>2, <3>3
    <3>5. IsRun(t, ids, from, first, end, left)
      BY ONLY <1>6, <1>11, <3>1, <3>4, RunFacts
    <3> QED BY <3>2, <3>3, <3>5 DEF IsRun
  <2>2. PICK f : f = [Top EXCEPT !.from = end]
    OBVIOUS
  <2>3. PICK g : g = PopFrame(t, left)
    OBVIOUS
  <2>4. /\ f \in [kind : {"range"}, ids : Seq(Handles), pool : Nat, from : Nat]
        /\ f.kind = "range" /\ f.ids = Top.ids /\ f.pool = t /\ f.from = end
    BY <1>2, <1>10, <2>1, <2>2
  <2>5. f \in FrameSet /\ FrameWhole(f)
    BY <1>2, <1>10, <2>1, <2>4 DEF FrameSet, FrameWhole
  <2>6. g \in FrameSet /\ g.kind = "pop" /\ g.type = t /\ g.left = left /\ Tells(g)
    BY <1>11, <2>1, <2>3 DEF PopFrame, FrameSet, Tells
  <2>7. FrameWhole(g)
    BY <2>1, <2>6 DEF FrameWhole
  <2>8. stack' = Below \o << f, g >> /\ Tell(t, Top.ids[first])
    BY <1>8, <2>1, <2>2, <2>3
  <2>9. /\ stack' \in Seq(FrameSet) /\ Len(stack') = n + 1 /\ stack'[n] = f /\ stack'[n + 1] = g
        /\ \A k \in 1 .. n : k # n => stack'[k] = stack[k]
    BY <1>1, <1>8, <2>5, <2>6, <2>8, GoesOnIs DEF Inv
  <2>10. Above(f, g)
    BY <2>4, <2>6 DEF Above
  <2>11. \A j \in 1 .. n : ~ Telling(j)
    BY <1>8, <1>9, <1>12 DEF Telling
  <2>12. Callable(g)
    BY <1>1, <2>6, <2>7, <2>11 DEF Callable
  <2>13. \A id \in Handles : Announced(g, g.type, id) <=> id = Top.ids[first]
    BY <2>1, <2>6 DEF Announced
  <2>14. RangeWalked(n)'
    <3> SUFFICES ASSUME NEW u \in AllPools, NEW m \in 1 .. Len(Top.ids), Has(u, Top.ids[m])
                 PROVE  \/ u > t
                        \/ u = t /\ m >= end
                        \/ u = t /\ n < n + 1 /\ Top.ids[m] \in ToSet(left)
      BY <1>8, <2>4, <2>6, <2>9 DEF RangeWalked, Has
    <3>1. n < n + 1
      BY <1>9
    <3> QED BY <1>13, <2>1, <3>1
  <2>15. WalkStep(n, f)
    BY <1>1, <1>8, <1>9, <2>4, <2>5, <2>9, <2>14 DEF WalkStep, Walks
  <2> QED BY <2>1, <2>6, <2>8, <2>9, <2>10, <2>12, <2>13, <2>15, WalkTellsInv
<1> QED BY <1>14, <1>15

LEMMA SortInv ==
  ASSUME Inv, NEW t \in AllPools, NEW seq \in Arrangements(t), Sort(t, seq)
  PROVE  Inv'
<1> USE DEF Inv
<1>1. /\ ~ Untouchable(t) /\ own' = [own EXCEPT ![t] = seq]
      /\ alive' = alive /\ stack' = stack /\ told' = told
  BY DEF Sort
<1>2. /\ seq \in Seq(Handles) /\ IsInjective(seq) /\ Len(seq) = Len(own[t])
      /\ ToSet(seq) = ToSet(own[t])
  BY ArrangedFacts
<1>3. \A u \in AllPools : own'[u] = IF u = t THEN seq ELSE own[u]
  BY <1>1 DEF Typed
<1>4. Typed'
  BY <1>1, <1>2, <1>3 DEF Typed
<1>5. /\ \A u \in AllPools : Len(own'[u]) = Len(own[u]) /\ ToSet(own'[u]) = ToSet(own[u])
      /\ \A u \in AllPools : own'[u] # << >> <=> own[u] # << >>
  <2>1. \A u \in AllPools : Len(own'[u]) = Len(own[u]) /\ ToSet(own'[u]) = ToSet(own[u])
    BY <1>2, <1>3
  <2>2. seq # << >> <=> own[t] # << >>
    BY <1>2, PoolIs, SeqFacts
  <2> QED BY <1>3, <2>1, <2>2
<1>6. \A u \in AllPools : \A id : Has(u, id)' <=> Has(u, id)
  BY <1>5 DEF Has
<1>7. \A k \in 1 .. Len(stack) : Tells(stack[k]) => stack[k].type \in AllPools
  BY StackIs, FrameTypes DEF Tells
<1>8. Whole'
  <2> SUFFICES ASSUME NEW k \in 1 .. Len(stack) PROVE FrameWhole(stack[k])'
    BY <1>1 DEF Whole
  <2>1. FrameWhole(stack[k])
    BY DEF Whole
  <2> QED BY <1>1, <1>5, <1>7, <2>1 DEF FrameWhole, Tells
<1>9. Nested' /\ Apart'
  BY <1>1 DEF Nested, Apart, Telling
<1>10. Cleared'
  <2> SUFFICES ASSUME NEW j \in 1 .. Len(stack), NEW k \in 1 .. Len(stack), j < k,
                      Tells(stack[j]), stack[k].kind = "destroy",
                      Has(stack[j].type, stack[k].id)'
               PROVE  LoneOther(stack[j], stack[k].id)
    BY <1>1 DEF Cleared, Telling, Tells
  <2> QED BY <1>1, <1>6, <1>7 DEF Cleared, Telling, Tells, Has
<1>11. Walked'
  <2> SUFFICES ASSUME NEW k \in 1 .. Len(stack)
               PROVE  /\ stack[k].kind = "destroy" => DestroyWalked(k)'
                      /\ stack[k].kind = "range" => RangeWalked(k)'
                      /\ stack[k].kind = "clear" => ClearWalked(k)'
    BY <1>1 DEF Walked
  <2>1. /\ stack[k].kind = "destroy" => DestroyWalked(k)
        /\ stack[k].kind = "range" => RangeWalked(k)
        /\ stack[k].kind = "clear" => ClearWalked(k)
    BY DEF Walked
  <2> QED BY <1>1, <1>5, <2>1 DEF DestroyWalked, RangeWalked, ClearWalked, Has
<1>12. Valid'
  BY <1>1, <1>5 DEF Valid
<1>13. ASSUME NEW u \in AllPools, NEW id \in Handles PROVE Going(u, id)' <=> Going(u, id)
  <2>1. ASSUME NEW k \in 1 .. Len(stack) PROVE Announced(stack[k], u, id)' <=> Announced(stack[k], u, id)
    <3>1. stack[k].kind = "popall" /\ stack[k].type = u => u # t
      BY <1>1, StackIs DEF Untouchable, Telling
    <3> QED BY <1>1, <1>3, <3>1 DEF Announced
  <2> QED BY <1>1, <2>1 DEF Going
<1>14. Told'
  BY <1>1, <1>6, <1>13, ToldTheSame
<1> QED BY <1>4, <1>8, <1>9, <1>10, <1>11, <1>12, <1>14

-------------------------------------------------------------------------------
(* The listener returns.                                                   *)

(* What pop erases, and from which pool.                                   *)
PopErases(n, t, x, left) ==
  /\ n \in Nat /\ n > 0 /\ n = Len(stack) /\ stack[n] \in FrameSet
  /\ stack[n] = PopFrame(t, left) /\ stack[n].kind = "pop" /\ stack[n].type = t /\ stack[n].left = left
  /\ t \in AllPools /\ left \in Seq(Handles) /\ left # << >> /\ IsInjective(left)
  /\ ToSet(left) \subseteq ToSet(own[t])
  /\ x \in Handles /\ x = Head(left) /\ x \in ToSet(left) /\ Has(t, x)
  /\ own' \in [AllPools -> Seq(Handles)] /\ \A u \in AllPools : IsInjective(own'[u])
  /\ \A u \in AllPools : ToSet(own'[u]) = ToSet(own[u]) \ (IF u = t THEN {x} ELSE {})
  /\ \A u \in AllPools : u # t => own'[u] = own[u]
  /\ \A u \in AllPools : own'[u] # << >> => own[u] # << >>
  /\ alive' = alive

LEMMA PopErasesIs ==
  ASSUME Inv, PopGoesOn,
         NEW n, n = Len(stack), NEW t, t = Top.type, NEW left, left = Top.left,
         NEW x, x = Head(left)
  PROVE  PopErases(n, t, x, left)
<1> USE DEF Inv
<1>1. /\ stack # << >> /\ Top.kind = "pop" /\ alive' = alive
      /\ own' = [own EXCEPT ![t] = Without(own[t], x)]
  BY DEF PopGoesOn, Running
<1>2. /\ Top = stack[n] /\ Top \in FrameSet /\ n \in Nat /\ n > 0 /\ n \in 1 .. n
  BY <1>1, TopIs
<1>3. Top \in [kind : {"pop"}, type : AllPools, left : Seq(Handles)]
  BY <1>1, <1>2 DEF FrameSet
<1>4. t \in AllPools /\ left \in Seq(Handles) /\ Top = PopFrame(t, left)
  BY <1>3 DEF PopFrame
<1>5. left # << >> /\ IsInjective(left) /\ ToSet(left) \subseteq ToSet(own[t])
  BY <1>1, <1>2 DEF Whole, FrameWhole
<1>6. x \in ToSet(left)
  BY <1>4, <1>5, TailFacts
<1>7. x \in Handles /\ x \in ToSet(own[t]) /\ Has(t, x)
  BY <1>4, <1>5, <1>6, PoolIs DEF Has
<1>8. PICK w : w = Without(own[t], x)
  OBVIOUS
<1>9. w \in Seq(Handles) /\ IsInjective(w) /\ ToSet(w) = ToSet(own[t]) \ {x}
  <2>1. PICK s : s = own[t]
    OBVIOUS
  <2>2. /\ s \in Seq(Handles) /\ IsInjective(s) /\ x \in ToSet(s)
        /\ w = Front([i \in DOMAIN s |-> IF s[i] = x THEN Last(s) ELSE s[i]])
    BY <1>4, <1>7, <1>8, <2>1 DEF Typed, Without
  <2>3. w \in Seq(Handles) /\ IsInjective(w)
    BY ONLY <2>2, SwapPopFound
  <2>4. ToSet(w) = ToSet(s) \ {x}
    BY ONLY <2>2, SwapPopFound
  <2> QED BY <2>1, <2>3, <2>4
<1>10. \A u \in AllPools : own'[u] = IF u = t THEN w ELSE own[u]
  BY <1>1, <1>8 DEF Typed
<1>11. own' \in [AllPools -> Seq(Handles)] /\ \A u \in AllPools : IsInjective(own'[u])
  BY <1>1, <1>8, <1>9, <1>10 DEF Typed
<1>12. \A u \in AllPools : ToSet(own'[u]) = ToSet(own[u]) \ (IF u = t THEN {x} ELSE {})
  BY <1>9, <1>10
<1>13. own[t] # << >>
  BY <1>4, <1>7, PoolIs
<1>14. \A u \in AllPools : own'[u] # << >> => own[u] # << >>
  BY <1>10, <1>13
<1> QED BY <1>1, <1>2, <1>3, <1>4, <1>5, <1>6, <1>7, <1>10, <1>11, <1>12, <1>14 DEF PopErases

(* There is more to erase: nobody else is removing from this pool.         *)
LEMMA PopMoreInv ==
  ASSUME PoolCount \in Nat, Inv, PopGoesOn,
         NEW n, NEW t, NEW left, NEW x, PopErases(n, t, x, left), Len(left) > 1,
         NEW f, f = PopFrame(t, Tail(left)), NEW y, y = left[2],
         stack' = Append(Below, f), Tell(t, y)
  PROVE  Inv'
<1> USE DEF Inv
<1>1. /\ n \in Nat /\ n > 0 /\ n \in 1 .. n /\ n = Len(stack) /\ stack[n] \in FrameSet
      /\ stack[n].kind = "pop" /\ stack[n].type = t /\ stack[n].left = left
      /\ t \in AllPools /\ left \in Seq(Handles) /\ left # << >> /\ IsInjective(left)
      /\ ToSet(left) \subseteq ToSet(own[t])
      /\ x \in Handles /\ x = Head(left) /\ x \in ToSet(left) /\ Has(t, x)
  BY DEF PopErases
<1>2. /\ own' \in [AllPools -> Seq(Handles)] /\ \A u \in AllPools : IsInjective(own'[u])
      /\ \A u \in AllPools : ToSet(own'[u]) = ToSet(own[u]) \ (IF u = t THEN {x} ELSE {})
      /\ \A u \in AllPools : u # t => own'[u] = own[u]
      /\ \A u \in AllPools : own'[u] # << >> => own[u] # << >>
      /\ alive' = alive
  BY DEF PopErases
<1>3. PICK rest : rest = Tail(left)
  OBVIOUS
<1>4. /\ rest \in Seq(Handles) /\ rest # << >> /\ IsInjective(rest) /\ Head(rest) = y
      /\ ToSet(rest) = ToSet(left) \ {x} /\ y \in ToSet(left) /\ y # x
  <2>1. /\ rest \in Seq(Handles) /\ rest # << >> /\ IsInjective(rest) /\ Head(rest) = y
        /\ ToSet(rest) = ToSet(left) \ {x}
    BY <1>1, <1>3, TailFacts
  <2>2. y \in ToSet(left) \ {x}
    BY <1>1, TailFacts
  <2> QED BY <2>1, <2>2
<1>5. y \in Handles /\ Has(t, y)
  BY <1>1, <1>4, PoolIs DEF Has
<1>6. f \in FrameSet /\ f.kind = "pop" /\ f.type = t /\ f.left = rest
  BY <1>1, <1>3, <1>4 DEF PopFrame, FrameSet
<1>7. /\ stack' \in Seq(FrameSet) /\ Len(stack') = n /\ stack'[n] = f
      /\ \A k \in 1 .. n : k # n => stack'[k] = stack[k]
  BY <1>1, <1>6, GoesOnIs
<1>8. \A k \in 1 .. n : stack[k] \in FrameSet /\ (k # n => k < n /\ k + 1 \in 1 .. n)
  BY <1>1, StackIs
<1>9. ASSUME NEW k \in 1 .. n, k # n, Tells(stack[k]) PROVE stack[k].type # t /\ stack[k].type \in AllPools
  <2>1. stack[k].type = t => Len(left) = 1
    BY <1>1, <1>9 DEF Apart, Telling, Tells, LoneOther
  <2> QED BY <1>8, <1>9, <2>1, FrameTypes DEF Tells
<1>10. \A u \in AllPools : \A id : Has(u, id)' <=> Has(u, id) /\ ~ (u = t /\ id = x)
  BY <1>2 DEF Has
<1>11. told' = [told EXCEPT ![t][y] = @ + 1]
  BY DEF Tell
<1>12. Typed'
  <2>1. told' \in [AllPools -> [Handles -> Nat]]
    BY <1>1, <1>5, <1>11 DEF Typed
  <2>2. alive' \subseteq Handles
    BY <1>2 DEF Typed
  <2> QED BY <1>2, <1>7, <2>1, <2>2 DEF Typed
<1>13. Whole'
  <2> SUFFICES ASSUME NEW k \in 1 .. n PROVE FrameWhole(stack[k])'
    BY <1>7 DEF Whole
  <2>1. CASE k = n
    <3>1. ToSet(rest) \subseteq ToSet(own'[t])
      BY <1>1, <1>2, <1>4
    <3> QED BY <1>4, <1>6, <1>7, <2>1, <3>1 DEF FrameWhole
  <2>2. CASE k # n
    <3>1. FrameWhole(stack[k])
      BY <1>1 DEF Whole
    <3> QED BY <1>2, <1>7, <1>9, <2>2, <3>1 DEF FrameWhole, Tells
  <2> QED BY <2>1, <2>2
<1>14. Nested'
  <2> SUFFICES ASSUME NEW k \in 1 .. n
               PROVE  /\ stack'[k].kind \in {"range", "clear"} => k = 1
                      /\ k < n => Above(stack'[k], stack'[k + 1])
    BY <1>7 DEF Nested
  <2>1. CASE k = n
    BY <1>1, <1>6, <1>7, <2>1
  <2>2. CASE k # n /\ k + 1 # n
    BY <1>1, <1>7, <1>8, <2>2 DEF Nested
  <2>3. CASE k # n /\ k + 1 = n
    <3>1. Above(stack[k], stack[n]) /\ stack'[k] = stack[k] /\ stack'[k + 1] = f
      BY <1>1, <1>7, <1>8, <2>3 DEF Nested
    <3>2. stack[k].kind # "destroy"
      <4>1. \A id : PopFrame(stack[k].next + 1, << id >>).left = << id >> /\ Len(<< id >>) = 1
        BY DEF PopFrame
      <4> QED BY <1>1, <3>1, <4>1 DEF Above
    <3>3. /\ stack[k].kind \in {"range", "clear"} => k = 1
      BY <1>1 DEF Nested
    <3> QED BY ZenonT(60), <1>1, <1>6, <3>1, <3>2, <3>3 DEF Above
  <2> QED BY <2>1, <2>2, <2>3
<1>15. Apart'
  <2> SUFFICES ASSUME NEW j \in 1 .. Len(stack'), NEW k \in 1 .. Len(stack'), j # k,
                      Tells(stack'[j]), Tells(stack'[k]), stack'[j].type = stack'[k].type
               PROVE  stack'[k].kind = "pop" /\ LoneOther(stack'[j], Head(stack'[k].left))
    BY ApartIs
  <2>1. j # n /\ k # n
    BY <1>6, <1>7, <1>9
  <2> QED BY <1>1, <1>7, <2>1 DEF Apart, Telling, Tells
<1>16. Cleared'
  <2> SUFFICES ASSUME NEW j \in 1 .. Len(stack'), NEW k \in 1 .. Len(stack'), j < k,
                      Tells(stack'[j]), stack'[k].kind = "destroy",
                      Has(stack[j].type, stack[k].id)'
               PROVE  LoneOther(stack'[j], stack'[k].id)
    BY DEF Cleared, Telling, Tells
  <2>0. j \in 1 .. n /\ k \in 1 .. n
    BY <1>7
  <2>1. k # n /\ j # n
    BY <1>1, <1>6, <1>7, <2>0
  <2>2. stack'[k] = stack[k] /\ stack'[j] = stack[j] /\ stack[j].type \in AllPools
    BY <1>7, <1>9, <2>0, <2>1
  <2>3. Has(stack[j].type, stack[k].id)
    BY <1>10, <2>2 DEF Has
  <2> QED BY <1>1, <2>0, <2>2, <2>3 DEF Cleared, Telling, Tells
<1>17. Walked'
  <2> SUFFICES ASSUME NEW k \in 1 .. n, Walks(stack'[k])
               PROVE  /\ stack'[k].kind = "destroy" => DestroyWalked(k)'
                      /\ stack'[k].kind = "range" => RangeWalked(k)'
                      /\ stack'[k].kind = "clear" => ClearWalked(k)'
    BY <1>7 DEF Walked, Walks
  <2>1. k # n /\ k < n /\ stack'[k] = stack[k] /\ k + 1 \in 1 .. n
    BY <1>6, <1>7, <1>8 DEF Walks
  <2>2. /\ stack[k].kind = "destroy" => DestroyWalked(k)
        /\ stack[k].kind = "range" => RangeWalked(k)
        /\ stack[k].kind = "clear" => ClearWalked(k)
    BY <1>1 DEF Walked
  <2>3. stack[k].kind = "destroy" => DestroyWalked(k)'
    BY <1>1, <1>7, <1>10, <2>1, <2>2 DEF DestroyWalked
  <2>4. stack[k].kind = "clear" => ClearWalked(k)'
    BY <1>1, <1>2, <1>7, <2>1, <2>2 DEF ClearWalked
  <2>5. ASSUME stack[k].kind = "range", NEW u \in AllPools, NEW m \in 1 .. Len(stack[k].ids),
               Has(u, stack[k].ids[m]), ~ (u = t /\ stack[k].ids[m] = x)
        PROVE  \/ u > stack[k].pool
               \/ u = stack[k].pool /\ m >= stack[k].from
               \/ u = stack[k].pool /\ stack[k].ids[m] \in ToSet(stack'[k + 1].left)
    <3>1. \/ u > stack[k].pool
          \/ u = stack[k].pool /\ m >= stack[k].from
          \/ u = stack[k].pool /\ stack[k].ids[m] \in ToSet(stack[k + 1].left)
      BY <2>2, <2>5 DEF RangeWalked
    <3>2. CASE k + 1 # n
      BY <1>7, <2>1, <3>1, <3>2
    <3>3. CASE k + 1 = n
      <4>1. stack[k].pool = t
        BY <1>1, <2>1, <2>5, <3>3 DEF Nested, Above
      <4>2. stack[k + 1].left = left /\ stack'[k + 1].left = rest
        BY <1>1, <1>6, <1>7, <3>3
      <4> QED BY <1>4, <2>5, <3>1, <4>1, <4>2
    <3> QED BY <3>2, <3>3
  <2>6. ASSUME stack[k].kind = "range" PROVE RangeWalked(k)'
    <3> SUFFICES ASSUME NEW u \in AllPools, NEW m \in 1 .. Len(stack[k].ids),
                        Has(u, stack[k].ids[m])'
                 PROVE  \/ u > stack[k].pool
                        \/ u = stack[k].pool /\ m >= stack[k].from
                        \/ u = stack[k].pool /\ stack[k].ids[m] \in ToSet(stack'[k + 1].left)
      BY <1>7, <2>1 DEF RangeWalked
    <3>1. Has(u, stack[k].ids[m]) /\ ~ (u = t /\ stack[k].ids[m] = x)
      BY <1>10, <2>1 DEF Has
    <3> QED BY <2>5, <2>6, <3>1
  <2> QED BY <2>1, <2>3, <2>4, <2>6
<1>18. Valid'
  BY <1>2 DEF Valid
<1>19. Told'
  <2> SUFFICES ASSUME NEW u \in AllPools, NEW id \in Handles PROVE ToldSound(u, id)'
    BY DEF Told
  <2>1. ASSUME NEW k \in 1 .. n, k # n
        PROVE  /\ Announced(stack[k], u, id)' <=> Announced(stack[k], u, id)
               /\ u = t => ~ Announced(stack[k], u, id)
    BY <1>2, <1>7, <1>9, <2>1 DEF Announced, Tells
  <2>2. Announced(stack[n], u, id) <=> u = t /\ id = x
    BY <1>1 DEF Announced
  <2>3. Announced(stack[n], u, id)' <=> u = t /\ id = y
    BY <1>4, <1>6, <1>7 DEF Announced
  <2>4. Going(u, id)' <=> \E k \in 1 .. n : Announced(stack[k], u, id)'
    BY <1>7 DEF Going
  <2>5. u = t => (Going(u, id) <=> id = x) /\ (Going(u, id)' <=> id = y)
    BY <1>1, <2>1, <2>2, <2>3, <2>4 DEF Going
  <2>6. u # t => (Going(u, id)' <=> Going(u, id))
    BY <1>1, <2>1, <2>2, <2>3, <2>4 DEF Going
  <2>7. told'[u][id] = IF u = t /\ id = y THEN told[u][id] + 1 ELSE told[u][id]
    BY <1>11 DEF Typed
  <2>8. ToldSound(u, id)
    BY DEF Told
  <2>9. CASE u = t
    BY <1>4, <1>5, <1>10, <2>5, <2>7, <2>8, <2>9 DEF ToldSound
  <2>10. CASE u # t
    BY <1>10, <2>6, <2>7, <2>8, <2>10 DEF ToldSound
  <2> QED BY <2>9, <2>10
<1> QED BY <1>12, <1>13, <1>14, <1>15, <1>16, <1>17, <1>18, <1>19

(* The elements of gone leave pool t as the call ends that told of them.   *)
EndsWith(n, t, gone) ==
  /\ n \in Nat /\ n > 0 /\ n = Len(stack) /\ Tells(stack[n]) /\ stack[n].type = t
  /\ t \in AllPools /\ gone \subseteq Handles
  /\ \A id \in Handles : Announced(stack[n], t, id) <=> id \in gone
  /\ stack[n].kind = "pop" => ToSet(stack[n].left) \subseteq gone
  /\ stack[n].kind = "popall" => own'[t] = << >>
  /\ \A k \in 1 .. n : k # n /\ Tells(stack[k]) /\ stack[k].type = t
                         => stack[k].kind = "pop" /\ ToSet(stack[k].left) \cap gone = {}
  /\ own' \in [AllPools -> Seq(Handles)] /\ \A u \in AllPools : IsInjective(own'[u])
  /\ \A u \in AllPools : ToSet(own'[u]) = ToSet(own[u]) \ (IF u = t THEN gone ELSE {})
  /\ \A u \in AllPools : u # t => own'[u] = own[u]
  /\ \A u \in AllPools : own'[u] # << >> => own[u] # << >>
  /\ alive' = alive /\ stack' = Below /\ told' = told

LEMMA PopEndsInv ==
  ASSUME Inv, NEW n, NEW t, NEW gone, EndsWith(n, t, gone)
  PROVE  Inv'
<1> USE DEF Inv
<1>1. /\ n \in Nat /\ n > 0 /\ n \in 1 .. n /\ n = Len(stack) /\ stack[n] \in FrameSet
      /\ Tells(stack[n]) /\ stack[n].type = t /\ t \in AllPools /\ gone \subseteq Handles
      /\ \A id \in Handles : Announced(stack[n], t, id) <=> id \in gone
      /\ stack[n].kind = "pop" => ToSet(stack[n].left) \subseteq gone
      /\ stack[n].kind = "popall" => own'[t] = << >>
      /\ \A k \in 1 .. n : k # n /\ Tells(stack[k]) /\ stack[k].type = t
                             => stack[k].kind = "pop" /\ ToSet(stack[k].left) \cap gone = {}
  BY StackIs DEF EndsWith
<1>2. /\ own' \in [AllPools -> Seq(Handles)] /\ \A u \in AllPools : IsInjective(own'[u])
      /\ \A u \in AllPools : ToSet(own'[u]) = ToSet(own[u]) \ (IF u = t THEN gone ELSE {})
      /\ \A u \in AllPools : u # t => own'[u] = own[u]
      /\ \A u \in AllPools : own'[u] # << >> => own[u] # << >>
      /\ alive' = alive /\ stack' = Below /\ told' = told
  BY DEF EndsWith
<1>3. stack # << >>
  BY <1>1, StackIs
<1>4. /\ stack' \in Seq(FrameSet) /\ Len(stack') = n - 1
      /\ \A k \in 1 .. n - 1 : stack'[k] = stack[k] /\ k \in 1 .. n /\ k # n
  <2>1. stack' \in Seq(FrameSet) /\ Popped(stack, stack')
    BY <1>2, <1>3, PopFacts DEF Typed, Below
  <2> QED BY <1>1, <2>1 DEF Popped
<1>5. \A k \in 1 .. n : /\ stack[k] \in FrameSet /\ (k # n => k \in 1 .. n - 1 /\ k < n /\ k + 1 \in 1 .. n)
                        /\ Tells(stack[k]) => stack[k].type \in AllPools
  BY <1>1, StackIs, FrameTypes DEF Tells
<1>6. \A u \in AllPools : \A id : Has(u, id)' <=> Has(u, id) /\ ~ (u = t /\ id \in gone)
  BY <1>2 DEF Has
<1>7. Typed'
  BY <1>2, <1>4 DEF Typed
<1>8. Whole'
  <2> SUFFICES ASSUME NEW k \in 1 .. n - 1 PROVE FrameWhole(stack[k])'
    BY <1>4 DEF Whole
  <2>1. FrameWhole(stack[k]) /\ stack'[k] = stack[k] /\ k \in 1 .. n /\ k # n
    BY <1>1, <1>4 DEF Whole
  <2>2. CASE Tells(stack[k]) /\ stack[k].type = t
    <3>1. stack[k].kind = "pop" /\ ToSet(stack[k].left) \cap gone = {}
      BY <1>1, <2>1, <2>2
    <3> QED BY <1>2, <1>1, <2>1, <2>2, <3>1 DEF FrameWhole
  <2>3. CASE Tells(stack[k]) /\ stack[k].type # t
    BY <1>2, <1>5, <2>1, <2>3 DEF FrameWhole, Tells
  <2>4. CASE ~ Tells(stack[k])
    BY <2>1, <2>4 DEF FrameWhole, Tells
  <2> QED BY <2>2, <2>3, <2>4
<1>9. Nested'
  <2> SUFFICES ASSUME NEW k \in 1 .. n - 1
               PROVE  /\ stack'[k].kind \in {"range", "clear"} => k = 1
                      /\ k < n - 1 => Above(stack'[k], stack'[k + 1])
    BY <1>4 DEF Nested
  <2>1. k < n - 1 => k + 1 \in 1 .. n - 1
    BY <1>1
  <2> QED BY <1>1, <1>4, <1>5, <2>1 DEF Nested
<1>10. Apart'
  <2> SUFFICES ASSUME NEW j \in 1 .. Len(stack'), NEW k \in 1 .. Len(stack'), j # k,
                      Tells(stack'[j]), Tells(stack'[k]), stack'[j].type = stack'[k].type
               PROVE  stack'[k].kind = "pop" /\ LoneOther(stack'[j], Head(stack'[k].left))
    BY ApartIs
  <2>1. stack'[j] = stack[j] /\ stack'[k] = stack[k] /\ j \in 1 .. n /\ k \in 1 .. n
    BY <1>4
  <2> QED BY <1>1, <2>1 DEF Apart, Telling, Tells
<1>11. Cleared'
  <2> SUFFICES ASSUME NEW j \in 1 .. Len(stack'), NEW k \in 1 .. Len(stack'), j < k,
                      Tells(stack'[j]), stack'[k].kind = "destroy",
                      Has(stack[j].type, stack[k].id)'
               PROVE  LoneOther(stack'[j], stack'[k].id)
    BY DEF Cleared, Telling, Tells
  <2>1. stack'[j] = stack[j] /\ stack'[k] = stack[k] /\ j \in 1 .. n /\ k \in 1 .. n
        /\ stack[j].type \in AllPools
    BY <1>4, <1>5
  <2>2. Has(stack[j].type, stack[k].id)
    BY <1>6, <2>1 DEF Has
  <2> QED BY <1>1, <2>1, <2>2 DEF Cleared, Telling, Tells
<1>12. Walked'
  <2> SUFFICES ASSUME NEW k \in 1 .. n - 1, Walks(stack'[k])
               PROVE  /\ stack'[k].kind = "destroy" => DestroyWalked(k)'
                      /\ stack'[k].kind = "range" => RangeWalked(k)'
                      /\ stack'[k].kind = "clear" => ClearWalked(k)'
    BY <1>4 DEF Walked, Walks
  <2>1. k # n /\ k < n /\ stack'[k] = stack[k] /\ k \in 1 .. n /\ k + 1 \in 1 .. n
    BY <1>4, <1>5
  <2>2. /\ stack[k].kind = "destroy" => DestroyWalked(k)
        /\ stack[k].kind = "range" => RangeWalked(k)
        /\ stack[k].kind = "clear" => ClearWalked(k)
        /\ Above(stack[k], stack[k + 1])
    BY <1>1, <2>1 DEF Walked, Nested
  <2>3. k + 1 # n => k < Len(stack') /\ stack'[k + 1] = stack[k + 1]
    BY <1>1, <1>4, <2>1
  <2>4. ASSUME stack[k].kind = "destroy" PROVE DestroyWalked(k)'
    <3> SUFFICES ASSUME NEW u \in AllPools, Has(u, stack[k].id)'
                 PROVE  u <= stack[k].next \/ (k < Len(stack') /\ u = stack[k].next + 1)
      BY <2>1 DEF DestroyWalked
    <3>1. Has(u, stack[k].id) /\ ~ (u = t /\ stack[k].id \in gone)
      BY <1>6, <2>1 DEF Has
    <3>2. u <= stack[k].next \/ u = stack[k].next + 1
      BY <2>2, <2>4, <3>1 DEF DestroyWalked
    <3>3. CASE k + 1 # n
      BY <2>3, <3>2, <3>3
    <3>4. CASE k + 1 = n
      <4>1. stack[n] = PopFrame(stack[k].next + 1, << stack[k].id >>)
        BY <2>2, <2>4, <3>4 DEF Above
      <4>2. /\ stack[n].type = stack[k].next + 1 /\ stack[n].left = << stack[k].id >>
            /\ stack[n].kind = "pop"
        BY <4>1 DEF PopFrame
      <4>3. stack[k].id \in ToSet(<< stack[k].id >>)
        BY DEF ToSet
      <4> QED BY <1>1, <3>1, <3>2, <4>2, <4>3
    <3> QED BY <3>3, <3>4
  <2>5. ASSUME stack[k].kind = "clear" PROVE ClearWalked(k)'
    <3> SUFFICES ASSUME NEW u \in AllPools, own'[u] # << >>
                 PROVE  u <= stack[k].next \/ (k < Len(stack') /\ u = stack[k].next + 1)
      BY <2>1 DEF ClearWalked
    <3>1. u <= stack[k].next \/ u = stack[k].next + 1
      BY <1>2, <2>2, <2>5 DEF ClearWalked
    <3>2. k + 1 = n => u # stack[k].next + 1
      BY <1>1, <2>2, <2>5 DEF Above
    <3> QED BY <2>3, <3>1, <3>2
  <2>6. ASSUME stack[k].kind = "range" PROVE RangeWalked(k)'
    <3> SUFFICES ASSUME NEW u \in AllPools, NEW m \in 1 .. Len(stack[k].ids),
                        Has(u, stack[k].ids[m])'
                 PROVE  \/ u > stack[k].pool
                        \/ u = stack[k].pool /\ m >= stack[k].from
                        \/ /\ u = stack[k].pool /\ k < Len(stack')
                           /\ stack[k].ids[m] \in ToSet(stack'[k + 1].left)
      BY <2>1 DEF RangeWalked
    <3>1. Has(u, stack[k].ids[m]) /\ ~ (u = t /\ stack[k].ids[m] \in gone)
      BY <1>6, <2>1 DEF Has
    <3>2. \/ u > stack[k].pool
          \/ u = stack[k].pool /\ m >= stack[k].from
          \/ u = stack[k].pool /\ stack[k].ids[m] \in ToSet(stack[k + 1].left)
      BY <2>2, <2>6, <3>1 DEF RangeWalked
    <3>3. CASE k + 1 # n
      BY <2>3, <3>2, <3>3
    <3>4. CASE k + 1 = n
      <4>1. stack[n].kind = "pop" /\ stack[n].type = stack[k].pool
        BY <2>2, <2>6, <3>4 DEF Above
      <4> QED BY <1>1, <3>1, <3>2, <3>4, <4>1
    <3> QED BY <3>3, <3>4
  <2> QED BY <2>1, <2>4, <2>5, <2>6
<1>13. Valid'
  BY <1>2 DEF Valid
<1>14. Told'
  <2> SUFFICES ASSUME NEW u \in AllPools, NEW id \in Handles PROVE ToldSound(u, id)'
    BY DEF Told
  <2>1. ASSUME NEW k \in 1 .. n - 1
        PROVE  Announced(stack[k], u, id)' <=> Announced(stack[k], u, id)
    <3>1. k \in 1 .. n /\ k # n /\ stack'[k] = stack[k]
      BY <1>4
    <3>2. stack[k].kind = "popall" => stack[k].type # t
      BY <1>1, <3>1 DEF Tells
    <3> QED BY <1>2, <3>1, <3>2 DEF Announced
  <2>2. Announced(stack[n], u, id) <=> u = t /\ id \in gone
    BY <1>1 DEF Announced
  <2>3. Going(u, id)' <=> \E k \in 1 .. n - 1 : Announced(stack[k], u, id)'
    BY <1>4 DEF Going
  <2>4. Going(u, id) <=> (u = t /\ id \in gone) \/ Going(u, id)'
    BY <1>1, <1>4, <1>5, <2>1, <2>2, <2>3 DEF Going
  <2>5. ToldSound(u, id)
    BY DEF Told
  <2> QED BY <1>2, <1>6, <2>4, <2>5 DEF ToldSound
<1> QED BY <1>7, <1>8, <1>9, <1>10, <1>11, <1>12, <1>13, <1>14

LEMMA PopGoesOnInv == ASSUME PoolCount \in Nat, Inv, PopGoesOn PROVE Inv'
<1>1. PICK n : n = Len(stack)
  OBVIOUS
<1>2. PICK t : t = Top.type
  OBVIOUS
<1>3. PICK left : left = Top.left
  OBVIOUS
<1>4. PICK x : x = Head(left)
  OBVIOUS
<1>5. PopErases(n, t, x, left)
  BY <1>1, <1>2, <1>3, <1>4, PopErasesIs
<1>6. /\ stack # << >> /\ Top = stack[n]
      /\ \/ /\ Len(left) > 1 /\ Tell(t, left[2])
            /\ stack' = Append(Below, [Top EXCEPT !.left = Tail(left)])
         \/ ~ (Len(left) > 1) /\ stack' = Below /\ told' = told
  BY <1>1, <1>2, <1>3, TopIs DEF PopGoesOn, Running, Inv
<1>7. CASE Len(left) > 1
  <2>1. Top = PopFrame(t, left)
    BY <1>5, <1>6 DEF PopErases
  <2>2. [Top EXCEPT !.left = Tail(left)] = PopFrame(t, Tail(left))
    <3>1. PICK rest : rest = Tail(left)
      OBVIOUS
    <3>2. Top = [kind |-> "pop", type |-> t, left |-> left]
      BY <2>1 DEF PopFrame
    <3>3. [Top EXCEPT !.left = rest] = [kind |-> "pop", type |-> t, left |-> rest]
      BY <3>2
    <3> QED BY <3>1, <3>3 DEF PopFrame
  <2> QED BY <1>5, <1>6, <1>7, <2>2, PopMoreInv
<1>8. CASE ~ (Len(left) > 1)
  <2>1. /\ n \in Nat /\ n > 0 /\ n = Len(stack) /\ stack[n] \in FrameSet
        /\ stack[n].kind = "pop" /\ stack[n].type = t /\ stack[n].left = left
        /\ t \in AllPools /\ left \in Seq(Handles) /\ left # << >> /\ IsInjective(left)
        /\ x \in Handles /\ x = Head(left)
    BY <1>5 DEF PopErases
  <2>2. \A s \in Seq(Handles) : s # << >> /\ ~ (Len(s) > 1) => ToSet(s) = {Head(s)}
    <3> SUFFICES ASSUME NEW s \in Seq(Handles), s # << >>, ~ (Len(s) > 1)
                 PROVE  ToSet(s) = {Head(s)}
      OBVIOUS
    <3>1. Len(s) = 1
      <4>1. Len(s) \in Nat /\ Len(s) > 0
        BY SeqFacts
      <4>2. \A i \in Nat : i > 0 /\ ~ (i > 1) => i = 1
        OBVIOUS
      <4> QED BY <4>1, <4>2
    <3>2. Head(s) = s[1]
      OBVIOUS
    <3> QED BY <3>1, <3>2, ElementsIs
  <2>3. ToSet(left) = {x}
    BY <1>8, <2>1, <2>2
  <2>4. ASSUME NEW k \in 1 .. n, k # n, Tells(stack[k]), stack[k].type = t
        PROVE  stack[k].kind = "pop" /\ ToSet(stack[k].left) \cap {x} = {}
    <3>1. n \in 1 .. n /\ stack[k] \in FrameSet
      BY <2>1, StackIs DEF Inv
    <3>2. stack[k].kind = "pop" /\ LoneOther(stack[k], x)
      BY <2>1, <2>4, <3>1 DEF Inv, Apart, Telling, Tells
    <3>3. stack[k].left \in Seq(Handles) /\ stack[k].left # << >> /\ ~ (Len(stack[k].left) > 1)
      BY <2>1, <3>1, <3>2, FrameTypes DEF Inv, Whole, FrameWhole, LoneOther
    <3> QED BY <2>2, <3>2, <3>3 DEF LoneOther
  <2>5. \A id : Announced(stack[n], t, id) <=> id = x
    BY <2>1 DEF Announced
  <2>6. stack' = Below /\ told' = told /\ Tells(stack[n])
    BY <1>6, <1>8, <2>1 DEF Tells
  <2>7. EndsWith(n, t, {x})
    BY <1>5, <2>1, <2>3, <2>4, <2>5, <2>6 DEF EndsWith, PopErases
  <2> QED BY <2>7, PopEndsInv
<1> QED BY <1>7, <1>8

LEMMA TellTypes ==
  ASSUME Typed, NEW t \in AllPools, NEW y \in Handles, Tell(t, y)
  PROVE  told' \in [AllPools -> [Handles -> Nat]]
BY DEF Typed, Tell

(* What is to be shown of the removals that go on below a destruction.     *)
LEMMA ClearedIs ==
  ASSUME \A j, k \in 1 .. Len(stack') :
           j < k /\ Tells(stack'[j]) /\ stack'[k].kind = "destroy" /\ Has(stack[j].type, stack[k].id)'
             => LoneOther(stack'[j], stack'[k].id)
  PROVE  Cleared'
BY DEF Cleared, Telling, Tells

(* The next position of a pool that is being emptied.                      *)
LEMMA PopAllMoreInv ==
  ASSUME Inv, NEW n, n = Len(stack), stack # << >>, stack[n].kind = "popall",
         NEW t, t = stack[n].type, NEW m, m = stack[n].next, m > 1,
         NEW f, f = [kind |-> "popall", type |-> t, next |-> m - 1],
         NEW y, y = own[t][m - 1],
         stack' = Append(Below, f), Tell(t, y), own' = own, alive' = alive
  PROVE  Inv'
<1> USE DEF Inv
<1>1. n \in Nat /\ n > 0 /\ n \in 1 .. n /\ stack[n] \in FrameSet
  BY TopIs, StackIs
<1>2. t \in AllPools /\ m \in Nat /\ m <= Len(own[t])
  BY <1>1, FrameTypes DEF Whole, FrameWhole
<1>3. Len(own[t]) \in Nat /\ m - 1 \in 1 .. Len(own[t]) /\ m - 1 \in Nat
  <2>1. PICK last \in Nat : last = Len(own[t])
    BY <1>2, PoolIs
  <2>2. m - 1 \in 1 .. last /\ m - 1 \in Nat
    BY <1>2, <2>1
  <2> QED BY <2>1, <2>2
<1>4. f \in FrameSet /\ f.kind = "popall" /\ f.type = t /\ f.next = m - 1
  BY <1>2, <1>3 DEF FrameSet
<1>5. y \in Handles /\ Has(t, y)
  BY <1>2, <1>3, InPool
<1>6. /\ stack' \in Seq(FrameSet) /\ Len(stack') = n /\ stack'[n] = f
      /\ \A k \in 1 .. n : k # n => stack'[k] = stack[k]
  BY <1>4, GoesOnIs
<1>7. \A k \in 1 .. n : k # n => k < n /\ k + 1 \in 1 .. n
  BY <1>1
<1>8. ASSUME NEW k \in 1 .. n, k # n, Tells(stack[k]) PROVE stack[k].type # t
  BY <1>1, <1>8 DEF Apart, Telling, Tells
<1>9. Typed'
  <2>1. told' \in [AllPools -> [Handles -> Nat]]
    BY <1>2, <1>5, TellTypes
  <2> QED BY <1>6, <2>1 DEF Typed
<1>10. Whole'
  <2> SUFFICES ASSUME NEW k \in 1 .. n PROVE FrameWhole(stack[k])'
    BY <1>6 DEF Whole
  <2>1. 0 < m - 1 /\ m - 1 <= Len(own[t])
    BY <1>2, <1>3
  <2>2. CASE k = n
    BY <1>4, <1>6, <2>1, <2>2 DEF FrameWhole
  <2>3. CASE k # n
    <3>1. FrameWhole(stack[k]) /\ stack'[k] = stack[k]
      BY <1>6, <2>3 DEF Whole
    <3> QED BY <3>1 DEF FrameWhole
  <2> QED BY <2>2, <2>3
<1>11. Nested'
  <2> SUFFICES ASSUME NEW k \in 1 .. n
               PROVE  /\ stack'[k].kind \in {"range", "clear"} => k = 1
                      /\ k < n => Above(stack'[k], stack'[k + 1])
    BY <1>6 DEF Nested
  <2>1. CASE k = n
    BY <1>1, <1>4, <1>6, <2>1
  <2>2. CASE k # n /\ k + 1 # n
    BY <1>6, <1>7, <2>2 DEF Nested
  <2>3. CASE k # n /\ k + 1 = n
    <3>1. Above(stack[k], stack[n]) /\ stack'[k] = stack[k] /\ stack'[k + 1] = f
      BY <1>6, <1>7, <2>3 DEF Nested
    <3>2. \A u, ids : PopFrame(u, ids).kind = "pop"
      BY DEF PopFrame
    <3>3. stack[k].kind \in {"range", "clear"} => k = 1
      BY DEF Nested
    <3> QED BY ZenonT(60), <1>4, <3>1, <3>2, <3>3 DEF Above
  <2> QED BY <2>1, <2>2, <2>3
<1>12. Apart'
  <2>1. ASSUME NEW j \in 1 .. Len(stack'), NEW k \in 1 .. Len(stack'), j # k,
               Tells(stack'[j]), Tells(stack'[k]), stack'[j].type = stack'[k].type
        PROVE  stack'[k].kind = "pop" /\ LoneOther(stack'[j], Head(stack'[k].left))
    <3>1. j # n /\ k # n
      BY <1>4, <1>6, <1>8, <2>1
    <3> QED BY <1>6, <2>1, <3>1 DEF Apart, Telling, Tells
  <2> QED BY ONLY <2>1, ApartIs
<1>13. Cleared'
  <2>1. ASSUME NEW j \in 1 .. Len(stack'), NEW k \in 1 .. Len(stack'), j < k,
               Tells(stack'[j]), stack'[k].kind = "destroy",
               Has(stack[j].type, stack[k].id)'
        PROVE  LoneOther(stack'[j], stack'[k].id)
    <3>1. k # n /\ j # n /\ j \in 1 .. n /\ k \in 1 .. n
      BY <1>1, <1>4, <1>6, <2>1
    <3>2. stack'[k] = stack[k] /\ stack'[j] = stack[j] /\ Has(stack[j].type, stack[k].id)
      BY <1>6, <2>1, <3>1 DEF Has
    <3> QED BY <2>1, <3>1, <3>2 DEF Cleared, Telling, Tells
  <2> QED BY ONLY <2>1, ClearedIs
<1>14. Walked'
  <2> SUFFICES ASSUME NEW k \in 1 .. n, Walks(stack'[k])
               PROVE  /\ stack'[k].kind = "destroy" => DestroyWalked(k)'
                      /\ stack'[k].kind = "range" => RangeWalked(k)'
                      /\ stack'[k].kind = "clear" => ClearWalked(k)'
    BY <1>6 DEF Walked, Walks
  <2>1. k # n /\ k < n /\ stack'[k] = stack[k] /\ k + 1 \in 1 .. n
    BY SMTT(60), <1>4, <1>6, <1>7 DEF Walks
  <2>2. /\ stack[k].kind = "destroy" => DestroyWalked(k)
        /\ stack[k].kind = "range" => RangeWalked(k)
        /\ stack[k].kind = "clear" => ClearWalked(k)
    BY DEF Walked
  <2>3. stack[k].kind = "range" => stack'[k + 1] = stack[k + 1]
    BY <1>6, <2>1 DEF Nested, Above
  <2> QED BY ZenonT(60), <1>6, <2>1, <2>2, <2>3 DEF DestroyWalked, RangeWalked, ClearWalked, Has
<1>15. Valid'
  BY DEF Valid
<1>16. ASSUME NEW u \in AllPools, NEW id \in Handles
       PROVE  Going(u, id)' <=> Going(u, id) \/ (u = t /\ id = y)
  <2>1. Announced(f, u, id) <=> Announced(stack[n], u, id) \/ (u = t /\ id = y)
    <3>1. \A i : i \in m - 1 .. Len(own[t]) <=> i \in m .. Len(own[t]) \/ i = m - 1
      BY <1>2, <1>3
    <3> QED BY <1>4, <3>1 DEF Announced
  <2>2. Going(u, id)' <=> \E k \in 1 .. n : Announced(stack'[k], u, id)
    <3>1. \A k \in 1 .. n : Announced(stack[k], u, id)' <=> Announced(stack'[k], u, id)
      BY DEF Announced
    <3> QED BY <1>6, <3>1 DEF Going
  <2> QED BY SMTT(60), <1>1, <1>6, <2>1, <2>2 DEF Going
<1>17. ~ Going(t, y)
  <2> SUFFICES ASSUME NEW k \in 1 .. n, Announced(stack[k], t, y)
               PROVE  FALSE
    BY DEF Going
  <2>1. k = n
    BY <1>8 DEF Announced, Tells
  <2>2. PICK i \in m .. Len(own[t]) : own[t][i] = own[t][m - 1]
    BY <2>1 DEF Announced
  <2>3. i \in 1 .. Len(own[t]) /\ i # m - 1
    <3>1. PICK last : last = Len(own[t])
      OBVIOUS
    <3>2. \A j \in m .. last : j \in 1 .. last /\ j # m - 1
      BY ONLY <1>2, <1>3, <3>1
    <3> QED BY <3>1, <3>2
  <2> QED BY <1>2, <1>3, <2>2, <2>3, PoolIs
<1>18. Told'
  BY <1>2, <1>5, <1>16, <1>17, ToldOneMore DEF Tell
<1> QED BY <1>9, <1>10, <1>11, <1>12, <1>13, <1>14, <1>15, <1>18

LEMMA PopAllGoesOnInv == ASSUME PoolCount \in Nat, Inv, PopAllGoesOn PROVE Inv'
<1>1. PICK n : n = Len(stack)
  OBVIOUS
<1>2. PICK t : t = Top.type
  OBVIOUS
<1>3. PICK m : m = Top.next
  OBVIOUS
<1>4. /\ stack # << >> /\ Top.kind = "popall" /\ alive' = alive
      /\ \/ /\ m > 1 /\ Tell(t, own[t][m - 1]) /\ own' = own
            /\ stack' = Append(Below, [Top EXCEPT !.next = m - 1])
         \/ /\ ~ (m > 1) /\ own' = [own EXCEPT ![t] = << >>]
            /\ stack' = Below /\ told' = told
  BY <1>2, <1>3 DEF PopAllGoesOn, Running
<1>5. /\ Top = stack[n] /\ Top \in FrameSet /\ n \in Nat /\ n > 0 /\ n \in 1 .. n
  BY <1>1, <1>4, TopIs DEF Inv
<1>6. Top = [kind |-> "popall", type |-> t, next |-> m] /\ t \in AllPools /\ m \in Nat
  <2>1. Top \in [kind : {"popall"}, type : AllPools, next : Nat]
    BY <1>4, <1>5 DEF FrameSet
  <2> QED BY <1>2, <1>3, <2>1
<1>7. CASE m > 1
  <2>1. PICK f : f = [kind |-> "popall", type |-> t, next |-> m - 1]
    OBVIOUS
  <2>2. stack' = Append(Below, f)
    <3>1. [Top EXCEPT !.next = m - 1] = [kind |-> "popall", type |-> t, next |-> m - 1]
      BY <1>6
    <3> QED BY <1>4, <1>7, <2>1, <3>1
  <2>3. PICK y : y = own[t][m - 1]
    OBVIOUS
  <2>4. Tell(t, y) /\ own' = own
    BY <1>4, <1>7, <2>3
  <2> QED BY <1>1, <1>2, <1>3, <1>4, <1>5, <1>7, <2>1, <2>2, <2>3, <2>4, PopAllMoreInv
<1>8. CASE ~ (m > 1)
  <2>1. m > 0 /\ m = 1
    <3>1. FrameWhole(Top)
      BY <1>1, <1>5 DEF Inv, Whole
    <3> QED BY <1>3, <1>4, <1>6, <1>8, <3>1 DEF FrameWhole
  <2>2. PICK gone : gone = ToSet(own[t])
    OBVIOUS
  <2>3. /\ gone \subseteq Handles /\ gone = {own[t][i] : i \in 1 .. Len(own[t])}
    BY <1>6, <2>2, PoolIs DEF Inv
  <2>4. stack[n].kind = "popall" /\ stack[n].type = t /\ stack[n].next = 1 /\ Tells(stack[n])
    BY <1>5, <1>6, <2>1 DEF Tells
  <2>5. \A id \in Handles : Announced(stack[n], t, id) <=> id \in gone
    BY <2>3, <2>4 DEF Announced
  <2>6. \A k \in 1 .. n : k # n /\ Tells(stack[k]) => stack[k].type # t
    BY <1>1, <1>5, <2>4 DEF Inv, Apart, Telling, Tells
  <2>7. /\ stack' = Below /\ told' = told
        /\ \A u \in AllPools : own'[u] = IF u = t THEN << >> ELSE own[u]
        /\ DOMAIN own' = AllPools
    BY <1>4, <1>8 DEF Inv, Typed
  <2>8. << >> \in Seq(Handles) /\ IsInjective(<< >>) /\ ToSet(<< >>) = {}
    BY DEF IsInjective, ToSet
  <2>9. own' \in [AllPools -> Seq(Handles)] /\ \A u \in AllPools : IsInjective(own'[u])
    <3>1. \A u \in AllPools : own'[u] \in Seq(Handles) /\ IsInjective(own'[u])
      BY <2>7, <2>8 DEF Inv, Typed
    <3>2. own' = [u \in AllPools |-> own'[u]]
      BY <1>4, <1>8 DEF Inv, Typed
    <3> QED BY <3>1, <3>2
  <2>10. \A u \in AllPools : ToSet(own'[u]) = ToSet(own[u]) \ (IF u = t THEN gone ELSE {})
    BY <2>2, <2>7, <2>8
  <2>11. /\ \A u \in AllPools : u # t => own'[u] = own[u]
         /\ \A u \in AllPools : own'[u] # << >> => own[u] # << >>
         /\ own'[t] = << >>
    BY <1>6, <2>7
  <2>12. EndsWith(n, t, gone)
    BY <1>1, <1>4, <1>5, <1>6, <2>3, <2>4, <2>5, <2>6, <2>7, <2>9, <2>10, <2>11 DEF EndsWith
  <2> QED BY <2>12, PopEndsInv
<1> QED BY <1>7, <1>8

-------------------------------------------------------------------------------
(* The invariant, and what follows from it.                                *)

LEMMA InitInv == Init => Inv
<1> SUFFICES ASSUME Init PROVE Inv
  OBVIOUS
<1>1. << >> \in Seq(Handles) /\ IsInjective(<< >>) /\ ToSet(<< >>) = {} /\ Len(<< >>) = 0
      /\ << >> \in Seq(FrameSet)
  BY DEF IsInjective, ToSet
<1>2. /\ alive = {} /\ own = [t \in AllPools |-> << >>] /\ stack = << >>
      /\ told = [t \in AllPools |-> [id \in Handles |-> 1]]
  BY DEF Init
<1>3. Typed
  BY <1>1, <1>2 DEF Typed
<1>4. Len(stack) = 0
  BY <1>1, <1>2
<1>5. Whole /\ Nested /\ Apart /\ Cleared /\ Walked /\ \A t, id : ~ Going(t, id)
  BY <1>4, NoCalls
<1>6. Valid
  BY <1>1, <1>2 DEF Valid
<1>7. Told
  BY <1>1, <1>2, <1>5 DEF Told, ToldSound, Has
<1> QED BY <1>3, <1>5, <1>6, <1>7 DEF Inv

LEMMA StepInv == PoolCount \in Nat /\ Inv /\ [Next]_vars => Inv'
<1> SUFFICES ASSUME PoolCount \in Nat, Inv, [Next]_vars PROVE Inv'
  OBVIOUS
<1>1. CASE UNCHANGED vars
  <2>1. alive' = alive /\ own' = own /\ stack' = stack /\ told' = told
    BY <1>1 DEF vars
  <2>2. Typed' /\ Valid'
    BY <2>1 DEF Inv, Typed, Valid
  <2>3. Whole'
    BY <2>1 DEF Inv, Whole, FrameWhole
  <2>4. Nested' /\ Apart' /\ Cleared'
    BY <2>1 DEF Inv, Nested, Apart, Telling, Cleared, Has
  <2>5. Walked'
    BY <2>1 DEF Inv, Walked, DestroyWalked, RangeWalked, ClearWalked, Has
  <2>6. Told'
    BY <2>1 DEF Inv, Told, ToldSound, Going, Announced, Has
  <2> QED BY <2>2, <2>3, <2>4, <2>5, <2>6 DEF Inv
<1>2. ASSUME NEW id \in Handles, Create(id) \/ Destroy(id) PROVE Inv'
  BY <1>2, CreateInv, DestroyInv
<1>3. ASSUME NEW t \in AllPools, NEW id \in Handles, Emplace(t, id) \/ EraseOne(t, id) PROVE Inv'
  BY <1>3, EmplaceInv, EraseOneInv
<1>4. ASSUME NEW t \in AllPools, NEW first \in 0 .. Len(own[t]), NEW last \in 0 .. Len(own[t]),
             EraseRange(t, first, last)
      PROVE  Inv'
  BY <1>4, EraseRangeInv
<1>5. ASSUME NEW ids \in BoundedSeq(alive, Cardinality(Handles)), DestroyRange(ids) PROVE Inv'
  <2>1. PICK m \in 0 .. Cardinality(Handles) : ids \in [1 .. m -> alive]
    BY DEF BoundedSeq, SeqOf
  <2>2. \A x \in alive : x \in Handles
    BY DEF Inv, Typed
  <2>3. m \in Nat /\ ids \in [1 .. m -> Handles]
    BY <2>1, <2>2
  <2>4. ids \in Seq(Handles)
    BY <2>3, SeqDef
  <2> QED BY <1>5, <2>4, DestroyRangeInv
<1>6. CASE Clear
  BY <1>6, ClearInv
<1>7. ASSUME NEW t \in AllPools, ClearType(t) PROVE Inv'
  BY <1>7, ClearTypeInv
<1>8. ASSUME NEW t \in AllPools, NEW seq \in Arrangements(t), Sort(t, seq) PROVE Inv'
  BY <1>8, SortInv
<1>9. CASE DestroyStep \/ DestroyReturns \/ RangeStep \/ RangeReturns \/ ClearStep \/ ClearReturns
  BY <1>9, DestroyStepInv, DestroyReturnsInv, RangeStepInv, RangeReturnsInv, ClearStepInv,
     ClearReturnsInv
<1>10. CASE PopGoesOn \/ PopAllGoesOn
  BY <1>10, PopGoesOnInv, PopAllGoesOnInv
<1> QED BY <1>1, <1>2, <1>3, <1>4, <1>5, <1>6, <1>7, <1>8, <1>9, <1>10 DEF Next

LEMMA InvExact == Inv => CascadeExact
<1> SUFFICES ASSUME Inv PROVE CascadeExact
  OBVIOUS
<1>1. ToldOnce
  BY LeavingIs DEF Inv, Told, ToldSound, ToldOnce
<1>2. NoneOutlives
  BY StackIs DEF Inv, Typed, Valid, Whole, FrameWhole, NoneOutlives, Frames
<1> QED BY <1>1, <1>2 DEF CascadeExact

(* A listener is told of every element once before it goes, no element     *)
(* outlives its entity, and what a removal in progress still has to erase  *)
(* is in the pool, however the destructions that listeners begin nest      *)
(* (registry::destroy, basic_sigh_mixin::pop and pop_all).                 *)
THEOREM CascadeIsExact == ASSUME PoolCount \in Nat PROVE Spec => []CascadeExact
<1>1. Spec => []Inv
  BY InitInv, StepInv, PTL DEF Spec
<1> QED BY <1>1, InvExact, PTL
===============================================================================
