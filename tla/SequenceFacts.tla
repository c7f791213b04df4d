----------------------------- MODULE SequenceFacts -----------------------------
(***************************************************************************)
(* Facts about sequences that the proofs share: a sequence as a stack      *)
(* whose last element is the innermost call, a sequence as a vector that   *)
(* is appended to and erased from, the elements of both, and the steps of  *)
(* a fold.                                                                 *)
(***************************************************************************)
EXTENDS Naturals, Sequences, SequencesExt, SequenceTheorems, WellFoundedInduction, TLAPS

(* t is s without its last element.                                        *)
Popped(s, t) ==
  /\ Len(t) = Len(s) - 1
  /\ \A i \in 1 .. Len(s) - 1 : t[i] = s[i]

(* t is s with x above it.                                                 *)
Pushed(s, x, t) ==
  /\ t # << >> /\ Len(t) = Len(s) + 1 /\ t[Len(s) + 1] = x
  /\ \A i \in 1 .. Len(s) : t[i] = s[i]

(* t is s with x instead of its last element.                              *)
Topped(s, x, t) ==
  /\ t # << >> /\ Len(t) = Len(s) /\ t[Len(s)] = x
  /\ \A i \in 1 .. Len(s) - 1 : t[i] = s[i]

(* t is s with its last element moved into the place of the n-th.          *)
SwapPopped(s, n, t) ==
  /\ Len(t) = Len(s) - 1
  /\ \A i \in 1 .. Len(s) - 1 : t[i] = IF i = n THEN s[Len(s)] ELSE s[i]

(* The elements of a part of a sequence.                                   *)
Slice(s, i, j) == {s[n] : n \in i .. j}

(* s goes up.                                                              *)
Rising(s) == \A i, j \in 1 .. Len(s) : i < j => s[i] < s[j]

(* The functions of a position and a value that stay in X.                 *)
StepsOf(n, X) == [(1 .. n) \X X -> X]

(* c is F applied step after step, from b.                                 *)
IsChain(c, F, n, X, b) ==
  c \in [0 .. n -> X] /\ c[0] = b /\ \A k \in 1 .. n : c[k] = F[<<k, c[k - 1]>>]

(* h is the fold of F over the sets of positions, from the last position.  *)
IsFold(h, F, n, X, b) ==
  /\ h \in [SUBSET (1 .. n) -> X]
  /\ \A u \in SUBSET (1 .. n) :
       h[u] = IF u = {} THEN b ELSE F[<<Max(u), h[u \ {Max(u)}]>>]

(* g does what that fold does as long as its values stay in X.             *)
Follows(g, F, n, X, b) ==
  /\ g[{}] = b
  /\ \A u \in SUBSET (1 .. n) :
       u # {} /\ g[u \ {Max(u)}] \in X => g[u] = F[<<Max(u), g[u \ {Max(u)}]>>]

(* The length of a sequence, and its elements.                             *)
LEMMA SeqFacts ==
  ASSUME NEW S, NEW s \in Seq(S)
  PROVE  /\ Len(s) \in Nat /\ DOMAIN s = 1 .. Len(s)
         /\ \A i \in 1 .. Len(s) : s[i] \in S
         /\ s # << >> <=> Len(s) > 0
OBVIOUS

(* Append pushes.                                                          *)
LEMMA PushFacts ==
  ASSUME NEW S, NEW s \in Seq(S), NEW x \in S, NEW t, t = Append(s, x)
  PROVE  t \in Seq(S) /\ Pushed(s, x, t)
BY DEF Pushed

(* Front pops, and Last is what it pops.                                   *)
LEMMA PopFacts ==
  ASSUME NEW S, NEW s \in Seq(S), s # << >>, NEW t, t = Front(s)
  PROVE  /\ t \in Seq(S) /\ Popped(s, t)
         /\ Last(s) = s[Len(s)] /\ Last(s) \in S /\ Len(s) \in 1 .. Len(s)
<1>1. Len(s) \in Nat /\ Len(s) > 0 /\ \A i \in 1 .. Len(s) : s[i] \in S
  OBVIOUS
<1>2. t = SubSeq(s, 1, Len(s) - 1)
  BY DEF Front
<1>3. /\ t \in Seq(S) /\ Len(t) = Len(s) - 1
      /\ \A i \in 1 .. Len(s) - 1 : t[i] = s[i]
  <2> DEFINE n == Len(s) - 1
  <2>1. n \in Int /\ 1 \in Int /\ n >= 0 /\ \A i \in 1 .. n : s[i] \in S
    BY <1>1
  <2>2. t = SubSeq(s, 1, n)
    BY <1>2
  <2> HIDE DEF n
  <2>3. /\ t \in Seq(S) /\ Len(t) = IF 1 <= n THEN n - 1 + 1 ELSE 0
        /\ \A i \in 1 .. n - 1 + 1 : t[i] = s[1 + i - 1]
    BY <2>1, <2>2, SubSeqProperties
  <2>4. Len(t) = n /\ \A i \in 1 .. n : t[i] = s[i]
    BY <2>1, <2>3
  <2> QED BY <2>3, <2>4 DEF n
<1> QED BY <1>1, <1>3 DEF Popped, Last

(* Append after Front replaces the top.                                    *)
LEMMA TopFacts ==
  ASSUME NEW S, NEW s \in Seq(S), s # << >>, NEW x \in S, NEW t, t = Append(Front(s), x)
  PROVE  t \in Seq(S) /\ Topped(s, x, t)
<1>1. PICK u : u = Front(s)
  OBVIOUS
<1>2. u \in Seq(S) /\ Popped(s, u)
  BY <1>1, PopFacts
<1>3. t \in Seq(S) /\ Pushed(u, x, t)
  BY <1>1, <1>2, PushFacts
<1> QED BY <1>2, <1>3, SeqFacts DEF Popped, Pushed, Topped

(* Two elements more.                                                      *)
LEMMA TwoMoreFacts ==
  ASSUME NEW S, NEW s \in Seq(S), NEW x \in S, NEW y \in S, NEW t, t = s \o << x, y >>
  PROVE  /\ t \in Seq(S) /\ Len(t) = Len(s) + 2
         /\ t[Len(s) + 1] = x /\ t[Len(s) + 2] = y
         /\ \A i \in 1 .. Len(s) : t[i] = s[i]
<1>1. PICK e : e = << x, y >>
  OBVIOUS
<1>2. e \in Seq(S) /\ Len(e) = 2 /\ e[1] = x /\ e[2] = y
  BY <1>1
<1>3. PICK m : m = Len(s)
  OBVIOUS
<1>4. m \in Nat
  BY <1>3, SeqFacts
<1>5. /\ t \in Seq(S) /\ Len(t) = m + 2
      /\ \A i \in 1 .. m + 2 : t[i] = IF i <= m THEN s[i] ELSE e[i - m]
  <2>1. t = s \o e
    BY <1>1
  <2> QED BY SMTT(60), <1>2, <1>3, <2>1, ConcatProperties
<1>6. m + 1 \in 1 .. m + 2 /\ m + 2 \in 1 .. m + 2 /\ ~ (m + 1 <= m) /\ ~ (m + 2 <= m)
      /\ m + 1 - m = 1 /\ m + 2 - m = 2 /\ \A i \in 1 .. m : i \in 1 .. m + 2 /\ i <= m
  BY <1>4
<1>7. t[m + 1] = e[1]
  <2>1. PICK i : i = m + 1
    OBVIOUS
  <2>2. i \in 1 .. m + 2 /\ ~ (i <= m) /\ i - m = 1
    BY <1>4, <2>1
  <2> QED BY <1>5, <2>1, <2>2
<1>8. t[m + 2] = e[2]
  <2>1. PICK i : i = m + 2
    OBVIOUS
  <2>2. i \in 1 .. m + 2 /\ ~ (i <= m) /\ i - m = 2
    BY <1>4, <2>1
  <2> QED BY <1>5, <2>1, <2>2
<1>9. \A i \in 1 .. m : t[i] = s[i]
  BY <1>5, <1>6
<1> QED BY <1>2, <1>3, <1>5, <1>7, <1>8, <1>9

(* The elements after a push.                                              *)
LEMMA PushElements ==
  ASSUME NEW S, NEW s \in Seq(S), NEW x \in S
  PROVE  ToSet(Append(s, x)) = ToSet(s) \cup {x}
<1>1. PICK t : t = Append(s, x)
  OBVIOUS
<1>2. t \in Seq(S) /\ Pushed(s, x, t)
  BY <1>1, PushFacts
<1>3. DOMAIN t = 1 .. Len(s) + 1 /\ DOMAIN s = 1 .. Len(s) /\ Len(s) \in Nat
  BY <1>2 DEF Pushed
<1>4. ToSet(t) = ToSet(s) \cup {x}
  BY <1>2, <1>3 DEF Pushed, ToSet
<1> QED BY <1>1, <1>4

(* A vector without duplicates stays so when a new element is pushed.      *)
LEMMA PushInjective ==
  ASSUME NEW S, NEW s \in Seq(S), IsInjective(s), NEW x \in S, x \notin ToSet(s)
  PROVE  IsInjective(Append(s, x))
<1>1. PICK t : t = Append(s, x)
  OBVIOUS
<1>2. t \in Seq(S) /\ Pushed(s, x, t)
  BY <1>1, PushFacts
<1>3. DOMAIN t = 1 .. Len(s) + 1 /\ DOMAIN s = 1 .. Len(s) /\ Len(s) \in Nat
  BY <1>2 DEF Pushed
<1>4. IsInjective(t)
  BY <1>2, <1>3 DEF Pushed, ToSet, IsInjective
<1> QED BY <1>1, <1>4

(* Erasing from a vector by moving its last element into the place.        *)
LEMMA SwapPopFacts ==
  ASSUME NEW S, NEW s \in Seq(S), NEW n \in 1 .. Len(s),
         NEW t, t = Front([s EXCEPT ![n] = Last(s)])
  PROVE  t \in Seq(S) /\ SwapPopped(s, n, t)
<1>1. Len(s) \in Nat /\ Len(s) > 0 /\ s # << >>
  BY SeqFacts
<1>2. Last(s) = s[Len(s)] /\ Last(s) \in S
  BY <1>1, PopFacts
<1>3. PICK u : u = [s EXCEPT ![n] = Last(s)]
  OBVIOUS
<1>4. /\ u \in Seq(S) /\ Len(u) = Len(s)
      /\ \A i \in 1 .. Len(s) : u[i] = IF i = n THEN s[Len(s)] ELSE s[i]
  BY <1>2, <1>3, ExceptSeq
<1>5. u # << >>
  BY <1>1, <1>4
<1>6. t \in Seq(S) /\ Popped(u, t)
  BY <1>3, <1>4, <1>5, PopFacts
<1>7. Len(t) = Len(s) - 1
  BY <1>4, <1>6 DEF Popped
<1>8. ASSUME NEW i \in 1 .. Len(s) - 1
      PROVE  t[i] = IF i = n THEN s[Len(s)] ELSE s[i]
  <2>1. i \in 1 .. Len(s) /\ i \in 1 .. Len(u) - 1
    BY <1>1, <1>4
  <2>2. t[i] = u[i]
    BY <1>6, <2>1 DEF Popped
  <2> QED BY <1>4, <2>1, <2>2
<1> QED BY <1>6, <1>7, <1>8 DEF SwapPopped

(* Just the one element goes.                                              *)
LEMMA SwapPopElements ==
  ASSUME NEW S, NEW s \in Seq(S), IsInjective(s), NEW n \in 1 .. Len(s),
         NEW t \in Seq(S), SwapPopped(s, n, t)
  PROVE  IsInjective(t) /\ ToSet(t) = ToSet(s) \ {s[n]}
<1> DEFINE m == Len(s)
<1>1. /\ t \in Seq(S) /\ Len(t) = m - 1
      /\ \A i \in 1 .. m - 1 : t[i] = IF i = n THEN s[m] ELSE s[i]
  BY DEF SwapPopped
<1>2. m \in Nat /\ m > 0 /\ DOMAIN s = 1 .. m /\ DOMAIN t = 1 .. m - 1 /\ n \in 1 .. m
  BY <1>1, SeqFacts
<1>3. \A i, j \in 1 .. m : s[i] = s[j] => i = j
  BY <1>2 DEF IsInjective
<1> HIDE DEF m
<1>4. ASSUME NEW i \in 1 .. m - 1
      PROVE  \/ i = n /\ t[i] = s[m]
             \/ i # n /\ t[i] = s[i]
  BY <1>1
<1>5. ASSUME NEW i \in 1 .. m - 1, NEW j \in 1 .. m - 1, t[i] = t[j]
      PROVE  i = j
  <2>1. i \in 1 .. m /\ j \in 1 .. m /\ i # m /\ j # m /\ m \in 1 .. m
    BY <1>2
  <2> QED BY <2>1, <1>3, <1>4, <1>5
<1>6. IsInjective(t)
  BY <1>2, <1>5 DEF IsInjective
<1>7. ASSUME NEW i \in 1 .. m - 1 PROVE t[i] \in ToSet(s) /\ t[i] # s[n]
  <2>1. i \in 1 .. m /\ m \in 1 .. m /\ i # m
    BY <1>2
  <2>2. PICK j \in 1 .. m : t[i] = s[j] /\ j # n
    BY <2>1, <1>4
  <2> QED BY <2>2, <1>2, <1>3 DEF ToSet
<1>8. ASSUME NEW i \in 1 .. m, s[i] # s[n] PROVE s[i] \in ToSet(t)
  <2>1. CASE i = m
    <3>1. n \in 1 .. m - 1
      BY <2>1, <1>2, <1>8
    <3> QED BY <3>1, <2>1, <1>2, <1>4 DEF ToSet
  <2>2. CASE i # m
    <3>1. i \in 1 .. m - 1 /\ i # n
      BY <2>2, <1>2, <1>8
    <3> QED BY <3>1, <1>2, <1>4 DEF ToSet
  <2> QED BY <2>1, <2>2
<1>9. ToSet(t) \subseteq ToSet(s) \ {s[n]}
  BY <1>2, <1>7 DEF ToSet
<1>10. ToSet(s) \ {s[n]} \subseteq ToSet(t)
  <2>1. ToSet(s) = {s[i] : i \in 1 .. m}
    BY <1>2 DEF ToSet
  <2> QED BY <2>1, <1>8
<1> QED BY <1>6, <1>9, <1>10

(* The same when the place is found by the element.                        *)
LEMMA SwapPopFound ==
  ASSUME NEW S, NEW s \in Seq(S), IsInjective(s), NEW x \in ToSet(s),
         NEW t, t = Front([n \in DOMAIN s |-> IF s[n] = x THEN Last(s) ELSE s[n]])
  PROVE  t \in Seq(S) /\ Len(t) = Len(s) - 1 /\ IsInjective(t) /\ ToSet(t) = ToSet(s) \ {x}
<1>1. DOMAIN s = 1 .. Len(s) /\ Len(s) \in Nat
  OBVIOUS
<1>2. PICK n \in 1 .. Len(s) : s[n] = x
  BY <1>1 DEF ToSet
<1>3. \A i \in 1 .. Len(s) : s[i] = x <=> i = n
  BY <1>1, <1>2 DEF IsInjective
<1>4. [i \in DOMAIN s |-> IF s[i] = x THEN Last(s) ELSE s[i]] = [s EXCEPT ![n] = Last(s)]
  BY <1>1, <1>2, <1>3
<1>5. t \in Seq(S) /\ SwapPopped(s, n, t)
  BY <1>2, <1>4, SwapPopFacts
<1>6. IsInjective(t) /\ ToSet(t) = ToSet(s) \ {s[n]}
  BY <1>5, SwapPopElements
<1>7. Len(t) = Len(s) - 1
  BY <1>5 DEF SwapPopped
<1> QED BY <1>2, <1>5, <1>6, <1>7

(* The elements of a sequence, by position.                                *)
LEMMA ElementsIs ==
  ASSUME NEW S, NEW s \in Seq(S)
  PROVE  /\ ToSet(s) = {s[i] : i \in 1 .. Len(s)}
         /\ ToSet(s) \subseteq S
         /\ IsInjective(s) <=> \A i, j \in 1 .. Len(s) : s[i] = s[j] => i = j
<1>1. DOMAIN s = 1 .. Len(s)
  OBVIOUS
<1> QED BY <1>1 DEF ToSet, IsInjective

(* A part of a sequence without duplicates.                                *)
LEMMA PartFacts ==
  ASSUME NEW S, NEW s \in Seq(S), IsInjective(s),
         NEW i \in 1 .. Len(s), NEW j \in i .. Len(s), NEW t, t = SubSeq(s, i, j)
  PROVE  /\ t \in Seq(S) /\ Len(t) = j - i + 1 /\ t # << >>
         /\ Head(t) = s[i] /\ t[Len(t)] = s[j]
         /\ IsInjective(t) /\ ToSet(t) = Slice(s, i, j) /\ ToSet(t) \subseteq ToSet(s)
<1>1. Len(s) \in Nat /\ i \in Int /\ j \in Int /\ 1 <= i /\ i <= j /\ j <= Len(s)
  OBVIOUS
<1>2. \A n \in i .. j : n \in 1 .. Len(s) /\ s[n] \in S
  BY <1>1
<1>3. /\ t \in Seq(S) /\ Len(t) = j - i + 1
      /\ \A n \in 1 .. j - i + 1 : t[n] = s[i + n - 1]
  BY <1>1, <1>2, SubSeqProperties
<1>4. t # << >> /\ Head(t) = s[i]
  <2>1. t # << >>
    BY <1>1, <1>3
  <2>2. Head(t) = t[1]
    BY <2>1, <1>3
  <2>3. t[1] = s[i]
    BY <1>1, <1>3
  <2> QED BY <2>1, <2>2, <2>3
<1>5. \A m, n \in 1 .. Len(s) : s[m] = s[n] => m = n
  BY ElementsIs
<1>6. IsInjective(t)
  <2> SUFFICES ASSUME NEW m \in 1 .. Len(t), NEW n \in 1 .. Len(t), t[m] = t[n]
               PROVE  m = n
    BY <1>3, ElementsIs
  <2>1. i + m - 1 \in 1 .. Len(s) /\ i + n - 1 \in 1 .. Len(s)
    BY <1>1, <1>3
  <2>2. s[i + m - 1] = s[i + n - 1]
    BY <1>3
  <2>3. i + m - 1 = i + n - 1
    BY <1>5, <2>1, <2>2
  <2> QED BY <2>3, <1>1
<1>7. ASSUME NEW n \in 1 .. Len(t) PROVE t[n] \in {s[m] : m \in i .. j}
  <2>1. i + n - 1 \in i .. j
    BY <1>1, <1>3
  <2> QED BY <2>1, <1>3
<1>8. ASSUME NEW m \in i .. j PROVE \E n \in 1 .. Len(t) : t[n] = s[m]
  <2>1. m - i + 1 \in 1 .. Len(t) /\ i + (m - i + 1) - 1 = m
    BY <1>1, <1>3
  <2> QED BY <2>1, <1>3
<1>9. ToSet(t) = {t[n] : n \in 1 .. Len(t)}
  <2>1. t \in Seq(S)
    BY <1>3
  <2> QED BY ONLY <2>1, ElementsIs
<1>10. ToSet(t) = {s[n] : n \in i .. j}
  <2>1. ToSet(t) \subseteq {s[n] : n \in i .. j}
    BY <1>7, <1>9
  <2>2. {s[n] : n \in i .. j} \subseteq ToSet(t)
    BY <1>8, <1>9
  <2> QED BY <2>1, <2>2
<1>11. t[Len(t)] = s[j]
  <2>1. j - i + 1 \in 1 .. j - i + 1 /\ i + (j - i + 1) - 1 = j
    BY <1>1
  <2> QED BY <1>3, <2>1
<1>12. {s[n] : n \in i .. j} \subseteq ToSet(s)
  <2>1. ToSet(s) = {s[n] : n \in 1 .. Len(s)}
    BY ElementsIs
  <2> QED BY <1>2, <2>1
<1> QED BY <1>3, <1>4, <1>6, <1>10, <1>11, <1>12 DEF Slice

(* What is left of it without its first element.                           *)
LEMMA TailFacts ==
  ASSUME NEW S, NEW s \in Seq(S), IsInjective(s), s # << >>
  PROVE  /\ Tail(s) \in Seq(S) /\ Len(Tail(s)) = Len(s) - 1
         /\ Head(s) = s[1] /\ Head(s) \in ToSet(s)
         /\ IsInjective(Tail(s)) /\ ToSet(Tail(s)) = ToSet(s) \ {Head(s)}
         /\ Len(s) > 1 => /\ Tail(s) # << >> /\ Head(Tail(s)) = s[2]
                          /\ s[2] \in ToSet(s) \ {Head(s)}
<1>1. PICK t : t = Tail(s)
  OBVIOUS
<1>2. /\ Len(s) \in Nat /\ Len(s) > 0
      /\ t \in Seq(S) /\ Len(t) = Len(s) - 1 /\ \A i \in 1 .. Len(s) - 1 : t[i] = s[i + 1]
  BY <1>1, HeadTailProperties, SeqFacts
<1>3. Head(s) = s[1] /\ \A m, n \in 1 .. Len(s) : s[m] = s[n] => m = n
  BY ElementsIs
<1>4. ToSet(s) = {s[i] : i \in 1 .. Len(s)} /\ ToSet(t) = {t[i] : i \in 1 .. Len(s) - 1}
  BY <1>2, ElementsIs
<1>5. IsInjective(t)
  <2> SUFFICES ASSUME NEW m \in 1 .. Len(s) - 1, NEW n \in 1 .. Len(s) - 1, t[m] = t[n]
               PROVE  m = n
    BY <1>2, ElementsIs
  <2>1. m + 1 \in 1 .. Len(s) /\ n + 1 \in 1 .. Len(s)
    BY <1>2
  <2> QED BY <1>2, <1>3, <2>1
<1>6. \A i \in 1 .. Len(s) - 1 : i + 1 \in 1 .. Len(s) /\ i + 1 # 1 /\ 1 \in 1 .. Len(s)
  BY <1>2
<1>7. \A i \in 2 .. Len(s) : i - 1 \in 1 .. Len(s) - 1 /\ (i - 1) + 1 = i
  BY <1>2
<1>8. ToSet(t) \subseteq ToSet(s) \ {Head(s)}
  BY <1>2, <1>3, <1>4, <1>6
<1>9. ToSet(s) \ {Head(s)} \subseteq ToSet(t)
  <2> SUFFICES ASSUME NEW i \in 1 .. Len(s), s[i] # Head(s) PROVE s[i] \in ToSet(t)
    BY <1>4
  <2>1. i \in 2 .. Len(s)
    BY <1>2, <1>3
  <2> QED BY <2>1, <1>2, <1>4, <1>7
<1>10. ASSUME Len(s) > 1
       PROVE  t # << >> /\ Head(t) = s[2] /\ s[2] \in ToSet(s) \ {Head(s)}
  <2>1. 1 \in 1 .. Len(s) - 1 /\ 2 \in 1 .. Len(s) /\ 1 \in 1 .. Len(s)
    BY <1>2, <1>10
  <2>2. t # << >> /\ Head(t) = t[1]
    BY <1>2, <1>10
  <2>3. t[1] = s[2]
    BY <1>2, <2>1
  <2> QED BY <1>3, <1>4, <2>1, <2>2, <2>3
<1>11. Head(s) \in ToSet(s)
  BY <1>2, <1>3, <1>4
<1> QED BY <1>1, <1>2, <1>3, <1>5, <1>8, <1>9, <1>10, <1>11

(* A sequence without duplicates read backwards.                           *)
LEMMA ReverseFacts ==
  ASSUME NEW S, NEW s \in Seq(S), IsInjective(s), s # << >>, NEW t, t = Reverse(s)
  PROVE  /\ t \in Seq(S) /\ Len(t) = Len(s) /\ t # << >> /\ Head(t) = s[Len(s)]
         /\ IsInjective(t) /\ ToSet(t) = ToSet(s)
<1>1. Len(s) \in Nat /\ Len(s) > 0
  BY SeqFacts
<1>2. \A i \in 1 .. Len(s) : Len(s) - i + 1 \in 1 .. Len(s) /\ Len(s) - (Len(s) - i + 1) + 1 = i
  BY <1>1
<1>3. /\ t \in Seq(S) /\ Len(t) = Len(s)
      /\ \A i \in 1 .. Len(s) : t[i] = s[Len(s) - i + 1]
  <2>1. t = [i \in 1 .. Len(s) |-> s[Len(s) - i + 1]]
    BY DEF Reverse
  <2>2. \A i \in 1 .. Len(s) : s[Len(s) - i + 1] \in S
    BY <1>2
  <2>3. t \in [1 .. Len(s) -> S]
    BY <2>1, <2>2
  <2>4. t \in Seq(S)
    BY <2>3, <1>1, SeqDef
  <2>5. Len(t) = Len(s)
    BY <2>3, <2>4, <1>1
  <2> QED BY <2>1, <2>4, <2>5
<1>4. t # << >> /\ Head(t) = s[Len(s)]
  <2>1. t # << >> /\ Head(t) = t[1]
    BY <1>1, <1>3
  <2>2. 1 \in 1 .. Len(s) /\ Len(s) - 1 + 1 = Len(s)
    BY <1>1
  <2> QED BY <2>1, <2>2, <1>3
<1>5. \A m, n \in 1 .. Len(s) : s[m] = s[n] => m = n
  BY ElementsIs
<1>6. IsInjective(t)
  <2> SUFFICES ASSUME NEW m \in 1 .. Len(s), NEW n \in 1 .. Len(s), t[m] = t[n]
               PROVE  m = n
    BY <1>3, ElementsIs
  <2>1. Len(s) - m + 1 = Len(s) - n + 1
    <3> DEFINE u == Len(s) - m + 1
               v == Len(s) - n + 1
    <3>1. u \in 1 .. Len(s) /\ v \in 1 .. Len(s) /\ s[u] = s[v]
      BY <1>2, <1>3
    <3> HIDE DEF u, v
    <3>2. u = v
      BY <3>1, <1>5
    <3> QED BY <3>2 DEF u, v
  <2> QED BY <2>1, <1>1
<1>7. ToSet(t) = {t[i] : i \in 1 .. Len(s)} /\ ToSet(s) = {s[i] : i \in 1 .. Len(s)}
  BY <1>3, ElementsIs
<1>8. ToSet(t) \subseteq ToSet(s) /\ ToSet(s) \subseteq ToSet(t)
  BY <1>2, <1>3, <1>7
<1> QED BY <1>3, <1>4, <1>6, <1>8

(* A nonempty set of numbers has a least one.                              *)
LEMMA LeastExists ==
  ASSUME NEW T, T \subseteq Nat, T # {}
  PROVE  Min(T) \in T /\ \A x \in T : Min(T) <= x
<1>1. PICK R : R = OpToRel(<, Nat)
  OBVIOUS
<1>2. IsWellFoundedOn(R, Nat)
  BY <1>1, NatLessThanWellFounded
<1>3. \A x, y \in Nat : <<y, x>> \in R <=> y < x
  BY <1>1 DEF OpToRel
<1>4. PICK m \in T : \A y \in T : ~ (<<y, m>> \in R)
  BY <1>2, WFMin
<1>5. ASSUME NEW y \in T PROVE m <= y
  <2>1. ~ (y < m) /\ y \in Nat /\ m \in Nat
    BY <1>3, <1>4
  <2> QED BY <2>1
<1> QED BY <1>5 DEF Min

(* Counting up to n.                                                       *)
LEMMA CountUp ==
  ASSUME NEW n \in Nat, NEW T, 0 \in T, \A k \in 1 .. n : k - 1 \in T => k \in T
  PROVE  \A k \in 0 .. n : k \in T
<1> DEFINE U == (0 .. n) \ T
<1> SUFFICES ASSUME U # {} PROVE FALSE
  OBVIOUS
<1>1. Min(U) \in U /\ \A x \in U : Min(U) <= x
  <2>1. U \subseteq Nat
    OBVIOUS
  <2> HIDE DEF U
  <2> QED BY <2>1, LeastExists
<1>2. PICK m : m = Min(U)
  OBVIOUS
<1>3. m \in 1 .. n /\ m \notin T
  BY <1>1, <1>2
<1>4. m - 1 \in 0 .. n /\ ~ (m <= m - 1)
  BY <1>3
<1>5. m - 1 \in T
  BY <1>1, <1>2, <1>4
<1> QED BY <1>3, <1>5

(* A nonempty set of positions has a last one.                             *)
LEMMA LastExists ==
  ASSUME NEW n \in Nat, NEW T, T \subseteq 1 .. n, T # {}
  PROVE  Max(T) \in T /\ \A x \in T : x <= Max(T)
<1>1. PICK U : U = {n - x : x \in T}
  OBVIOUS
<1>2. U \subseteq Nat /\ U # {}
  <2>1. \A x \in T : n - x \in Nat
    OBVIOUS
  <2> QED BY <1>1, <2>1
<1>3. Min(U) \in U /\ \A x \in U : Min(U) <= x
  BY <1>2, LeastExists
<1>4. PICK y \in T : Min(U) = n - y
  BY <1>1, <1>3
<1>5. ASSUME NEW x \in T PROVE x <= y
  <2>1. n - y <= n - x
    BY <1>1, <1>3, <1>4
  <2> QED BY <2>1
<1> QED BY <1>5 DEF Max

(* F applied step after step.                                              *)
LEMMA ChainExists ==
  ASSUME NEW n \in Nat, NEW X, NEW b \in X, NEW F \in StepsOf(n, X)
  PROVE  \E c : IsChain(c, F, n, X, b)
<1> USE DEF StepsOf
<1> DEFINE Chain(c, m) == c \in [0 .. m -> X] /\ c[0] = b
                          /\ \A k \in 1 .. m : c[k] = F[<<k, c[k - 1]>>]
           T == {m \in Nat : \E c : Chain(c, m)}
<1>1. 0 \in T
  <2>1. Chain([k \in 0 .. 0 |-> b], 0)
    OBVIOUS
  <2> QED BY <2>1
<1>2. ASSUME NEW k \in 1 .. n, k - 1 \in T PROVE k \in T
  <2>1. PICK c : Chain(c, k - 1)
    BY <1>2
  <2>2. PICK d : d = [i \in 0 .. k |-> IF i = k THEN F[<<k, c[k - 1]>>] ELSE c[i]]
    OBVIOUS
  <2>3. k - 1 \in 0 .. k - 1 /\ k \in Nat /\ k \in 0 .. k /\ 0 \in 0 .. k /\ 0 # k
        /\ \A i \in 0 .. k : i # k => i \in 0 .. k - 1
    OBVIOUS
  <2>4. c[k - 1] \in X
    BY <2>1, <2>3
  <2>5. F[<<k, c[k - 1]>>] \in X
    BY <2>4
  <2>6. d \in [0 .. k -> X]
    BY <2>1, <2>2, <2>3, <2>5
  <2>7. d[0] = b /\ d[k] = F[<<k, c[k - 1]>>] /\ \A i \in 0 .. k : i # k => d[i] = c[i]
    BY <2>1, <2>2, <2>3
  <2>8. ASSUME NEW i \in 1 .. k PROVE d[i] = F[<<i, d[i - 1]>>]
    <3>1. i \in 0 .. k /\ i - 1 \in 0 .. k /\ i - 1 # k
      OBVIOUS
    <3>2. d[i - 1] = c[i - 1]
      BY <2>7, <3>1
    <3>3. CASE i = k
      BY <3>3, <3>2, <2>7
    <3>4. CASE i # k
      <4>1. i \in 1 .. k - 1
        BY <3>4
      <4> QED BY <4>1, <3>1, <3>2, <3>4, <2>1, <2>7
    <3> QED BY <3>3, <3>4
  <2>9. Chain(d, k)
    BY <2>6, <2>7, <2>8
  <2> QED BY <2>9, <2>3
<1>3. n \in T
  <2> HIDE DEF T
  <2>1. \A k \in 0 .. n : k \in T
    BY <1>1, <1>2, CountUp
  <2> QED BY <2>1
<1>4. PICK c : Chain(c, n)
  BY <1>3
<1> QED BY <1>4 DEF IsChain

(* A fold of F over the sets of positions exists, from the last position.  *)
LEMMA FoldExists ==
  ASSUME NEW n \in Nat, NEW X, NEW b \in X, NEW F \in StepsOf(n, X)
  PROVE  \E h : IsFold(h, F, n, X, b)
<1>1. PICK P : P = SUBSET (1 .. n)
  OBVIOUS
<1>2. PICK Y : Y = [P -> X]
  OBVIOUS
<1>3. PICK G : G = [a \in (1 .. n) \X Y |->
                      [u \in P |-> IF a[1] \in u THEN F[<<a[1], a[2][u \ {a[1]}]>>]
                                   ELSE a[2][u]]]
  OBVIOUS
<1>4. PICK g0 : g0 = [u \in P |-> b]
  OBVIOUS
<1>5. g0 \in Y
  BY <1>2, <1>4
<1>6. \A u \in P : \A x : u \ {x} \in P
  BY <1>1
<1>7. ASSUME NEW k \in 1 .. n, NEW g \in Y
      PROVE  /\ G[<<k, g>>] \in Y
             /\ \A u \in P : G[<<k, g>>][u] = IF k \in u THEN F[<<k, g[u \ {k}]>>] ELSE g[u]
  <2>1. \A u \in P : g[u] \in X
    BY <1>2
  <2> USE DEF StepsOf
  <2>2. \A u \in P : F[<<k, g[u \ {k}]>>] \in X
    BY <1>6, <2>1
  <2>3. G[<<k, g>>] = [u \in P |-> IF k \in u THEN F[<<k, g[u \ {k}]>>] ELSE g[u]]
    BY <1>3
  <2> QED BY <1>2, <2>1, <2>2, <2>3
<1>8. G \in StepsOf(n, Y)
  <2>1. ASSUME NEW a \in (1 .. n) \X Y PROVE G[a] \in Y
    <3>1. a = <<a[1], a[2]>> /\ a[1] \in 1 .. n /\ a[2] \in Y
      OBVIOUS
    <3> QED BY <3>1, <1>7
  <2>2. G = [a \in (1 .. n) \X Y |-> G[a]]
    BY <1>3
  <2> QED BY <2>1, <2>2 DEF StepsOf
<1>9a. PICK c : IsChain(c, G, n, Y, g0)
  BY ONLY n \in Nat, <1>5, <1>8, ChainExists
<1>9. /\ c \in [0 .. n -> Y] /\ c[0] = g0
      /\ \A k \in 1 .. n : c[k] = G[<<k, c[k - 1]>>]
  BY <1>9a DEF IsChain
<1>10. \A k \in 1 .. n : k - 1 \in 0 .. n /\ k \in 0 .. n
  OBVIOUS
<1>11. \A k \in 0 .. n : c[k] \in Y
  BY <1>9
<1>12. ASSUME NEW k \in 1 .. n, NEW u \in P
       PROVE  c[k][u] = IF k \in u THEN F[<<k, c[k - 1][u \ {k}]>>] ELSE c[k - 1][u]
  <2>1. c[k] = G[<<k, c[k - 1]>>] /\ c[k - 1] \in Y
    BY <1>9, <1>10, <1>11
  <2>2. PICK g \in Y : g = c[k - 1]
    BY <2>1
  <2>3. G[<<k, g>>][u] = IF k \in u THEN F[<<k, g[u \ {k}]>>] ELSE g[u]
    BY <1>7
  <2> QED BY <2>1, <2>2, <2>3
<1> DEFINE Good(k) ==
             \A u \in SUBSET (1 .. k) :
               c[k][u] = IF u = {} THEN b ELSE F[<<Max(u), c[k][u \ {Max(u)}]>>]
           T == {k \in 0 .. n : Good(k)}
<1>13. 0 \in T
  <2>1. 0 \in 0 .. n /\ \A u \in SUBSET (1 .. 0) : u = {} /\ u \in P
    BY <1>1
  <2> QED BY <2>1, <1>4, <1>9
<1>14. ASSUME NEW k \in 1 .. n, k - 1 \in T PROVE k \in T
  <2>1. Good(k - 1)
    BY <1>14
  <2>2. ASSUME NEW u \in SUBSET (1 .. k)
        PROVE  c[k][u] = IF u = {} THEN b ELSE F[<<Max(u), c[k][u \ {Max(u)}]>>]
    <3>1. u \in P /\ \A x : u \ {x} \in P
      <4>1. u \in P
        BY <1>1
      <4> QED BY <4>1, <1>6
    <3>2. CASE k \in u
      <4>1. k \in Nat /\ u \subseteq 1 .. k /\ u # {}
        BY <3>2
      <4>2. Max(u) \in u /\ \A x \in u : x <= Max(u)
        BY ONLY <4>1, LastExists
      <4>3. Max(u) = k
        <5>1. PICK m : m = Max(u)
          OBVIOUS
        <5>2. m \in 1 .. k /\ k <= m
          BY ONLY <4>1, <4>2, <5>1, <3>2
        <5>3. m = k
          BY ONLY <5>2, k \in 1 .. n, n \in Nat
        <5> QED BY <5>1, <5>3
      <4>4. c[k][u \ {k}] = c[k - 1][u \ {k}]
        <5>1. PICK v \in P : v = u \ {k}
          BY <3>1
        <5>2. c[k][v] = c[k - 1][v]
          BY ONLY ZenonT(60), <1>12, <5>1, k \in 1 .. n
        <5> QED BY <5>1, <5>2
      <4> QED BY <3>1, <3>2, <4>3, <4>4, <1>12
    <3>3. CASE k \notin u
      <4>1. u \in SUBSET (1 .. k - 1)
        BY <3>3
      <4>2. c[k][u] = c[k - 1][u] /\ c[k][u \ {Max(u)}] = c[k - 1][u \ {Max(u)}]
        <5>1. PICK v \in P : v = u \ {Max(u)}
          BY <3>1
        <5>2. k \notin v
          BY <5>1, <3>3
        <5>3. c[k][v] = c[k - 1][v] /\ c[k][u] = c[k - 1][u]
          BY ONLY <1>12, <5>2, <3>1, <3>3, k \in 1 .. n
        <5> QED BY <5>1, <5>3
      <4>3. c[k - 1][u] = IF u = {} THEN b ELSE F[<<Max(u), c[k - 1][u \ {Max(u)}]>>]
        BY <2>1, <4>1
      <4> QED BY <4>2, <4>3
    <3> QED BY <3>2, <3>3
  <2> QED BY <1>10, <2>2
<1>15. n \in T
  <2>1. \A k \in 0 .. n : k \in T
    <3> HIDE DEF T
    <3> QED BY <1>13, <1>14, CountUp
  <2> HIDE DEF T
  <2> QED BY <2>1
<1>16. c[n] \in [SUBSET (1 .. n) -> X]
  <2>1. n \in 0 .. n
    OBVIOUS
  <2> QED BY ONLY <2>1, <1>1, <1>2, <1>11
<1> QED BY <1>15, <1>16 DEF IsFold

(* A fold over all positions applies F from the first to the last.         *)
LEMMA FoldChain ==
  ASSUME NEW n \in Nat, NEW X, NEW b \in X, NEW F \in StepsOf(n, X),
         NEW h, Follows(h, F, n, X, b)
  PROVE  \E c : IsChain(c, F, n, X, b) /\ c[n] = h[1 .. n]
<1> DEFINE T == {k \in 0 .. n : h[1 .. k] \in X}
<1>1. h[1 .. 0] = b
  BY 1 .. 0 = {} DEF Follows
<1>2. ASSUME NEW k \in 1 .. n, h[1 .. k - 1] \in X PROVE h[1 .. k] = F[<<k, h[1 .. k - 1]>>]
  <2>1. 1 .. k \in SUBSET (1 .. n) /\ 1 .. k # {} /\ k \in 1 .. k /\ k \in Nat
    OBVIOUS
  <2>2. Max(1 .. k) \in 1 .. k /\ \A x \in 1 .. k : x <= Max(1 .. k)
    BY <2>1, LastExists
  <2>3. Max(1 .. k) = k
    BY <2>1, <2>2
  <2>4. (1 .. k) \ {k} = 1 .. k - 1
    OBVIOUS
  <2> QED BY <2>1, <2>3, <2>4, <1>2 DEF Follows
<1>3. 0 \in T
  BY <1>1
<1>4. ASSUME NEW k \in 1 .. n, k - 1 \in T PROVE k \in T
  <2>1. h[1 .. k - 1] \in X /\ k \in 0 .. n
    BY <1>4
  <2>2. F[<<k, h[1 .. k - 1]>>] \in X
    BY <2>1 DEF StepsOf
  <2> QED BY <2>1, <2>2, <1>2
<1>5. \A k \in 0 .. n : k \in T
  <2> HIDE DEF T
  <2> QED BY <1>3, <1>4, CountUp
<1>6. PICK c : c = [k \in 0 .. n |-> h[1 .. k]]
  OBVIOUS
<1>7. c \in [0 .. n -> X]
  BY <1>5, <1>6
<1>8. \A k \in 0 .. n : c[k] = h[1 .. k]
  BY <1>6
<1>9. 0 \in 0 .. n /\ n \in 0 .. n /\ \A k \in 1 .. n : k \in 0 .. n /\ k - 1 \in 0 .. n
  OBVIOUS
<1>10. c[0] = b /\ c[n] = h[1 .. n]
  BY <1>1, <1>8, <1>9
<1>11. \A k \in 1 .. n : c[k] = F[<<k, c[k - 1]>>]
  BY <1>2, <1>5, <1>8, <1>9
<1> QED BY <1>7, <1>10, <1>11 DEF IsChain

(* Rising sequences have no duplicates, and as many elements as positions. *)
LEMMA RisingFacts ==
  ASSUME NEW s \in Seq(Nat), Rising(s)
  PROVE  IsInjective(s)
<1>1. \A i \in 1 .. Len(s) : s[i] \in Nat /\ i \in Nat
  OBVIOUS
<1>2. \A i, j \in 1 .. Len(s) : s[i] = s[j] => i = j
  <2> SUFFICES ASSUME NEW i \in 1 .. Len(s), NEW j \in 1 .. Len(s), s[i] = s[j], i # j
               PROVE  FALSE
    OBVIOUS
  <2>1. i < j \/ j < i
    BY <1>1
  <2>2. s[i] < s[j] \/ s[j] < s[i]
    BY <2>1 DEF Rising
  <2> QED BY <1>1, <2>2
<1> QED BY <1>2, ElementsIs

(* Appending what is greater.                                              *)
LEMMA RisingPush ==
  ASSUME NEW s \in Seq(Nat), Rising(s), NEW x \in Nat, \A e \in ToSet(s) : e < x
  PROVE  Rising(Append(s, x))
<1>1. PICK t : t = Append(s, x)
  OBVIOUS
<1>2. t \in Seq(Nat) /\ Pushed(s, x, t)
  BY <1>1, PushFacts
<1>3. PICK n \in Nat : n = Len(s)
  BY SeqFacts
<1>4. Len(t) = n + 1 /\ t[n + 1] = x /\ \A i \in 1 .. n : t[i] = s[i]
  BY <1>2, <1>3 DEF Pushed
<1>5. \A i \in 1 .. n : s[i] < x
  BY <1>3, ElementsIs
<1>6. \A i, j \in 1 .. n + 1 : i < j => t[i] < t[j]
  <2> SUFFICES ASSUME NEW i \in 1 .. n + 1, NEW j \in 1 .. n + 1, i < j
               PROVE  t[i] < t[j]
    OBVIOUS
  <2>1. i \in 1 .. n /\ (j \in 1 .. n \/ j = n + 1)
    OBVIOUS
  <2> QED BY <2>1, <1>3, <1>4, <1>5 DEF Rising
<1> QED BY <1>1, <1>4, <1>6 DEF Rising

(* Appending a sequence of greater elements.                               *)
LEMMA RisingConcat ==
  ASSUME NEW s \in Seq(Nat), NEW u \in Seq(Nat), NEW t, t = s \o u
  PROVE  /\ t \in Seq(Nat) /\ ToSet(t) = ToSet(s) \cup ToSet(u)
         /\ Rising(s) /\ Rising(u) /\ (\A e \in ToSet(s), x \in ToSet(u) : e < x) => Rising(t)
<1>1. PICK m \in Nat, n \in Nat : m = Len(s) /\ n = Len(u)
  BY SeqFacts
<1>2. /\ t \in Seq(Nat) /\ Len(t) = m + n
      /\ \A i \in 1 .. m + n : t[i] = IF i <= m THEN s[i] ELSE u[i - m]
  BY <1>1, ConcatProperties
<1>3. /\ ToSet(s) = {s[i] : i \in 1 .. m} /\ ToSet(u) = {u[i] : i \in 1 .. n}
      /\ ToSet(t) = {t[i] : i \in 1 .. m + n}
  <2>1. ToSet(s) = {s[i] : i \in 1 .. m}
    BY ONLY s \in Seq(Nat), <1>1, ElementsIs
  <2>2. ToSet(u) = {u[i] : i \in 1 .. n}
    BY ONLY u \in Seq(Nat), <1>1, ElementsIs
  <2>3. ToSet(t) = {t[i] : i \in 1 .. m + n}
    BY ONLY ZenonT(60), <1>2, ElementsIs
  <2> QED BY <2>1, <2>2, <2>3
<1>4. \A i \in 1 .. m : i \in 1 .. m + n /\ t[i] = s[i]
  BY SMTT(60), <1>2
<1>5. ASSUME NEW i \in 1 .. m + n, ~ (i <= m) PROVE i - m \in 1 .. n /\ t[i] = u[i - m]
  BY <1>2, <1>5
<1>6. ASSUME NEW i \in 1 .. n PROVE m + i \in 1 .. m + n /\ t[m + i] = u[i]
  <2>1. PICK j : j = m + i
    OBVIOUS
  <2>2. j \in 1 .. m + n /\ ~ (j <= m) /\ j - m = i
    BY <2>1
  <2> QED BY <2>1, <2>2, <1>2
<1>7. ToSet(t) = ToSet(s) \cup ToSet(u)
  <2>1. ToSet(t) \subseteq ToSet(s) \cup ToSet(u)
    <3> SUFFICES ASSUME NEW i \in 1 .. m + n PROVE t[i] \in ToSet(s) \cup ToSet(u)
      BY <1>3
    <3>1. CASE i <= m
      <4>1. i \in 1 .. m
        BY <3>1
      <4> QED BY <4>1, <1>3, <1>4
    <3>2. CASE ~ (i <= m)
      BY <3>2, <1>3, <1>5
    <3> QED BY <3>1, <3>2
  <2>2. ToSet(s) \cup ToSet(u) \subseteq ToSet(t)
    BY <1>3, <1>4, <1>6
  <2> QED BY <2>1, <2>2
<1>8. ASSUME Rising(s), Rising(u), \A e \in ToSet(s), x \in ToSet(u) : e < x
      PROVE  Rising(t)
  <2> SUFFICES ASSUME NEW i \in 1 .. m + n, NEW j \in 1 .. m + n, i < j
               PROVE  t[i] < t[j]
    BY <1>2 DEF Rising
  <2>1. CASE j <= m
    <3>1. i \in 1 .. m /\ j \in 1 .. m
      BY <2>1
    <3> QED BY <3>1, <1>1, <1>4, <1>8 DEF Rising
  <2>2. CASE i <= m /\ ~ (j <= m)
    <3>1. i \in 1 .. m /\ j - m \in 1 .. n /\ t[j] = u[j - m]
      <4>1. i \in 1 .. m
        BY <2>2
      <4>2. j - m \in 1 .. n /\ t[j] = u[j - m]
        BY ONLY <2>2, <1>5, j \in 1 .. m + n
      <4> QED BY <4>1, <4>2
    <3> QED BY <3>1, <1>3, <1>4, <1>8
  <2>3. CASE ~ (i <= m)
    <3>1. PICK x \in 1 .. n : x = i - m
      BY <2>3
    <3>2. PICK y \in 1 .. n : y = j - m
      <4>1. j - m \in 1 .. n
        BY <2>3
      <4> QED BY <4>1
    <3>3. x < y
      BY <3>1, <3>2
    <3>4. ~ (j <= m)
      BY <2>3
    <3>5. t[i] = u[x]
      BY ONLY <2>3, <3>1, <1>5, i \in 1 .. m + n
    <3>6. t[j] = u[y]
      BY ONLY <3>4, <3>2, <1>5, j \in 1 .. m + n
    <3> QED BY <3>3, <3>5, <3>6, <1>1, <1>8 DEF Rising
  <2> QED BY <2>1, <2>2, <2>3
<1> QED BY <1>2, <1>7, <1>8

(* The first element of a rising sequence is the least.                    *)
LEMMA RisingTail ==
  ASSUME NEW s \in Seq(Nat), Rising(s), s # << >>
  PROVE  /\ Tail(s) \in Seq(Nat) /\ Rising(Tail(s))
         /\ Head(s) \in Nat /\ Head(s) \in ToSet(s)
         /\ ToSet(Tail(s)) = ToSet(s) \ {Head(s)}
<1>1. IsInjective(s)
  BY RisingFacts
<1>2. /\ Tail(s) \in Seq(Nat) /\ Len(Tail(s)) = Len(s) - 1
      /\ Head(s) = s[1] /\ Head(s) \in ToSet(s)
      /\ ToSet(Tail(s)) = ToSet(s) \ {Head(s)}
  BY <1>1, TailFacts
<1>3. /\ Len(s) \in Nat /\ Len(s) > 0
      /\ \A i \in 1 .. Len(s) - 1 : Tail(s)[i] = s[i + 1]
  BY HeadTailProperties, SeqFacts
<1>4. Rising(Tail(s))
  <2> SUFFICES ASSUME NEW i \in 1 .. Len(s) - 1, NEW j \in 1 .. Len(s) - 1, i < j
               PROVE  Tail(s)[i] < Tail(s)[j]
    BY <1>2 DEF Rising
  <2>1. i + 1 \in 1 .. Len(s) /\ j + 1 \in 1 .. Len(s) /\ i + 1 < j + 1
    BY <1>3
  <2> QED BY <2>1, <1>3 DEF Rising
<1>5. Head(s) \in Nat
  BY <1>2, ElementsIs
<1> QED BY <1>2, <1>4, <1>5

(* The first element and what is left.                                     *)
LEMMA HeadAndTail ==
  ASSUME NEW S, NEW s \in Seq(S), s # << >>
  PROVE  /\ Head(s) \in S /\ Tail(s) \in Seq(S)
         /\ ToSet(s) \subseteq ToSet(Tail(s)) \cup {Head(s)}
<1>1. PICK t : t = Tail(s)
  OBVIOUS
<1>2. /\ Len(s) \in Nat /\ Len(s) > 0 /\ Head(s) \in S /\ Head(s) = s[1]
      /\ t \in Seq(S) /\ Len(t) = Len(s) - 1 /\ \A i \in 1 .. Len(s) - 1 : t[i] = s[i + 1]
  BY <1>1, HeadTailProperties, SeqFacts
<1>3. ToSet(s) = {s[i] : i \in 1 .. Len(s)} /\ ToSet(t) = {t[i] : i \in 1 .. Len(s) - 1}
  BY <1>2, ElementsIs
<1>4. ASSUME NEW i \in 1 .. Len(s) PROVE s[i] \in ToSet(t) \cup {Head(s)}
  <2>1. CASE i = 1
    BY <2>1, <1>2
  <2>2. CASE i # 1
    <3>1. PICK j : j = i - 1
      OBVIOUS
    <3>2. j \in 1 .. Len(s) - 1 /\ j + 1 = i
      BY <2>2, <3>1, <1>2
    <3>3. t[j] = s[i]
      BY <3>2, <1>2
    <3> QED BY <3>2, <3>3, <1>3
  <2> QED BY <2>1, <2>2
<1> QED BY <1>1, <1>2, <1>3, <1>4
===============================================================================
