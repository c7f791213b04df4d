---------------------------- MODULE DispatcherProofs ----------------------------
(***************************************************************************)
(* That the dispatcher loses no event and publishes none twice, that what  *)
(* waits stays in order, and that a delivery skips none of the listeners   *)
(* that were connected when its event came and stayed, for any number of   *)
(* types, listeners and events, however deep listeners call it again.      *)
(*                                                                         *)
(* Inv is the inductive invariant.  Its parts:                             *)
(*   Typed     the types of the variables; no listener twice in a signal   *)
(*   Handled   types without a handler have neither listeners nor events   *)
(*   Queued    what waits in a queue, what is over                         *)
(*   Framed    what each call in progress holds, by itself                 *)
(*   Older     what an outer call still publishes is older than what an    *)
(*             inner one of the same type does                             *)
(*   Placed    every event is over, in a queue or in a batch               *)
(***************************************************************************)
EXTENDS Dispatcher, SequenceFacts, FiniteSetTheorems, TLAPS

FrameSet ==
  [kind : {"update"}, left : Seq(Types), since : [Types -> Nat]]
    \cup [kind : {"deliver"}, type : Types, batch : Seq(Nat), next : Nat,
          owed : SUBSET Listeners, disturbed : BOOLEAN, since : Nat]
    \cup [kind : {"user"}, listener : Listeners]

Typed ==
  /\ pools \in Seq(Types) /\ IsInjective(pools)
  /\ calls \in [Types -> Seq(Listeners)]
  /\ \A t \in Types : IsInjective(calls[t]) /\ \A l \in ToSet(calls[t]) : Event[l] = t
  /\ queue \in [Types -> Seq(Nat)]
  /\ stack \in Seq(FrameSet)
  /\ sent \in [Types -> Nat]
  /\ gone \in [Types -> SUBSET Nat]

Handled == \A t \in Types : ~ Known(t) => calls[t] = << >> /\ queue[t] = << >>

(* An event that was enqueued and is not over.                             *)
Waits(t, e) == 0 < e /\ e <= sent[t] /\ e \notin gone[t]

Queued ==
  \A t \in Types :
    /\ Rising(queue[t]) /\ \A e \in ToSet(queue[t]) : Waits(t, e)
    /\ \A e \in gone[t] : e <= sent[t]

(* Each listener that is owed a call has a position that is still to come. *)
Kept(s, m, owed) == \A l \in owed : \E n \in 1 .. Len(s) : n <= m /\ s[n] = l

(* The listeners of owed are those at the first m positions of s.          *)
FirstOwed(s, m, owed) ==
  m <= Len(s) /\ \A n \in 1 .. Len(s) : s[n] \in owed <=> n <= m

Owes(f) ==
  /\ Kept(calls[f.type], f.next, f.owed)
  /\ f.disturbed = FALSE => FirstOwed(calls[f.type], f.next, f.owed)

Carries(f) ==
  /\ Rising(f.batch)
  /\ \A e \in ToSet(f.batch) :
       /\ Waits(f.type, e) /\ e <= f.since
       /\ \A x \in ToSet(queue[f.type]) : e < x

(* An event that was queued as the call of update() came and still is.     *)
Visits(f) ==
  \A t \in Types :
    /\ f.since[t] <= sent[t]
    /\ \A e \in ToSet(queue[t]) : e > f.since[t] \/ t \in ToSet(f.left)

FrameHolds(f) ==
  /\ f.kind = "deliver" => Owes(f) /\ Carries(f)
  /\ f.kind = "update" => Visits(f)

Framed == \A k \in 1 .. Len(stack) : FrameHolds(stack[k])

Delivers(f, t) == f.kind = "deliver" /\ f.type = t

Older ==
  \A t \in Types, j, k \in 1 .. Len(stack) :
    j < k /\ Delivers(stack[j], t) /\ Delivers(stack[k], t)
      => \A e \in ToSet(stack[j].batch), x \in ToSet(stack[k].batch) : e < x

Carried(t, e) ==
  \E k \in 1 .. Len(stack) : Delivers(stack[k], t) /\ e \in ToSet(stack[k].batch)

Placed ==
  \A t \in Types, e \in Nat :
    Waits(t, e) => e \in ToSet(queue[t]) \/ Carried(t, e)

Inv == Typed /\ Handled /\ Queued /\ Framed /\ Older /\ Placed

-------------------------------------------------------------------------------
(* disconnect_if, one step after the other.                                *)

(* One step of disconnect_if.                                              *)
Dropped(s, pos, which) ==
  IF s[pos] \in which THEN Front([s EXCEPT ![pos] = Last(s)]) ELSE s

LEMMA DroppedIn ==
  ASSUME NEW S, NEW s \in Seq(S), NEW pos \in Nat, NEW which
  PROVE  Dropped(s, pos, which) \in Seq(S)
<1>1. CASE pos \in 1 .. Len(s)
  <2>1. PICK t : t = Front([s EXCEPT ![pos] = Last(s)])
    OBVIOUS
  <2>2. t \in Seq(S)
    BY <1>1, <2>1, SwapPopFacts
  <2> QED BY <2>1, <2>2 DEF Dropped
<1>2. CASE pos \notin 1 .. Len(s)
  <2>1. [s EXCEPT ![pos] = Last(s)] = s
    BY <1>2
  <2>2. Front(s) \in Seq(S)
    <3>1. PICK n : n = Len(s) - 1
      OBVIOUS
    <3>2. n \in Int /\ 1 \in Int /\ \A i \in 1 .. n : s[i] \in S
      BY <3>1
    <3>3. SubSeq(s, 1, n) \in Seq(S)
      BY <3>2, SubSeqProperties
    <3> QED BY <3>1, <3>3 DEF Front
  <2> QED BY <2>1, <2>2 DEF Dropped
<1> QED BY <1>1, <1>2

LEMMA DisconnectChain ==
  ASSUME NEW S, NEW seq \in Seq(S), NEW which
  PROVE  \E c : /\ c \in [0 .. Len(seq) -> Seq(S)]
                /\ c[0] = seq /\ c[Len(seq)] = DisconnectIf(seq, which)
                /\ \A k \in 1 .. Len(seq) :
                     c[k] = Dropped(c[k - 1], Len(seq) - k + 1, which)
<1>1. PICK n \in Nat : n = Len(seq)
  BY SeqFacts
<1> DEFINE r == Reverse([k \in DOMAIN seq |-> k])
<1>3. DOMAIN r = 1 .. n /\ \A k \in 1 .. n : r[k] = n - k + 1
  <2>1. PICK q : q = [k \in DOMAIN seq |-> k]
    OBVIOUS
  <2>2. q = [k \in 1 .. n |-> k] /\ q \in Seq(Nat) /\ Len(q) = n
    <3>1. DOMAIN seq = 1 .. n
      BY <1>1
    <3>2. q \in [1 .. n -> Nat]
      BY <3>1, <2>1
    <3> QED BY <3>1, <3>2, <2>1
  <2>3. r = [i \in 1 .. n |-> q[n - i + 1]]
    BY <2>1, <2>2 DEF Reverse
  <2>4. \A i \in 1 .. n : n - i + 1 \in 1 .. n
    OBVIOUS
  <2> HIDE DEF r
  <2> QED BY <2>2, <2>3, <2>4
<1> HIDE DEF r
<1>4. PICK F : F = [a \in (1 .. n) \X Seq(S) |-> Dropped(a[2], r[a[1]], which)]
  OBVIOUS
<1>5. ASSUME NEW k \in 1 .. n, NEW s \in Seq(S)
      PROVE  F[<<k, s>>] = Dropped(s, r[k], which) /\ F[<<k, s>>] \in Seq(S)
  <2>1. r[k] \in Nat
    BY <1>3
  <2>2. F[<<k, s>>] = Dropped(s, r[k], which)
    BY <1>4
  <2> QED BY <2>1, <2>2, DroppedIn
<1>6. F \in StepsOf(n, Seq(S))
  <2>1. ASSUME NEW a \in (1 .. n) \X Seq(S) PROVE F[a] \in Seq(S)
    <3>1. a = <<a[1], a[2]>> /\ a[1] \in 1 .. n /\ a[2] \in Seq(S)
      OBVIOUS
    <3> QED BY <3>1, <1>5
  <2>2. F = [a \in (1 .. n) \X Seq(S) |-> F[a]]
    BY <1>4
  <2> QED BY <2>1, <2>2 DEF StepsOf
<1>7a. PICK h : IsFold(h, F, n, Seq(S), seq)
  BY ONLY <1>6, n \in Nat, seq \in Seq(S), FoldExists
<1>7. /\ h \in [SUBSET (1 .. n) -> Seq(S)]
      /\ \A u \in SUBSET (1 .. n) :
           h[u] = IF u = {} THEN seq ELSE F[<<Max(u), h[u \ {Max(u)}]>>]
  BY <1>7a DEF IsFold
<1>8. \A u \in SUBSET (1 .. n) : u # {} => Max(u) \in 1 .. n
  BY LastExists
<1>9. \A u \in SUBSET (1 .. n) :
          h[u] = IF u = {} THEN seq ELSE Dropped(h[u \ {Max(u)}], r[Max(u)], which)
  <2> SUFFICES ASSUME NEW u \in SUBSET (1 .. n), u # {}
               PROVE  F[<<Max(u), h[u \ {Max(u)}]>>] = Dropped(h[u \ {Max(u)}], r[Max(u)], which)
    BY <1>7
  <2>1. Max(u) \in 1 .. n
    BY <1>8
  <2>2. h[u \ {Max(u)}] \in Seq(S)
    BY <1>7
  <2> QED BY <2>1, <2>2, <1>5
<1>10. h = [u \in SUBSET (DOMAIN r) |->
              IF u = {} THEN seq
              ELSE IF h[u \ {Max(u)}][r[Max(u)]] \in which
                   THEN Front([h[u \ {Max(u)}] EXCEPT ![r[Max(u)]] = Last(h[u \ {Max(u)}])])
                   ELSE h[u \ {Max(u)}]]
  <2>1. h = [u \in SUBSET (1 .. n) |-> h[u]]
    BY <1>7
  <2>2. h = [u \in SUBSET (DOMAIN r) |->
              IF u = {} THEN seq ELSE Dropped(h[u \ {Max(u)}], r[Max(u)], which)]
    BY <1>3, <1>9, <2>1
  <2> QED BY ONLY <2>2 DEF Dropped
<1>11. PICK g : /\ g = [u \in SUBSET (DOMAIN r) |->
                         IF u = {} THEN seq
                         ELSE IF g[u \ {Max(u)}][r[Max(u)]] \in which
                              THEN Front([g[u \ {Max(u)}] EXCEPT ![r[Max(u)]] = Last(g[u \ {Max(u)}])])
                              ELSE g[u \ {Max(u)}]]
                /\ DisconnectIf(seq, which) = g[DOMAIN r]
  BY <1>10 DEF r, DisconnectIf, FoldLeft, MapThenFoldSet
<1>12. g = [u \in SUBSET (1 .. n) |->
              IF u = {} THEN seq ELSE Dropped(g[u \ {Max(u)}], r[Max(u)], which)]
  BY <1>3, <1>11 DEF Dropped
<1>13. Follows(g, F, n, Seq(S), seq)
  <2>1. g[{}] = seq
    BY <1>12
  <2>2. ASSUME NEW u \in SUBSET (1 .. n), u # {}, g[u \ {Max(u)}] \in Seq(S)
        PROVE  g[u] = F[<<Max(u), g[u \ {Max(u)}]>>]
    <3>1. g[u] = Dropped(g[u \ {Max(u)}], r[Max(u)], which)
      BY <1>12, <2>2
    <3>2. Max(u) \in 1 .. n
      BY <1>8, <2>2
    <3> QED BY <3>1, <3>2, <2>2, <1>5
  <2> QED BY <2>1, <2>2 DEF Follows
<1>14. PICK c : IsChain(c, F, n, Seq(S), seq) /\ c[n] = g[1 .. n]
  BY ONLY <1>6, <1>13, n \in Nat, seq \in Seq(S), FoldChain
<1>15. c[n] = DisconnectIf(seq, which)
  BY <1>3, <1>11, <1>14
<1>16. c \in [0 .. n -> Seq(S)] /\ c[0] = seq
  BY <1>14 DEF IsChain
<1>17. ASSUME NEW k \in 1 .. n PROVE c[k] = Dropped(c[k - 1], n - k + 1, which)
  <2>1. c[k] = F[<<k, c[k - 1]>>]
    BY <1>14 DEF IsChain
  <2>2. k - 1 \in 0 .. n
    OBVIOUS
  <2>3. c[k - 1] \in Seq(S)
    BY <1>16, <2>2
  <2> QED BY <2>1, <2>3, <1>3, <1>5
<1> QED BY <1>1, <1>15, <1>16, <1>17

(* A listener that stays is called no later than it was to be.             *)
Sinks(s, which, t) ==
  \A i \in 1 .. Len(s) : s[i] \notin which => \E j \in 1 .. Len(t) : j <= i /\ t[j] = s[i]

(* t is s without the listener at the position, if that is to go.          *)
DropsOne(s, pos, which, t) ==
  /\ Sinks(s, which, t)
  /\ IsInjective(t)
  /\ ToSet(t) = ToSet(s) \ ({s[pos]} \cap which)
  /\ Len(t) >= pos - 1 /\ \A i \in 1 .. pos - 1 : t[i] = s[i]
  /\ s[pos] \notin which => t = s

LEMMA DroppedFacts ==
  ASSUME NEW S, NEW s \in Seq(S), IsInjective(s), NEW pos \in 1 .. Len(s), NEW which,
         NEW t, t = Dropped(s, pos, which)
  PROVE  t \in Seq(S) /\ DropsOne(s, pos, which, t)
<1>1. Len(s) \in Nat /\ pos \in Nat
  BY SeqFacts
<1>2. CASE s[pos] \in which
  <2>1. t = Front([s EXCEPT ![pos] = Last(s)])
    BY <1>2 DEF Dropped
  <2>2. t \in Seq(S) /\ SwapPopped(s, pos, t)
    BY <2>1, SwapPopFacts
  <2>3. IsInjective(t) /\ ToSet(t) = ToSet(s) \ {s[pos]}
    BY <2>2, SwapPopElements
  <2>4. Len(t) >= pos - 1 /\ \A i \in 1 .. pos - 1 : t[i] = s[i]
    BY <1>1, <2>2 DEF SwapPopped
  <2>5. ASSUME NEW i \in 1 .. Len(s), s[i] \notin which
        PROVE  \E j \in 1 .. Len(t) : j <= i /\ t[j] = s[i]
    <3>1. Len(t) = Len(s) - 1 /\ \A j \in 1 .. Len(s) - 1 : t[j] = IF j = pos THEN s[Len(s)] ELSE s[j]
      BY <2>2 DEF SwapPopped
    <3>2. i # pos
      BY <1>2, <2>5
    <3>3. CASE i = Len(s)
      <4>1. pos \in 1 .. Len(s) - 1 /\ pos <= i
        BY <1>1, <3>2, <3>3
      <4> QED BY <4>1, <3>1, <3>3
    <3>4. CASE i # Len(s)
      <4>1. i \in 1 .. Len(s) - 1 /\ i <= i
        BY <1>1, <3>4
      <4> QED BY <4>1, <3>1, <3>2
    <3> QED BY <3>3, <3>4
  <2> QED BY <1>2, <2>2, <2>3, <2>4, <2>5 DEF DropsOne, Sinks
<1>3. CASE s[pos] \notin which
  <2>1. t = s
    BY <1>3 DEF Dropped
  <2>2. \A i \in 1 .. Len(s) : i <= i
    BY <1>1
  <2> QED BY <1>1, <1>3, <2>1, <2>2 DEF DropsOne, Sinks
<1> QED BY <1>2, <1>3

(* The listeners before the first that goes stay where they are.           *)
KeepsFront(s, which, t) ==
  \A m \in 0 .. Len(s) :
    (\A i \in 1 .. m : s[i] \notin which) => Len(t) >= m /\ \A i \in 1 .. m : t[i] = s[i]

(* disconnect_if removes exactly what it is told to.                       *)
LEMMA DisconnectFacts ==
  ASSUME NEW S, NEW seq \in Seq(S), IsInjective(seq), NEW which,
         NEW t, t = DisconnectIf(seq, which)
  PROVE  /\ t \in Seq(S) /\ IsInjective(t)
         /\ ToSet(t) = ToSet(seq) \ which
         /\ KeepsFront(seq, which, t)
         /\ Sinks(seq, which, t)
<1>1. PICK n \in Nat : n = Len(seq)
  BY SeqFacts
<1>2. PICK c : /\ c \in [0 .. n -> Seq(S)] /\ c[0] = seq /\ c[n] = t
               /\ \A k \in 1 .. n : c[k] = Dropped(c[k - 1], n - k + 1, which)
  BY <1>1, DisconnectChain
<1>3. ToSet(seq) = {seq[i] : i \in 1 .. n} /\ \A i, j \in 1 .. n : seq[i] = seq[j] => i = j
  BY <1>1, ElementsIs
<1>4. \A k \in 1 .. n : k - 1 \in 0 .. n /\ k \in 0 .. n
  OBVIOUS
<1> DEFINE Gone(k) == {seq[i] : i \in n - k + 1 .. n} \cap which
           Good(k) == /\ IsInjective(c[k])
                      /\ ToSet(c[k]) = ToSet(seq) \ Gone(k)
                      /\ Len(c[k]) >= n - k /\ \A i \in 1 .. n - k : c[k][i] = seq[i]
           T == {k \in 0 .. n : Good(k)}
<1>5. 0 \in T
  <2>1. n - 0 + 1 .. n = {} /\ n - 0 = n /\ 0 \in 0 .. n
    OBVIOUS
  <2>2. Gone(0) = {}
    BY <2>1
  <2> HIDE DEF Gone
  <2> QED BY <1>1, <1>2, <2>1, <2>2
<1>6. ASSUME NEW k \in 1 .. n, k - 1 \in T PROVE k \in T
  <2>1. PICK s \in Seq(S) : s = c[k - 1]
    BY <1>2, <1>4
  <2>2. PICK p \in 1 .. n : p = n - k + 1
    OBVIOUS
  <2>3. /\ IsInjective(s) /\ ToSet(s) = ToSet(seq) \ Gone(k - 1)
        /\ Len(s) >= p /\ \A i \in 1 .. p : s[i] = seq[i]
    <3>1. Good(k - 1)
      BY <1>6
    <3>2. n - (k - 1) = p
      BY <2>2
    <3> HIDE DEF Gone
    <3> QED BY <3>1, <3>2, <2>1
  <2>4. p \in 1 .. Len(s) /\ s[p] = seq[p] /\ Len(s) \in Nat
    <3>1. Len(s) \in Nat
      BY SeqFacts
    <3> QED BY <3>1, <2>3
  <2>5. c[k] = Dropped(s, p, which)
    BY <1>2, <2>1, <2>2
  <2>6. PICK u : u = c[k]
    OBVIOUS
  <2>7. /\ u \in Seq(S) /\ IsInjective(u)
        /\ ToSet(u) = ToSet(s) \ ({s[p]} \cap which)
        /\ Len(u) >= p - 1 /\ \A i \in 1 .. p - 1 : u[i] = s[i]
    <3>1. u \in Seq(S) /\ DropsOne(s, p, which, u)
      BY ONLY <2>1, <2>3, <2>4, <2>5, <2>6, DroppedFacts
    <3> QED BY <3>1 DEF DropsOne
  <2>8. Gone(k) = Gone(k - 1) \cup ({seq[p]} \cap which)
    <3>1. n - k + 1 .. n = (n - (k - 1) + 1 .. n) \cup {p}
      BY <2>2
    <3> QED BY <3>1
  <2>9. ToSet(u) = ToSet(seq) \ Gone(k)
    <3> HIDE DEF Gone
    <3> QED BY <2>3, <2>4, <2>7, <2>8
  <2>10. Len(u) >= n - k /\ \A i \in 1 .. n - k : u[i] = seq[i]
    <3>1. n - k = p - 1
      BY <2>2
    <3> QED BY <3>1, <2>3, <2>7
  <2>11. k \in 0 .. n
    BY <1>4
  <2> HIDE DEF Gone
  <2> QED BY <2>6, <2>7, <2>9, <2>10, <2>11
<1>7. \A k \in 0 .. n : k \in T
  <2> HIDE DEF T
  <2> QED BY <1>5, <1>6, CountUp
<1>8. t \in Seq(S) /\ IsInjective(t) /\ ToSet(t) = ToSet(seq) \ which
  <2>1. Good(n) /\ n \in 0 .. n
    BY <1>7
  <2>2. n - n + 1 .. n = 1 .. n
    OBVIOUS
  <2>3. Gone(n) = ToSet(seq) \cap which
    BY <1>3, <2>2
  <2> HIDE DEF Gone
  <2> QED BY <2>1, <2>3, <1>2
<1>9. ASSUME NEW m \in 0 .. n, \A i \in 1 .. m : seq[i] \notin which
      PROVE  Len(t) >= m /\ \A i \in 1 .. m : t[i] = seq[i]
  <2> DEFINE Same(k) == Len(c[k]) >= m /\ \A i \in 1 .. m : c[k][i] = seq[i]
             U == {k \in 0 .. n : Same(k)}
  <2>1. 0 \in U
    BY <1>1, <1>2
  <2>2. ASSUME NEW k \in 1 .. n, k - 1 \in U PROVE k \in U
    <3>1. PICK s \in Seq(S) : s = c[k - 1]
      BY <1>2, <1>4
    <3>2. PICK p \in 1 .. n : p = n - k + 1
      OBVIOUS
    <3>3. IsInjective(s) /\ Len(s) >= p /\ s[p] = seq[p] /\ Len(s) \in Nat
      <4>1. k - 1 \in T
        BY <1>4, <1>7
      <4>2. Good(k - 1) /\ n - (k - 1) = p
        BY <4>1, <3>2
      <4> HIDE DEF Gone, T
      <4> QED BY <4>2, <3>1, SeqFacts
    <3>4. Len(s) >= m /\ \A i \in 1 .. m : s[i] = seq[i]
      BY <2>2, <3>1
    <3>5. PICK u : u = c[k]
      OBVIOUS
    <3>6. u = Dropped(s, p, which) /\ p \in 1 .. Len(s)
      BY <1>2, <3>1, <3>2, <3>3, <3>5
    <3>7. /\ Len(u) >= p - 1 /\ \A i \in 1 .. p - 1 : u[i] = s[i]
          /\ s[p] \notin which => u = s
      <4>1. DropsOne(s, p, which, u)
        BY ONLY <3>1, <3>3, <3>6, DroppedFacts
      <4> QED BY <4>1 DEF DropsOne
    <3>8. u \in Seq(S) /\ k \in 0 .. n
      BY <1>2, <1>4, <3>5
    <3>9. CASE p <= m
      <4>1. s[p] \notin which
        BY <3>3, <3>9, <1>9
      <4> QED BY <4>1, <3>4, <3>5, <3>7, <3>8
    <3>10. CASE ~ (p <= m)
      <4>1. Len(u) >= m
        <5>1. Len(u) \in Nat
          BY <3>8, SeqFacts
        <5> QED BY <5>1, <3>7, <3>10
      <4>2. \A i \in 1 .. m : u[i] = seq[i]
        BY <3>4, <3>7, <3>10
      <4> QED BY <4>1, <4>2, <3>5, <3>8
    <3> QED BY <3>9, <3>10
  <2>3. \A k \in 0 .. n : k \in U
    <3> HIDE DEF U
    <3> QED BY <2>1, <2>2, CountUp
  <2>4. n \in U
    <3> HIDE DEF U
    <3> QED BY <2>3
  <2> QED BY <2>4, <1>2
<1>10. ASSUME NEW x \in 1 .. n, seq[x] \notin which
       PROVE  \E j \in 1 .. Len(t) : j <= x /\ t[j] = seq[x]
  <2> DEFINE Early(k) == \E j \in 1 .. Len(c[k]) : j <= x /\ c[k][j] = seq[x]
             U == {k \in 0 .. n : Early(k)}
  <2>1. 0 \in U
    BY <1>1, <1>2
  <2>2. ASSUME NEW k \in 1 .. n, k - 1 \in U PROVE k \in U
    <3>1. PICK s \in Seq(S) : s = c[k - 1]
      BY <1>2, <1>4
    <3>2. PICK p \in 1 .. n : p = n - k + 1
      OBVIOUS
    <3>3. IsInjective(s) /\ Len(s) >= p /\ Len(s) \in Nat
      <4>1. k - 1 \in T
        BY <1>4, <1>7
      <4>2. Good(k - 1) /\ n - (k - 1) = p
        BY <4>1, <3>2
      <4> HIDE DEF Gone, T
      <4> QED BY <4>2, <3>1, SeqFacts
    <3>4. PICK i \in 1 .. Len(s) : i <= x /\ s[i] = seq[x]
      BY <2>2, <3>1
    <3>5. PICK u : u = c[k]
      OBVIOUS
    <3>6. u = Dropped(s, p, which) /\ p \in 1 .. Len(s)
      BY <1>2, <3>1, <3>2, <3>3, <3>5
    <3>7. u \in Seq(S) /\ DropsOne(s, p, which, u)
      BY ONLY <3>1, <3>3, <3>6, DroppedFacts
    <3>8. PICK j \in 1 .. Len(u) : j <= i /\ u[j] = s[i]
      BY <3>4, <3>7, <1>10 DEF DropsOne, Sinks
    <3>9. j <= x /\ u[j] = seq[x] /\ Len(u) \in Nat
      BY <3>4, <3>7, <3>8, SeqFacts
    <3>10. k \in 0 .. n
      BY <1>4
    <3> QED BY <3>5, <3>8, <3>9, <3>10
  <2>3. \A k \in 0 .. n : k \in U
    <3> HIDE DEF U
    <3> QED BY <2>1, <2>2, CountUp
  <2>4. n \in U
    <3> HIDE DEF U
    <3> QED BY <2>3
  <2> QED BY <2>4, <1>2
<1> QED BY <1>1, <1>8, <1>9, <1>10 DEF KeepsFront, Sinks

(* None of the first m positions is to go.                                 *)
FirstSpared(s, m, which) == \A n \in 1 .. Len(s) : s[n] \in which => n > m

(* Those that are owed a call and stay have their positions to come.       *)
LEMMA KeptAfter ==
  ASSUME NEW S, NEW s \in Seq(S), NEW t \in Seq(S), NEW which, Sinks(s, which, t),
         NEW m \in Nat, NEW owed, Kept(s, m, owed)
  PROVE  Kept(t, m, owed \ which)
<1> SUFFICES ASSUME NEW l \in owed, l \notin which
             PROVE  \E n \in 1 .. Len(t) : n <= m /\ t[n] = l
  BY DEF Kept
<1>1. PICK i \in 1 .. Len(s) : i <= m /\ s[i] = l
  BY DEF Kept
<1>2. PICK j \in 1 .. Len(t) : j <= i /\ t[j] = l
  BY <1>1 DEF Sinks
<1>3. Len(s) \in Nat /\ Len(t) \in Nat
  BY SeqFacts
<1> QED BY <1>1, <1>2, <1>3

(* What a delivery owes is at the first positions still after others went. *)
LEMMA OwesAfter ==
  ASSUME NEW S, NEW s \in Seq(S), NEW t \in Seq(S), IsInjective(s), IsInjective(t),
         NEW which, ToSet(t) \subseteq ToSet(s), KeepsFront(s, which, t),
         NEW m \in Nat, NEW owed, FirstOwed(s, m, owed), FirstSpared(s, m, which)
  PROVE  FirstOwed(t, m, owed)
<1> USE DEF FirstOwed, FirstSpared
<1>1. Len(s) \in Nat /\ Len(t) \in Nat
  BY SeqFacts
<1>2. Len(t) >= m /\ \A i \in 1 .. m : t[i] = s[i]
  <2>1. m \in 0 .. Len(s) /\ \A i \in 1 .. m : s[i] \notin which
    BY <1>1
  <2> QED BY <2>1 DEF KeepsFront
<1>3. ASSUME NEW n \in 1 .. Len(t), n <= m PROVE t[n] \in owed
  <2>1. n \in 1 .. m /\ n \in 1 .. Len(s)
    BY <1>1, <1>3
  <2> QED BY <2>1, <1>2, <1>3
<1>4. ASSUME NEW n \in 1 .. Len(t), ~ (n <= m) PROVE t[n] \notin owed
  <2>1. PICK j \in 1 .. Len(s) : t[n] = s[j]
    <3>1. t[n] \in ToSet(t)
      BY ElementsIs
    <3>2. t[n] \in ToSet(s)
      BY <3>1
    <3> QED BY <3>2, ElementsIs
  <2>2. CASE j <= m
    <3>1. j \in 1 .. m /\ j \in 1 .. Len(t)
      BY <2>2, <1>1, <1>2
    <3>2. t[n] = t[j]
      BY <3>1, <2>1, <1>2
    <3>3. n = j
      BY ONLY <3>1, <3>2, n \in 1 .. Len(t), IsInjective(t), t \in Seq(S), ElementsIs
    <3> QED BY <3>3, <2>2, <1>4
  <2>3. CASE ~ (j <= m)
    BY <2>1, <2>3
  <2> QED BY <2>2, <2>3
<1> QED BY <1>1, <1>2, <1>3, <1>4

(* An event that comes is owed to all the listeners.                       *)
LEMMA AllOwed ==
  ASSUME NEW S, NEW s \in Seq(S)
  PROVE  Kept(s, Len(s), ToSet(s)) /\ FirstOwed(s, Len(s), ToSet(s))
<1>1. Len(s) \in Nat /\ ToSet(s) = {s[n] : n \in 1 .. Len(s)}
  BY SeqFacts, ElementsIs
<1>2. \A n \in 1 .. Len(s) : n <= Len(s)
  BY <1>1
<1> QED BY <1>1, <1>2 DEF Kept, FirstOwed

-------------------------------------------------------------------------------
(* Calls in progress.                                                      *)

(* What a call in progress is made of.                                     *)
LEMMA FrameParts ==
  ASSUME NEW f \in FrameSet
  PROVE  /\ f.kind \in {"update", "deliver", "user"}
         /\ f.kind = "deliver" =>
              /\ f.type \in Types /\ f.batch \in Seq(Nat) /\ f.next \in Nat
              /\ f.owed \subseteq Listeners /\ f.disturbed \in BOOLEAN /\ f.since \in Nat
              /\ f = [kind |-> "deliver", type |-> f.type, batch |-> f.batch,
                      next |-> f.next, owed |-> f.owed, disturbed |-> f.disturbed,
                      since |-> f.since]
         /\ f.kind = "update" =>
              /\ f.left \in Seq(Types) /\ f.since \in [Types -> Nat]
              /\ f = [kind |-> "update", left |-> f.left, since |-> f.since]
BY DEF FrameSet

(* Every call in progress holds what it should, one by one.                *)
LEMMA FramedIs ==
  ASSUME stack' \in Seq(FrameSet),
         \A k \in 1 .. Len(stack'), f \in FrameSet : f = stack'[k] => FrameHolds(f)'
  PROVE  Framed'
<1> SUFFICES ASSUME NEW k \in 1 .. Len(stack') PROVE FrameHolds(stack[k])'
  BY DEF Framed
<1>1. PICK f \in FrameSet : f = stack'[k]
  BY SeqFacts
<1>2. FrameHolds(f)'
  BY <1>1
<1> QED BY <1>1, <1>2 DEF FrameHolds, Owes, Kept, FirstOwed, Carries, Visits, Waits

(* A call in progress of an outer position before the step.                *)
LEMMA FrameBefore ==
  ASSUME Framed, NEW k \in 1 .. Len(stack), NEW f, f = stack[k]
  PROVE  FrameHolds(f)
BY DEF Framed, FrameHolds, Owes, Carries, Visits, Waits

(* A delivery of the state after comes from one before that had as much.   *)
Narrows ==
  \A k \in 1 .. Len(stack') :
    stack'[k].kind = "deliver" =>
      \/ ToSet(stack'[k].batch) = {}
      \/ /\ k \in 1 .. Len(stack) /\ stack[k].kind = "deliver"
         /\ stack[k].type = stack'[k].type
         /\ ToSet(stack'[k].batch) \subseteq ToSet(stack[k].batch)

LEMMA OlderKept ==
  ASSUME Older, Narrows
  PROVE  Older'
<1> SUFFICES ASSUME NEW t \in Types, NEW j \in 1 .. Len(stack'), NEW k \in 1 .. Len(stack'),
                    j < k, stack'[j].kind = "deliver", stack'[j].type = t,
                    stack'[k].kind = "deliver", stack'[k].type = t,
                    NEW e \in ToSet(stack'[j].batch), NEW x \in ToSet(stack'[k].batch)
             PROVE  e < x
  BY DEF Older, Delivers
<1>1. /\ j \in 1 .. Len(stack) /\ stack[j].kind = "deliver" /\ stack[j].type = t
      /\ e \in ToSet(stack[j].batch)
  BY DEF Narrows
<1>2. /\ k \in 1 .. Len(stack) /\ stack[k].kind = "deliver" /\ stack[k].type = t
      /\ x \in ToSet(stack[k].batch)
  BY DEF Narrows
<1> QED BY <1>1, <1>2 DEF Older, Delivers

(* The parts of the invariant after a step.                                *)
LEMMA InvIs ==
  ASSUME Typed', Handled', Queued', Framed', Older', Placed'
  PROVE  Inv'
BY DEF Inv

(* assure knows a type more, or none.                                      *)
LEMMA AssureFacts ==
  ASSUME Typed, NEW t \in Types, Assure(t)
  PROVE  /\ pools' \in Seq(Types) /\ IsInjective(pools')
         /\ ToSet(pools') = ToSet(pools) \cup {t}
<1>1. pools \in Seq(Types) /\ IsInjective(pools)
  BY DEF Typed
<1>2. CASE t \in ToSet(pools)
  BY <1>1, <1>2 DEF Assure, Known
<1>3. CASE t \notin ToSet(pools)
  <2>1. pools' = Append(pools, t)
    BY <1>3 DEF Assure, Known
  <2>2. pools' \in Seq(Types)
    BY <1>1, <2>1
  <2>3. IsInjective(pools') /\ ToSet(pools') = ToSet(pools) \cup {t}
    BY <1>1, <1>3, <2>1, PushInjective, PushElements
  <2> QED BY <2>2, <2>3
<1> QED BY <1>2, <1>3

-------------------------------------------------------------------------------
(* Listeners come and go.                                                  *)

(* A call in progress after listeners went.                                *)
LEMMA DepartingFacts ==
  ASSUME NEW f \in FrameSet, NEW which
  PROVE  /\ Departing(f, which) \in FrameSet
         /\ Departing(f, which).kind = f.kind
         /\ f.kind # "deliver" => Departing(f, which) = f
         /\ f.kind = "deliver" =>
              /\ Departing(f, which).type = f.type
              /\ Departing(f, which).batch = f.batch
              /\ Departing(f, which).next = f.next
              /\ Departing(f, which).since = f.since
              /\ Departing(f, which).owed = f.owed \ which
              /\ Departing(f, which).disturbed = FALSE =>
                   f.disturbed = FALSE /\ f.owed \cap which = {}
<1> DEFINE g == Departing(f, which)
<1>1. CASE f.kind # "deliver"
  BY <1>1 DEF Departing
<1>2. CASE f.kind = "deliver"
  <2>1. PICK t, b, n, o, d, e :
          t = f.type /\ b = f.batch /\ n = f.next /\ o = f.owed /\ d = f.disturbed /\ e = f.since
    OBVIOUS
  <2>2. /\ t \in Types /\ b \in Seq(Nat) /\ n \in Nat /\ o \subseteq Listeners
        /\ d \in BOOLEAN /\ e \in Nat
        /\ f = [kind |-> "deliver", type |-> t, batch |-> b, next |-> n, owed |-> o,
                disturbed |-> d, since |-> e]
    BY <1>2, <2>1, FrameParts
  <2>3. PICK c : c = (d \/ o \cap which # {})
    OBVIOUS
  <2>4. c \in BOOLEAN /\ (c = FALSE => d = FALSE /\ o \cap which = {})
    BY <2>2, <2>3, Zenon
  <2>5. g = [kind |-> "deliver", type |-> t, batch |-> b, next |-> n, owed |-> o \ which,
             disturbed |-> c, since |-> e]
    <3>1. g = [f EXCEPT !.owed = f.owed \ which,
                        !.disturbed = f.disturbed \/ f.owed \cap which # {}]
      BY <1>2 DEF Departing
    <3>2. g = [f EXCEPT !.owed = o \ which, !.disturbed = c]
      BY <3>1, <2>1, <2>3
    <3> QED BY ONLY <3>2, <2>2
  <2>6. g \in FrameSet
    BY <2>2, <2>4, <2>5 DEF FrameSet
  <2> QED BY <1>2, <2>1, <2>4, <2>5, <2>6
<1> QED BY <1>1, <1>2

(* The calls in progress after listeners went.                             *)
LEMMA DepartedFacts ==
  ASSUME stack \in Seq(FrameSet), NEW which, stack' = Departed(which)
  PROVE  /\ stack' \in Seq(FrameSet) /\ Len(stack') = Len(stack)
         /\ \A k \in 1 .. Len(stack) : stack'[k] = Departing(stack[k], which)
<1>1. PICK n \in Nat : n = Len(stack) /\ DOMAIN stack = 1 .. n
  BY SeqFacts
<1>2. stack' = [k \in 1 .. n |-> Departing(stack[k], which)]
  BY <1>1 DEF Departed
<1>3. \A k \in 1 .. n : Departing(stack[k], which) \in FrameSet
  BY <1>1, DepartingFacts, SeqFacts
<1>4. stack' \in [1 .. n -> FrameSet]
  BY <1>2, <1>3
<1> QED BY <1>1, <1>2, <1>4

(* A step that changes the signals alone.                                  *)
LEMMA CallsInv ==
  ASSUME Inv, UNCHANGED <<queue, sent, gone>>, NEW which, stack' = Departed(which),
         pools' \in Seq(Types), IsInjective(pools'), ToSet(pools) \subseteq ToSet(pools'),
         calls' \in [Types -> Seq(Listeners)],
         \A t \in Types : IsInjective(calls'[t]) /\ \A l \in ToSet(calls'[t]) : Event[l] = t,
         \A t \in Types : t \notin ToSet(pools') => calls'[t] = << >>,
         \A f, g \in FrameSet :
           f.kind = "deliver" /\ Owes(f) /\ g = Departing(f, which) => Owes(g)'
  PROVE  Inv'
<1> USE DEF Inv
<1>1. /\ stack' \in Seq(FrameSet) /\ Len(stack') = Len(stack)
      /\ \A k \in 1 .. Len(stack) : stack'[k] = Departing(stack[k], which)
  BY DepartedFacts DEF Typed
<1>2. ASSUME NEW k \in 1 .. Len(stack)
      PROVE  \E f, g \in FrameSet :
               /\ f = stack[k] /\ g = stack'[k] /\ g = Departing(f, which)
               /\ g.kind = f.kind /\ FrameHolds(f)
               /\ f.kind # "deliver" => g = f
               /\ f.kind = "deliver" => /\ g.type = f.type /\ g.batch = f.batch
                                        /\ g.since = f.since
  <2>1. PICK f \in FrameSet : f = stack[k]
    BY SeqFacts DEF Typed
  <2>2. PICK g : g = Departing(f, which)
    OBVIOUS
  <2>3. /\ g \in FrameSet /\ g.kind = f.kind
        /\ f.kind # "deliver" => g = f
        /\ f.kind = "deliver" => /\ g.type = f.type /\ g.batch = f.batch
                                 /\ g.since = f.since
    BY <2>2, DepartingFacts
  <2>4. FrameHolds(f)
    BY <2>1, FrameBefore
  <2> QED BY <1>1, <2>1, <2>2, <2>3, <2>4
<1>3. Typed'
  BY <1>1 DEF Typed
<1>4. Handled'
  BY DEF Handled, Known
<1>5. Queued'
  BY DEF Queued, Waits
<1>6. Framed'
  <2> SUFFICES ASSUME NEW k \in 1 .. Len(stack), NEW g \in FrameSet, g = stack'[k]
               PROVE  FrameHolds(g)'
    BY <1>1, FramedIs
  <2>1. PICK f \in FrameSet :
          /\ g = Departing(f, which) /\ g.kind = f.kind /\ FrameHolds(f)
          /\ f.kind # "deliver" => g = f
          /\ f.kind = "deliver" => /\ g.type = f.type /\ g.batch = f.batch
                                   /\ g.since = f.since
    BY <1>2
  <2>2. g.kind = "deliver" => Owes(g)'
    BY <2>1 DEF FrameHolds
  <2>3. g.kind = "deliver" => Carries(g)'
    BY <2>1 DEF FrameHolds, Carries, Waits
  <2>4. g.kind = "update" => Visits(g)'
    BY <2>1 DEF FrameHolds, Visits
  <2> QED BY <2>2, <2>3, <2>4 DEF FrameHolds
<1>7. Older'
  <2>1. Narrows
    BY <1>1, <1>2 DEF Narrows
  <2> QED BY <2>1, OlderKept
<1>8. Placed'
  <2> SUFFICES ASSUME NEW x \in Types, NEW e \in Nat, Waits(x, e), e \notin ToSet(queue[x])
               PROVE  \E k \in 1 .. Len(stack') :
                        /\ stack'[k].kind = "deliver" /\ stack'[k].type = x
                        /\ e \in ToSet(stack'[k].batch)
    BY DEF Placed, Carried, Delivers, Waits
  <2>1. PICK k \in 1 .. Len(stack) : /\ stack[k].kind = "deliver" /\ stack[k].type = x
                                     /\ e \in ToSet(stack[k].batch)
    BY DEF Placed, Carried, Delivers
  <2>2. PICK f, g \in FrameSet :
          /\ f = stack[k] /\ g = stack'[k] /\ g.kind = f.kind
          /\ f.kind = "deliver" => g.type = f.type /\ g.batch = f.batch
    BY <1>2
  <2> QED BY <1>1, <2>1, <2>2
<1> QED BY <1>3, <1>4, <1>5, <1>6, <1>7, <1>8

(* A delivery keeps what it owes when its signal stays as it is.           *)
LEMMA OwesSame ==
  ASSUME NEW f \in FrameSet, f.kind = "deliver", Owes(f), NEW which,
         NEW g, g = Departing(f, which), calls'[f.type] = calls[f.type]
  PROVE  Owes(g)'
<1>1. /\ g.type = f.type /\ g.next = f.next /\ g.owed = f.owed \ which
      /\ g.disturbed = FALSE => f.disturbed = FALSE /\ g.owed = f.owed
  <2>1. /\ g.type = f.type /\ g.next = f.next /\ g.owed = f.owed \ which
        /\ g.disturbed = FALSE => f.disturbed = FALSE /\ f.owed \cap which = {}
    BY DepartingFacts
  <2>2. f.owed \cap which = {} => f.owed \ which = f.owed
    OBVIOUS
  <2> QED BY <2>1, <2>2
<1>2. Kept(calls[f.type], f.next, f.owed \ which)
  BY DEF Owes, Kept
<1>3. g.disturbed = FALSE => FirstOwed(calls[f.type], f.next, g.owed)
  BY <1>1 DEF Owes
<1> QED BY <1>1, <1>2, <1>3 DEF Owes, Kept, FirstOwed

(* A delivery keeps what it owes to those that stay when its signal loses  *)
(* some, and then gains some.                                              *)
LEMMA OwesLess ==
  ASSUME Inv, NEW f \in FrameSet, f.kind = "deliver", Owes(f), NEW which,
         NEW g, g = Departing(f, which), NEW u, u = DisconnectIf(calls[f.type], which)
  PROVE  /\ Kept(u, f.next, f.owed \ which)
         /\ g.disturbed = FALSE => FirstOwed(u, f.next, f.owed \ which)
<1>1. PICK t \in Types : t = f.type
  BY FrameParts
<1>2. PICK s : s = calls[t]
  OBVIOUS
<1>3. s \in Seq(Listeners) /\ IsInjective(s)
  BY <1>2 DEF Inv, Typed
<1>4. u = DisconnectIf(s, which)
  BY <1>1, <1>2
<1>5. /\ u \in Seq(Listeners) /\ IsInjective(u) /\ ToSet(u) = ToSet(s) \ which
      /\ KeepsFront(s, which, u) /\ Sinks(s, which, u)
  BY ONLY <1>3, <1>4, DisconnectFacts
<1>6. PICK m \in Nat : m = f.next
  BY FrameParts
<1>7. PICK owed : owed = f.owed
  OBVIOUS
<1>8. Kept(s, m, owed)
  BY <1>1, <1>2, <1>6, <1>7 DEF Owes
<1>9. Kept(u, m, owed \ which)
  BY ONLY <1>3, <1>5, <1>8, m \in Nat, KeptAfter
<1>10. ASSUME g.disturbed = FALSE PROVE FirstOwed(u, m, owed \ which)
  <2>1. f.disturbed = FALSE /\ owed \cap which = {}
    BY <1>7, <1>10, DepartingFacts
  <2>2. FirstOwed(s, m, owed)
    BY <2>1, <1>1, <1>2, <1>6, <1>7 DEF Owes
  <2>3. FirstSpared(s, m, which)
    <3>1. Len(s) \in Nat
      BY <1>3, SeqFacts
    <3> QED BY <3>1, <2>1, <2>2 DEF FirstOwed, FirstSpared
  <2>4. ToSet(u) \subseteq ToSet(s) /\ owed \ which = owed
    BY <1>5, <2>1
  <2>5. FirstOwed(u, m, owed)
    BY ONLY <2>2, <2>3, <2>4, <1>3, <1>5, m \in Nat, OwesAfter
  <2> QED BY <2>4, <2>5
<1> QED BY <1>6, <1>7, <1>9, <1>10

LEMMA ConnectInv ==
  ASSUME Inv, DispatcherAssumption, NEW l \in Listeners, Connect(l)
  PROVE  Inv'
<1>1. PICK t \in Types : t = Event[l]
  BY DEF DispatcherAssumption
<1>2. PICK s \in Seq(Listeners) : s = calls[t]
  BY DEF Inv, Typed
<1>3. IsInjective(s) /\ \A x \in ToSet(s) : Event[x] = t
  BY <1>2 DEF Inv, Typed
<1>4. PICK u : u = DisconnectIf(s, {l})
  OBVIOUS
<1>5. u \in Seq(Listeners) /\ IsInjective(u) /\ ToSet(u) = ToSet(s) \ {l}
  BY ONLY s \in Seq(Listeners), <1>3, <1>4, DisconnectFacts
<1>6. PICK v : v = Append(u, l)
  OBVIOUS
<1>7. v \in Seq(Listeners) /\ IsInjective(v) /\ ToSet(v) = ToSet(u) \cup {l}
  BY <1>5, <1>6, PushInjective, PushElements
<1>8. calls' = [calls EXCEPT ![t] = v] /\ calls \in [Types -> Seq(Listeners)]
  BY <1>1, <1>2, <1>4, <1>6 DEF Connect, ConnectTo, Inv, Typed
<1>9. /\ calls' \in [Types -> Seq(Listeners)] /\ calls'[t] = v
      /\ \A x \in Types : x # t => calls'[x] = calls[x]
  BY <1>7, <1>8
<1>10. /\ pools' \in Seq(Types) /\ IsInjective(pools')
       /\ ToSet(pools') = ToSet(pools) \cup {t}
  BY <1>1, AssureFacts DEF Connect, Inv
<1>11. ASSUME NEW x \in Types
       PROVE  IsInjective(calls'[x]) /\ \A e \in ToSet(calls'[x]) : Event[e] = x
  <2>1. CASE x = t
    BY <2>1, <1>1, <1>3, <1>5, <1>7, <1>9
  <2>2. CASE x # t
    BY <2>2, <1>9 DEF Inv, Typed
  <2> QED BY <2>1, <2>2
<1>12. \A x \in Types : x \notin ToSet(pools') => calls'[x] = << >>
  BY <1>9, <1>10 DEF Inv, Handled, Known
<1>13. ASSUME NEW f \in FrameSet, NEW g \in FrameSet, f.kind = "deliver", Owes(f),
              g = Departing(f, {l})
       PROVE  Owes(g)'
  <2>1. f.type \in Types /\ f.next \in Nat
    BY <1>13, FrameParts
  <2>2. CASE f.type = t
    <3>0. PICK m \in Nat : m = f.next
      BY <2>1
    <3>1. PICK owed : m = f.next /\ owed = f.owed \ {l}
      BY <3>0
    <3>2. /\ Kept(u, m, owed)
          /\ g.disturbed = FALSE => FirstOwed(u, m, owed)
      BY <3>1, <1>2, <1>4, <1>13, <2>2, OwesLess
    <3>3. Len(u) \in Nat /\ Len(v) = Len(u) + 1 /\ v[Len(u) + 1] = l /\ l \notin owed
      BY <1>5, <1>6, <3>1
    <3>4. \A n \in 1 .. Len(u) : v[n] = u[n] /\ n \in 1 .. Len(v)
      BY <1>5, <1>6
    <3>5. Kept(v, m, owed)
      BY <3>2, <3>4 DEF Kept
    <3>6. ASSUME g.disturbed = FALSE PROVE FirstOwed(v, m, owed)
      <4>1. FirstOwed(u, m, owed)
        BY <3>2, <3>6
      <4>2. \A n \in 1 .. Len(v) : n \in 1 .. Len(u) \/ n = Len(u) + 1
        BY <3>3
      <4>3. m <= Len(v) /\ ~ (Len(u) + 1 <= m)
        BY <4>1, <3>3 DEF FirstOwed
      <4> QED BY <4>1, <4>2, <4>3, <3>3, <3>4 DEF FirstOwed
    <3>7. g.type = t /\ g.next = m /\ g.owed = owed
      BY <3>1, <2>2, <1>13, DepartingFacts
    <3> QED BY <3>5, <3>6, <3>7, <1>9 DEF Owes, Kept, FirstOwed
  <2>3. CASE f.type # t
    BY <2>1, <2>3, <1>9, <1>13, OwesSame
  <2> QED BY <2>2, <2>3
<1>14. stack' = Departed({l}) /\ UNCHANGED <<queue, sent, gone>>
  BY DEF Connect
<1> QED BY <1>9, <1>10, <1>11, <1>12, <1>13, <1>14, CallsInv

LEMMA DisconnectInv ==
  ASSUME Inv, DispatcherAssumption, NEW l \in Listeners, Disconnect(l)
  PROVE  Inv'
<1>1. PICK t \in Types : t = Event[l]
  BY DEF DispatcherAssumption
<1>2. PICK s \in Seq(Listeners) : s = calls[t]
  BY DEF Inv, Typed
<1>3. IsInjective(s) /\ \A x \in ToSet(s) : Event[x] = t
  BY <1>2 DEF Inv, Typed
<1>4. PICK u : u = DisconnectIf(s, {l})
  OBVIOUS
<1>5. u \in Seq(Listeners) /\ IsInjective(u) /\ ToSet(u) = ToSet(s) \ {l}
  BY ONLY s \in Seq(Listeners), <1>3, <1>4, DisconnectFacts
<1>6. calls' = [calls EXCEPT ![t] = u] /\ calls \in [Types -> Seq(Listeners)]
  BY <1>1, <1>2, <1>4 DEF Disconnect, Inv, Typed
<1>7. /\ calls' \in [Types -> Seq(Listeners)] /\ calls'[t] = u
      /\ \A x \in Types : x # t => calls'[x] = calls[x]
  BY <1>5, <1>6
<1>8. /\ pools' \in Seq(Types) /\ IsInjective(pools')
      /\ ToSet(pools') = ToSet(pools) \cup {t}
  BY <1>1, AssureFacts DEF Disconnect, Inv
<1>9. ASSUME NEW x \in Types
      PROVE  IsInjective(calls'[x]) /\ \A e \in ToSet(calls'[x]) : Event[e] = x
  <2>1. CASE x = t
    BY <2>1, <1>3, <1>5, <1>7
  <2>2. CASE x # t
    BY <2>2, <1>7 DEF Inv, Typed
  <2> QED BY <2>1, <2>2
<1>10. \A x \in Types : x \notin ToSet(pools') => calls'[x] = << >>
  BY <1>7, <1>8 DEF Inv, Handled, Known
<1>11. ASSUME NEW f \in FrameSet, NEW g \in FrameSet, f.kind = "deliver", Owes(f),
              g = Departing(f, {l})
       PROVE  Owes(g)'
  <2>1. f.type \in Types
    BY <1>11, FrameParts
  <2>2. CASE f.type = t
    <3>1. /\ Kept(u, f.next, f.owed \ {l})
          /\ g.disturbed = FALSE => FirstOwed(u, f.next, f.owed \ {l})
      BY <1>2, <1>4, <1>11, <2>2, OwesLess
    <3>2. g.type = t /\ g.next = f.next /\ g.owed = f.owed \ {l}
      BY <2>2, <1>11, DepartingFacts
    <3> QED BY <3>1, <3>2, <1>7 DEF Owes, Kept, FirstOwed
  <2>3. CASE f.type # t
    BY <2>1, <2>3, <1>7, <1>11, OwesSame
  <2> QED BY <2>2, <2>3
<1>12. stack' = Departed({l}) /\ UNCHANGED <<queue, sent, gone>>
  BY DEF Disconnect
<1> QED BY <1>7, <1>8, <1>9, <1>10, <1>11, <1>12, CallsInv

LEMMA DisconnectAllInv ==
  ASSUME Inv, NEW t \in Types, DisconnectAll(t)
  PROVE  Inv'
<1>1. calls' = [calls EXCEPT ![t] = << >>] /\ calls \in [Types -> Seq(Listeners)]
  BY DEF DisconnectAll, Inv, Typed
<1>2. /\ calls' \in [Types -> Seq(Listeners)] /\ calls'[t] = << >>
      /\ \A x \in Types : x # t => calls'[x] = calls[x]
  BY <1>1
<1>3. /\ pools' \in Seq(Types) /\ IsInjective(pools')
      /\ ToSet(pools') = ToSet(pools) \cup {t}
  BY AssureFacts DEF DisconnectAll, Inv
<1>4. ASSUME NEW x \in Types
      PROVE  IsInjective(calls'[x]) /\ \A e \in ToSet(calls'[x]) : Event[e] = x
  <2>1. CASE x = t
    BY <2>1, <1>2 DEF IsInjective, ToSet
  <2>2. CASE x # t
    BY <2>2, <1>2 DEF Inv, Typed
  <2> QED BY <2>1, <2>2
<1>5. \A x \in Types : x \notin ToSet(pools') => calls'[x] = << >>
  BY <1>2, <1>3 DEF Inv, Handled, Known
<1>6. PICK s \in Seq(Listeners) : s = calls[t]
  BY DEF Inv, Typed
<1>7. PICK which : which = ToSet(s)
  OBVIOUS
<1>8. ASSUME NEW f \in FrameSet, NEW g \in FrameSet, f.kind = "deliver", Owes(f),
             g = Departing(f, which)
      PROVE  Owes(g)'
  <2>1. f.type \in Types /\ f.next \in Nat
    BY <1>8, FrameParts
  <2>2. CASE f.type = t
    <3>0. PICK m \in Nat : m = f.next
      BY <2>1
    <3>1. PICK owed : m = f.next /\ owed = f.owed
      BY <3>0
    <3>2. Kept(s, m, owed) /\ (f.disturbed = FALSE => FirstOwed(s, m, owed))
      BY <3>1, <1>6, <1>8, <2>2 DEF Owes
    <3>3. owed \subseteq which
      BY <3>2, <1>7, ElementsIs DEF Kept
    <3>4. /\ g.type = t /\ g.next = m /\ g.owed = owed \ which
          /\ g.disturbed = FALSE => f.disturbed = FALSE /\ owed \cap which = {}
      BY <3>1, <2>2, <1>8, DepartingFacts
    <3>5. g.owed = {}
      BY <3>3, <3>4
    <3>6. Kept(<< >>, m, {})
      BY DEF Kept
    <3>7. ASSUME g.disturbed = FALSE PROVE FirstOwed(<< >>, m, {})
      <4>1. owed = {} /\ FirstOwed(s, m, owed)
        BY <3>2, <3>3, <3>4, <3>7
      <4>2. Len(s) \in Nat
        BY SeqFacts
      <4>3. m = 0
        <5>1. m # 0 => 1 \in 1 .. Len(s) /\ 1 <= m
          BY <4>1, <4>2 DEF FirstOwed
        <5> QED BY <5>1, <4>1 DEF FirstOwed
      <4> QED BY <4>3 DEF FirstOwed
    <3> QED BY <3>4, <3>5, <3>6, <3>7, <1>2 DEF Owes, Kept, FirstOwed
  <2>3. CASE f.type # t
    BY <2>1, <2>3, <1>2, <1>8, OwesSame
  <2> QED BY <2>2, <2>3
<1>9. stack' = Departed(which) /\ UNCHANGED <<queue, sent, gone>>
  BY <1>6, <1>7 DEF DisconnectAll
<1> QED BY <1>2, <1>3, <1>4, <1>5, <1>8, <1>9, CallsInv

LEMMA DisconnectInstanceInv ==
  ASSUME Inv, NEW instance, DisconnectInstance(instance)
  PROVE  Inv'
<1>1. PICK which : which = {l \in Listeners : Owner[l] = instance}
  OBVIOUS
<1>2. /\ calls' = [t \in Types |-> IF Known(t) THEN DisconnectIf(calls[t], which)
                                               ELSE calls[t]]
      /\ stack' = Departed(which) /\ UNCHANGED <<pools, queue, sent, gone>>
  BY <1>1 DEF DisconnectInstance
<1>3. ASSUME NEW t \in Types
      PROVE  /\ calls'[t] = IF Known(t) THEN DisconnectIf(calls[t], which) ELSE calls[t]
             /\ calls'[t] \in Seq(Listeners) /\ IsInjective(calls'[t])
             /\ ToSet(calls'[t]) \subseteq ToSet(calls[t])
  <2>1. calls'[t] = IF Known(t) THEN DisconnectIf(calls[t], which) ELSE calls[t]
    BY <1>2
  <2>2. PICK s : s = calls[t]
    OBVIOUS
  <2>3. s \in Seq(Listeners) /\ IsInjective(s)
    BY <2>2 DEF Inv, Typed
  <2>4. PICK u : u = DisconnectIf(s, which)
    OBVIOUS
  <2>5. u \in Seq(Listeners) /\ IsInjective(u) /\ ToSet(u) = ToSet(s) \ which
    BY ONLY <2>3, <2>4, DisconnectFacts
  <2> QED BY <2>1, <2>2, <2>3, <2>4, <2>5
<1>4. calls' \in [Types -> Seq(Listeners)]
  <2>1. calls' = [t \in Types |-> calls'[t]]
    BY <1>2
  <2> QED BY <2>1, <1>3
<1>5. \A t \in Types : IsInjective(calls'[t]) /\ \A l \in ToSet(calls'[t]) : Event[l] = t
  BY <1>3 DEF Inv, Typed
<1>6. pools' \in Seq(Types) /\ IsInjective(pools') /\ ToSet(pools) \subseteq ToSet(pools')
  BY <1>2 DEF Inv, Typed
<1>7. \A t \in Types : t \notin ToSet(pools') => calls'[t] = << >>
  BY <1>2, <1>3 DEF Known, Inv, Handled
<1>8. ASSUME NEW f \in FrameSet, NEW g \in FrameSet, f.kind = "deliver", Owes(f),
             g = Departing(f, which)
      PROVE  Owes(g)'
  <2>1. f.type \in Types
    BY <1>8, FrameParts
  <2>2. CASE Known(f.type)
    <3>1. PICK u : u = DisconnectIf(calls[f.type], which)
      OBVIOUS
    <3>2. /\ Kept(u, f.next, f.owed \ which)
          /\ g.disturbed = FALSE => FirstOwed(u, f.next, f.owed \ which)
      BY <3>1, <1>8, OwesLess
    <3>3. g.type = f.type /\ g.next = f.next /\ g.owed = f.owed \ which
      BY <1>8, DepartingFacts
    <3>4. calls'[f.type] = u
      BY <2>1, <2>2, <3>1, <1>3
    <3> QED BY <3>2, <3>3, <3>4 DEF Owes, Kept, FirstOwed
  <2>3. CASE ~ Known(f.type)
    <3>1. calls'[f.type] = calls[f.type]
      BY <2>1, <2>3, <1>3
    <3> QED BY <3>1, <1>8, OwesSame
  <2> QED BY <2>2, <2>3
<1> QED BY <1>2, <1>4, <1>5, <1>6, <1>7, <1>8, CallsInv

-------------------------------------------------------------------------------
(* Events come, and go.                                                    *)

LEMMA EnqueueInv ==
  ASSUME Inv, NEW t \in Types, Enqueue(t)
  PROVE  Inv'
<1> USE DEF Inv
<1>1. PICK q \in Seq(Nat) : q = queue[t]
  BY DEF Typed
<1>2. PICK n \in Nat : n = sent[t]
  BY DEF Typed
<1>3. PICK v : v = Append(q, n + 1)
  OBVIOUS
<1>4. Rising(q) /\ \A e \in ToSet(q) : e \in Nat /\ e < n + 1
  <2>1. ToSet(q) \subseteq Nat
    BY ElementsIs
  <2>2. Rising(q) /\ \A e \in ToSet(q) : e <= n
    BY <1>1, <1>2 DEF Queued, Waits
  <2> QED BY <2>1, <2>2
<1>5. v \in Seq(Nat) /\ Rising(v) /\ ToSet(v) = ToSet(q) \cup {n + 1}
  BY <1>3, <1>4, RisingPush, PushElements
<1>6. sent' = [sent EXCEPT ![t] = n + 1] /\ queue' = [queue EXCEPT ![t] = v]
  <2>1. sent' = [sent EXCEPT ![t] = n + 1]
    BY <1>2 DEF Enqueue
  <2>2. sent'[t] = n + 1
    BY <2>1 DEF Typed
  <2> QED BY <2>1, <2>2, <1>1, <1>3 DEF Enqueue
<1>7. /\ sent' \in [Types -> Nat] /\ sent'[t] = n + 1
      /\ \A x \in Types : x # t => sent'[x] = sent[x]
      /\ queue' \in [Types -> Seq(Nat)] /\ queue'[t] = v
      /\ \A x \in Types : x # t => queue'[x] = queue[x]
  BY <1>5, <1>6 DEF Typed
<1>8. UNCHANGED <<calls, stack, gone>>
  BY DEF Enqueue
<1>9. /\ pools' \in Seq(Types) /\ IsInjective(pools')
      /\ ToSet(pools') = ToSet(pools) \cup {t}
  BY AssureFacts DEF Enqueue
<1>10. \A x \in Types : sent[x] <= sent'[x] /\ sent[x] \in Nat
  <2> SUFFICES ASSUME NEW x \in Types PROVE sent[x] <= sent'[x] /\ sent[x] \in Nat
    OBVIOUS
  <2>1. sent[x] \in Nat
    BY DEF Typed
  <2>2. x = t => sent[x] = n /\ sent'[x] = n + 1
    BY <1>2, <1>7
  <2>3. x # t => sent'[x] = sent[x]
    BY <1>7
  <2> QED BY <2>1, <2>2, <2>3
<1>11. ASSUME NEW x \in Types, NEW e \in Nat
       PROVE  Waits(x, e)' <=> Waits(x, e) \/ (x = t /\ e = n + 1)
  <2>1. x = t => \A g \in gone[t] : g <= n
    BY <1>2 DEF Queued
  <2>2. CASE x = t
    BY <2>1, <2>2, <1>2, <1>7, <1>8 DEF Waits
  <2>3. CASE x # t
    BY <2>3, <1>7, <1>8 DEF Waits
  <2> QED BY <2>2, <2>3
<1>12. ASSUME NEW x \in Types
       PROVE  /\ ToSet(queue'[x]) = ToSet(queue[x]) \cup (IF x = t THEN {n + 1} ELSE {})
              /\ ToSet(queue[x]) \subseteq Nat
  <2>1. ToSet(queue[x]) \subseteq Nat
    BY ElementsIs DEF Typed
  <2> QED BY <2>1, <1>1, <1>5, <1>7
<1>13. Typed'
  BY <1>7, <1>8, <1>9 DEF Typed
<1>14. Handled'
  BY <1>7, <1>8, <1>9 DEF Handled, Known
<1>15. Queued'
  <2> SUFFICES ASSUME NEW x \in Types
               PROVE  /\ Rising(queue'[x]) /\ \A e \in ToSet(queue'[x]) : Waits(x, e)'
                      /\ \A e \in gone'[x] : e <= sent'[x]
    BY DEF Queued, Waits
  <2>1. Rising(queue'[x])
    BY <1>5, <1>7 DEF Queued
  <2>2. \A e \in ToSet(queue'[x]) : Waits(x, e)'
    <3> SUFFICES ASSUME NEW e \in ToSet(queue'[x]) PROVE Waits(x, e)'
      OBVIOUS
    <3>1. e \in Nat /\ (e \in ToSet(queue[x]) \/ (x = t /\ e = n + 1))
      BY <1>12
    <3>2. e \in ToSet(queue[x]) => Waits(x, e)
      BY DEF Queued
    <3> QED BY <3>1, <3>2, <1>11
  <2>3. ASSUME NEW e \in gone'[x] PROVE e <= sent'[x]
    <3>1. e \in gone[x] /\ e <= sent[x] /\ e \in Nat
      BY <1>8 DEF Queued, Typed
    <3>2. sent'[x] \in Nat
      BY <1>7
    <3> QED BY <3>1, <3>2, <1>10
  <2> QED BY <2>1, <2>2, <2>3
<1>16. Framed'
  <2> SUFFICES ASSUME NEW k \in 1 .. Len(stack'), NEW f \in FrameSet, f = stack'[k]
               PROVE  FrameHolds(f)'
    BY <1>13, FramedIs DEF Typed
  <2>1. FrameHolds(f)
    BY <1>8, FrameBefore
  <2>2. ASSUME f.kind = "deliver" PROVE Owes(f)' /\ Carries(f)'
    <3>1. Owes(f)' /\ Carries(f)
      BY <2>1, <2>2, <1>8 DEF FrameHolds, Owes
    <3>2. f.type \in Types /\ f.batch \in Seq(Nat) /\ ToSet(f.batch) \subseteq Nat
      BY <2>2, FrameParts, ElementsIs
    <3>3. ASSUME NEW e \in ToSet(f.batch)
          PROVE  Waits(f.type, e)' /\ e <= f.since /\ \A x \in ToSet(queue'[f.type]) : e < x
      <4>1. Waits(f.type, e) /\ e <= f.since /\ \A x \in ToSet(queue[f.type]) : e < x
        BY <3>1 DEF Carries
      <4>2. f.type = t => e < n + 1
        BY <4>1, <3>2, <1>2 DEF Waits
      <4> QED BY <4>1, <4>2, <3>2, <1>11, <1>12
    <3> QED BY <3>1, <3>3 DEF Carries, Waits
  <2>3. ASSUME f.kind = "update" PROVE Visits(f)'
    <3>1. Visits(f) /\ f.since \in [Types -> Nat]
      BY <2>1, <2>3, FrameParts DEF FrameHolds
    <3>2. ASSUME NEW x \in Types
          PROVE  /\ f.since[x] <= sent'[x]
                 /\ \A e \in ToSet(queue'[x]) : e > f.since[x] \/ x \in ToSet(f.left)
      <4>1. f.since[x] <= sent[x] /\ f.since[x] \in Nat
        BY <3>1 DEF Visits
      <4>2. f.since[x] <= sent'[x]
        BY <4>1, <1>7, <1>10
      <4>3. x = t => n + 1 > f.since[x]
        BY <4>1, <1>2
      <4> QED BY <4>2, <4>3, <3>1, <1>12 DEF Visits
    <3> QED BY <3>2 DEF Visits
  <2> QED BY <2>2, <2>3 DEF FrameHolds
<1>17. Older'
  BY <1>8 DEF Older, Delivers
<1>18. Placed'
  <2> SUFFICES ASSUME NEW x \in Types, NEW e \in Nat, Waits(x, e)', e \notin ToSet(queue'[x])
               PROVE  Carried(x, e)'
    BY DEF Placed, Waits
  <2>1. Waits(x, e) /\ e \notin ToSet(queue[x])
    BY <1>11, <1>12
  <2>2. Carried(x, e)
    BY <2>1 DEF Placed
  <2> QED BY <2>2, <1>8 DEF Carried, Delivers
<1> QED BY <1>13, <1>14, <1>15, <1>16, <1>17, <1>18

(* The queues of some types are emptied.                                   *)
LEMMA DiscardInv ==
  ASSUME Inv, NEW ts, Discard(ts),
         pools' \in Seq(Types), IsInjective(pools'), ToSet(pools) \subseteq ToSet(pools')
  PROVE  Inv'
<1> USE DEF Inv
<1>1. UNCHANGED <<calls, stack, sent>>
  BY DEF Discard
<1>2. ASSUME NEW t \in Types
      PROVE  /\ ToSet(queue[t]) \subseteq Nat
             /\ queue'[t] = IF t \in ts THEN << >> ELSE queue[t]
             /\ gone'[t] = IF t \in ts THEN gone[t] \cup ToSet(queue[t]) ELSE gone[t]
  <2>1. ToSet(queue[t]) \subseteq Nat
    BY ElementsIs DEF Typed
  <2> QED BY <2>1 DEF Discard
<1>3. queue' \in [Types -> Seq(Nat)] /\ gone' \in [Types -> SUBSET Nat]
  <2>1. queue' = [t \in Types |-> queue'[t]] /\ gone' = [t \in Types |-> gone'[t]]
    BY DEF Discard
  <2>2. \A t \in Types : queue'[t] \in Seq(Nat) /\ gone'[t] \in SUBSET Nat
    <3> SUFFICES ASSUME NEW t \in Types PROVE queue'[t] \in Seq(Nat) /\ gone'[t] \in SUBSET Nat
      OBVIOUS
    <3>1. queue[t] \in Seq(Nat) /\ gone[t] \in SUBSET Nat /\ << >> \in Seq(Nat)
      BY DEF Typed
    <3>2. queue'[t] \in Seq(Nat)
      BY <3>1, <1>2
    <3>3. gone'[t] \in SUBSET Nat
      BY <3>1, <1>2
    <3> QED BY <3>2, <3>3
  <2> QED BY <2>1, <2>2
<1>4. ToSet(<< >>) = {}
  BY DEF ToSet
<1>5. ASSUME NEW t \in Types
      PROVE  /\ ToSet(queue'[t]) \subseteq ToSet(queue[t])
             /\ \A e \in Nat : Waits(t, e)' <=> Waits(t, e) /\ (t \in ts => e \notin ToSet(queue[t]))
             /\ \A e \in ToSet(queue'[t]) : t \notin ts
  BY <1>1, <1>2, <1>4 DEF Waits
<1>6. Typed'
  BY <1>1, <1>3 DEF Typed
<1>7. Handled'
  BY <1>1, <1>2 DEF Handled, Known
<1>8. Queued'
  <2> SUFFICES ASSUME NEW x \in Types
               PROVE  /\ Rising(queue'[x]) /\ \A e \in ToSet(queue'[x]) : Waits(x, e)'
                      /\ \A e \in gone'[x] : e <= sent'[x]
    BY DEF Queued, Waits
  <2>1. Rising(queue'[x])
    <3>1. Rising(<< >>)
      BY DEF Rising
    <3> QED BY <3>1, <1>2 DEF Queued
  <2>2. \A e \in ToSet(queue'[x]) : Waits(x, e)'
    BY <1>2, <1>5 DEF Queued
  <2>3. \A e \in gone'[x] : e <= sent'[x]
    BY <1>1, <1>2 DEF Queued, Waits
  <2> QED BY <2>1, <2>2, <2>3
<1>9. Framed'
  <2> SUFFICES ASSUME NEW k \in 1 .. Len(stack'), NEW f \in FrameSet, f = stack'[k]
               PROVE  FrameHolds(f)'
    BY <1>6, FramedIs DEF Typed
  <2>1. FrameHolds(f)
    BY <1>1, FrameBefore
  <2>2. ASSUME f.kind = "deliver" PROVE Owes(f)' /\ Carries(f)'
    <3>1. Owes(f)' /\ Carries(f)
      BY <2>1, <2>2, <1>1 DEF FrameHolds, Owes
    <3>2. f.type \in Types /\ f.batch \in Seq(Nat) /\ ToSet(f.batch) \subseteq Nat
      BY <2>2, FrameParts, ElementsIs
    <3>3. ASSUME NEW e \in ToSet(f.batch)
          PROVE  Waits(f.type, e)' /\ e <= f.since /\ \A x \in ToSet(queue'[f.type]) : e < x
      <4>1. e \in Nat /\ Waits(f.type, e) /\ e <= f.since /\ \A x \in ToSet(queue[f.type]) : e < x
        BY <3>1, <3>2 DEF Carries
      <4>2. e \notin ToSet(queue[f.type])
        BY <4>1
      <4> QED BY <4>1, <4>2, <3>2, <1>5
    <3> QED BY <3>1, <3>3 DEF Carries, Waits
  <2>3. ASSUME f.kind = "update" PROVE Visits(f)'
    BY <2>1, <2>3, <1>1, <1>5 DEF FrameHolds, Visits
  <2> QED BY <2>2, <2>3 DEF FrameHolds
<1>10. Older'
  BY <1>1 DEF Older, Delivers
<1>11. Placed'
  <2> SUFFICES ASSUME NEW x \in Types, NEW e \in Nat, Waits(x, e)', e \notin ToSet(queue'[x])
               PROVE  Carried(x, e)'
    BY DEF Placed, Waits
  <2>1. Waits(x, e) /\ e \notin ToSet(queue[x])
    BY <1>2, <1>5
  <2>2. Carried(x, e)
    BY <2>1 DEF Placed
  <2> QED BY <2>2, <1>1 DEF Carried, Delivers
<1> QED BY <1>6, <1>7, <1>8, <1>9, <1>10, <1>11

(* A queue moves to the batch of a new delivery.                           *)
LEMMA PublishInv ==
  ASSUME Inv, NEW t \in Types, NEW frames \in Seq(FrameSet), Publish(t, frames),
         UNCHANGED <<calls, sent, gone>>,
         pools' \in Seq(Types), IsInjective(pools'), ToSet(pools) \subseteq ToSet(pools'),
         Len(frames) = Len(stack),
         \A k \in 1 .. Len(stack) :
           \/ frames[k] = stack[k]
           \/ /\ frames[k].kind = "update" /\ stack[k].kind = "update"
              /\ frames[k].since = stack[k].since
              /\ ToSet(stack[k].left) \subseteq ToSet(frames[k].left) \cup {t}
  PROVE  Inv'
<1> USE DEF Inv
<1>1. PICK m \in Nat : m = Len(stack) /\ m = Len(frames)
  BY SeqFacts DEF Typed
<1>2. PICK q \in Seq(Nat) : q = queue[t]
  BY DEF Typed
<1>3. PICK new : new = Delivery(t, q, 0)
  OBVIOUS
<1>4. new = [kind |-> "deliver", type |-> t, batch |-> q, next |-> 0,
             owed |-> ToSet(SubSeq(calls[t], 1, 0)), disturbed |-> FALSE,
             since |-> sent[t]]
  BY <1>3 DEF Delivery
<1>5. PICK s \in Seq(Listeners) : s = calls[t]
  BY DEF Typed
<1>6. ToSet(SubSeq(s, 1, 0)) = {}
  <2>1. SubSeq(s, 1, 0) = << >>
    OBVIOUS
  <2> QED BY <2>1 DEF ToSet
<1>7. new \in FrameSet /\ new.kind = "deliver" /\ new.type = t /\ new.batch = q
      /\ new.next = 0 /\ new.owed = {} /\ new.since = sent[t]
  <2>1. sent[t] \in Nat /\ {} \in SUBSET Listeners /\ FALSE \in BOOLEAN
    BY DEF Typed
  <2> QED BY <1>4, <1>5, <1>6, <2>1 DEF FrameSet
<1>8. stack' = Append(frames, new) /\ queue' = [queue EXCEPT ![t] = << >>]
  BY <1>2, <1>3 DEF Publish
<1>9. stack' \in Seq(FrameSet) /\ Pushed(frames, new, stack')
  BY <1>7, <1>8, PushFacts
<1>10. /\ Len(stack') = m + 1 /\ stack'[m + 1] = new
       /\ \A k \in 1 .. m : stack'[k] = frames[k]
  BY <1>1, <1>9 DEF Pushed
<1>11. /\ queue' \in [Types -> Seq(Nat)] /\ queue'[t] = << >>
       /\ \A x \in Types : x # t => queue'[x] = queue[x]
  BY <1>8 DEF Typed
<1>12. ToSet(<< >>) = {} /\ Rising(<< >>)
  BY DEF ToSet, Rising
<1>13. \A x \in Types : ToSet(queue'[x]) \subseteq ToSet(queue[x])
  BY <1>11, <1>12
<1>14. \A k \in 1 .. m + 1 : k \in 1 .. m \/ k = m + 1
  OBVIOUS
<1>15. ASSUME NEW k \in 1 .. m
       PROVE  /\ k \in 1 .. Len(stack)
              /\ stack'[k].kind = "deliver" \/ stack[k].kind = "deliver" => stack'[k] = stack[k]
  <2>1. stack[k] \in FrameSet /\ k \in 1 .. Len(stack)
    BY <1>1, SeqFacts DEF Typed
  <2> QED BY <2>1, <1>10
<1>16. Typed'
  BY <1>9, <1>11 DEF Typed
<1>17. Handled'
  BY <1>11 DEF Handled, Known
<1>18. Queued'
  <2> SUFFICES ASSUME NEW x \in Types
               PROVE  /\ Rising(queue'[x]) /\ \A e \in ToSet(queue'[x]) : Waits(x, e)'
                      /\ \A e \in gone'[x] : e <= sent'[x]
    BY DEF Queued, Waits
  <2>1. Rising(queue'[x])
    BY <1>11, <1>12 DEF Queued
  <2>2. \A e \in ToSet(queue'[x]) : Waits(x, e)'
    BY <1>13 DEF Queued, Waits
  <2>3. \A e \in gone'[x] : e <= sent'[x]
    BY DEF Queued
  <2> QED BY <2>1, <2>2, <2>3
<1>19. Framed'
  <2> SUFFICES ASSUME NEW k \in 1 .. m + 1, NEW f \in FrameSet, f = stack'[k]
               PROVE  FrameHolds(f)'
    BY <1>9, <1>10, FramedIs
  <2>1. CASE k = m + 1
    <3>1. f = new
      BY <2>1, <1>10
    <3>2. Owes(f)'
      <4>1. calls'[f.type] = s /\ Len(s) \in Nat
        BY <3>1, <1>5, <1>7
      <4>2. Kept(s, 0, {}) /\ FirstOwed(s, 0, {})
        BY <4>1 DEF Kept, FirstOwed
      <4> QED BY <4>1, <4>2, <3>1, <1>7 DEF Owes, Kept, FirstOwed
    <3>3. Carries(f)'
      <4>1. Rising(q) /\ \A e \in ToSet(q) : Waits(t, e)
        BY <1>2 DEF Queued
      <4> QED BY <4>1, <3>1, <1>7, <1>11, <1>12 DEF Carries, Waits
    <3> QED BY <3>1, <3>2, <3>3, <1>7 DEF FrameHolds
  <2>2. CASE k \in 1 .. m
    <3>1. ASSUME f.kind = "deliver" PROVE Owes(f)' /\ Carries(f)'
      <4>1. f = stack[k] /\ k \in 1 .. Len(stack)
        BY <2>2, <3>1, <1>15
      <4>2. Owes(f) /\ Carries(f)
        BY <4>1, <3>1, FrameBefore DEF FrameHolds
      <4>3. f.type \in Types
        BY <3>1, FrameParts
      <4> QED BY <4>2, <4>3, <1>13 DEF Owes, Carries, Waits
    <3>2. ASSUME f.kind = "update" PROVE Visits(f)'
      <4>1. PICK g \in FrameSet : g = stack[k]
        BY <2>2, <1>15, SeqFacts DEF Typed
      <4>2. f = frames[k]
        BY <2>2, <1>10
      <4>3. /\ g.kind = "update" /\ f.since = g.since
            /\ ToSet(g.left) \subseteq ToSet(f.left) \cup {t}
        BY <2>2, <3>2, <4>1, <4>2, <1>15
      <4>4. FrameHolds(g)
        BY <4>1, <2>2, <1>15, FrameBefore
      <4>5. Visits(g)
        BY <4>3, <4>4 DEF FrameHolds
      <4>6. ASSUME NEW x \in Types
            PROVE  /\ f.since[x] <= sent'[x]
                   /\ \A e \in ToSet(queue'[x]) : e > f.since[x] \/ x \in ToSet(f.left)
        BY <4>3, <4>5, <1>11, <1>12 DEF Visits
      <4> QED BY <4>6 DEF Visits
    <3> QED BY <3>1, <3>2 DEF FrameHolds
  <2> QED BY <2>1, <2>2, <1>14
<1>20. Older'
  <2> SUFFICES ASSUME NEW x \in Types, NEW j \in 1 .. m + 1, NEW k \in 1 .. m + 1,
                      j < k, stack'[j].kind = "deliver", stack'[j].type = x,
                      stack'[k].kind = "deliver", stack'[k].type = x,
                      NEW e \in ToSet(stack'[j].batch), NEW y \in ToSet(stack'[k].batch)
               PROVE  e < y
    BY <1>10 DEF Older, Delivers
  <2>1. j \in 1 .. m /\ stack'[j] = stack[j] /\ j \in 1 .. Len(stack)
    <3>1. j \in 1 .. m
      OBVIOUS
    <3> QED BY <3>1, <1>15
  <2>2. CASE k = m + 1
    <3>1. x = t /\ y \in ToSet(queue[t])
      BY <2>2, <1>2, <1>7, <1>10
    <3>2. Carries(stack[j])
      BY <2>1 DEF Framed, FrameHolds
    <3> QED BY <3>1, <3>2, <2>1 DEF Carries
  <2>3. CASE k \in 1 .. m
    <3>1. stack'[k] = stack[k] /\ k \in 1 .. Len(stack)
      BY <2>3, <1>15
    <3> QED BY <3>1, <2>1 DEF Older, Delivers
  <2> QED BY <2>2, <2>3, <1>14
<1>21. Placed'
  <2> SUFFICES ASSUME NEW x \in Types, NEW e \in Nat, Waits(x, e)', e \notin ToSet(queue'[x])
               PROVE  \E k \in 1 .. m + 1 : /\ stack'[k].kind = "deliver" /\ stack'[k].type = x
                                            /\ e \in ToSet(stack'[k].batch)
    BY <1>10 DEF Placed, Carried, Delivers, Waits
  <2>1. Waits(x, e)
    BY DEF Waits
  <2>2. CASE e \in ToSet(queue[x])
    <3>1. x = t
      BY <2>2, <1>11
    <3>2. m + 1 \in 1 .. m + 1
      OBVIOUS
    <3> QED BY <2>2, <3>1, <3>2, <1>2, <1>7, <1>10
  <2>3. CASE Carried(x, e)
    <3>1. PICK k \in 1 .. m : /\ stack[k].kind = "deliver" /\ stack[k].type = x
                              /\ e \in ToSet(stack[k].batch)
      BY <2>3, <1>1 DEF Carried, Delivers
    <3>2. stack'[k] = stack[k] /\ k \in 1 .. m + 1
      BY <3>1, <1>15
    <3> QED BY <3>1, <3>2
  <2> QED BY <2>1, <2>2, <2>3 DEF Placed
<1> QED BY <1>16, <1>17, <1>18, <1>19, <1>20, <1>21

LEMMA UpdateInv ==
  ASSUME Inv, NEW t \in Types, Update(t)
  PROVE  Inv'
<1>1. /\ pools' \in Seq(Types) /\ IsInjective(pools')
      /\ ToSet(pools') = ToSet(pools) \cup {t}
  BY AssureFacts DEF Update, Inv
<1>2. PICK frames \in Seq(FrameSet) : frames = stack
  BY DEF Inv, Typed
<1>3. Publish(t, frames) /\ UNCHANGED <<calls, sent, gone>>
  BY <1>2 DEF Update, Publish
<1>4. Len(frames) = Len(stack) /\ \A k \in 1 .. Len(stack) : frames[k] = stack[k]
  BY <1>2
<1> QED BY <1>1, <1>3, <1>4, PublishInv

LEMMA UpdateStepInv ==
  ASSUME Inv, UpdateStep
  PROVE  Inv'
<1>1. PICK m : m = Len(stack)
  OBVIOUS
<1>2. PICK f : f = Top
  OBVIOUS
<1>3. /\ stack # << >> /\ stack \in Seq(FrameSet) /\ m \in 1 .. m
      /\ f \in FrameSet /\ f = stack[m] /\ f.kind = "update" /\ f.left # << >>
  BY <1>1, <1>2, PopFacts DEF UpdateStep, Top, Inv, Typed
<1>4. f.left \in Seq(Types) /\ f.since \in [Types -> Nat]
      /\ f = [kind |-> "update", left |-> f.left, since |-> f.since]
  BY <1>3, FrameParts
<1>5. PICK t : t = Head(f.left)
  OBVIOUS
<1>6. PICK rest : rest = Tail(f.left)
  OBVIOUS
<1>7. t \in Types /\ rest \in Seq(Types) /\ ToSet(f.left) \subseteq ToSet(rest) \cup {t}
  BY <1>3, <1>4, <1>5, <1>6, HeadAndTail
<1>8. PICK g : g = [f EXCEPT !.left = rest]
  OBVIOUS
<1>9. g = [kind |-> "update", left |-> rest, since |-> f.since]
  BY <1>4, <1>8
<1>10. g \in FrameSet /\ g.kind = "update" /\ g.left = rest /\ g.since = f.since
  BY <1>4, <1>7, <1>9 DEF FrameSet
<1>11. PICK frames : frames = Append(Front(stack), g)
  OBVIOUS
<1>12. frames \in Seq(FrameSet) /\ Topped(stack, g, frames)
  BY <1>3, <1>10, <1>11, TopFacts
<1>13. Publish(t, frames) /\ UNCHANGED <<pools, calls, sent, gone>>
  BY <1>2, <1>5, <1>6, <1>8, <1>11 DEF UpdateStep, Returned
<1>14. Len(frames) = Len(stack)
  BY <1>12 DEF Topped
<1>15. ASSUME NEW k \in 1 .. Len(stack)
       PROVE  \/ frames[k] = stack[k]
              \/ /\ frames[k].kind = "update" /\ stack[k].kind = "update"
                 /\ frames[k].since = stack[k].since
                 /\ ToSet(stack[k].left) \subseteq ToSet(frames[k].left) \cup {t}
  <2>1. k \in 1 .. Len(stack) - 1 \/ k = m
    BY <1>1, <1>3
  <2> QED BY <2>1, <1>1, <1>3, <1>7, <1>10, <1>12 DEF Topped
<1>16. pools' \in Seq(Types) /\ IsInjective(pools') /\ ToSet(pools) \subseteq ToSet(pools')
  BY <1>13 DEF Inv, Typed
<1> QED BY <1>7, <1>12, <1>13, <1>14, <1>15, <1>16, PublishInv

-------------------------------------------------------------------------------
(* Calls begin and return.                                                 *)

(* What a delivery still publishes it publishes after the step.            *)
Lasts ==
  \A k \in 1 .. Len(stack) :
    stack[k].kind = "deliver" /\ ToSet(stack[k].batch) # {} =>
      /\ k \in 1 .. Len(stack') /\ stack'[k].kind = "deliver"
      /\ stack'[k].type = stack[k].type /\ stack'[k].batch = stack[k].batch

(* A step that moves no event and changes no signal.                       *)
LEMMA StackInv ==
  ASSUME Inv, UNCHANGED <<calls, queue, sent, gone>>,
         pools' \in Seq(Types), IsInjective(pools'), ToSet(pools) \subseteq ToSet(pools'),
         stack' \in Seq(FrameSet), Narrows, Lasts,
         \A k \in 1 .. Len(stack'), f \in FrameSet :
           f = stack'[k] => FrameHolds(f) \/ (k \in 1 .. Len(stack) /\ stack[k] = f)
  PROVE  Inv'
<1> USE DEF Inv
<1>1. Typed'
  BY DEF Typed
<1>2. Handled'
  BY DEF Handled, Known
<1>3. Queued'
  BY DEF Queued, Waits
<1>4. Framed'
  <2> SUFFICES ASSUME NEW k \in 1 .. Len(stack'), NEW f \in FrameSet, f = stack'[k]
               PROVE  FrameHolds(f)'
    BY FramedIs
  <2>1. FrameHolds(f)
    BY FrameBefore
  <2> QED BY <2>1 DEF FrameHolds, Owes, Kept, FirstOwed, Carries, Visits, Waits
<1>5. Older'
  BY OlderKept
<1>6. Placed'
  <2> SUFFICES ASSUME NEW x \in Types, NEW e \in Nat, Waits(x, e), e \notin ToSet(queue[x])
               PROVE  \E k \in 1 .. Len(stack') :
                        /\ stack'[k].kind = "deliver" /\ stack'[k].type = x
                        /\ e \in ToSet(stack'[k].batch)
    BY DEF Placed, Carried, Delivers, Waits
  <2>1. PICK k \in 1 .. Len(stack) : /\ stack[k].kind = "deliver" /\ stack[k].type = x
                                     /\ e \in ToSet(stack[k].batch)
    BY DEF Placed, Carried, Delivers
  <2> QED BY <2>1 DEF Lasts
<1> QED BY <1>1, <1>2, <1>3, <1>4, <1>5, <1>6

(* A call that has no events of its own begins.                            *)
LEMMA GrowInv ==
  ASSUME Inv, UNCHANGED <<calls, queue, sent, gone>>,
         pools' \in Seq(Types), IsInjective(pools'), ToSet(pools) \subseteq ToSet(pools'),
         NEW f \in FrameSet, stack' = Append(stack, f), FrameHolds(f),
         f.kind = "deliver" => f.batch = << >>
  PROVE  Inv'
<1>1. stack \in Seq(FrameSet)
  BY DEF Inv, Typed
<1>2. stack' \in Seq(FrameSet) /\ Pushed(stack, f, stack')
  BY <1>1, PushFacts
<1>3. PICK m \in Nat : m = Len(stack)
  BY <1>1, SeqFacts
<1>4. /\ Len(stack') = m + 1 /\ stack'[m + 1] = f
      /\ \A k \in 1 .. m : stack'[k] = stack[k] /\ k \in 1 .. m + 1
  BY <1>2, <1>3 DEF Pushed
<1>5. \A k \in 1 .. m + 1 : k \in 1 .. m \/ k = m + 1
  OBVIOUS
<1>6. ToSet(<< >>) = {}
  BY DEF ToSet
<1>7. Narrows
  BY <1>3, <1>4, <1>5, <1>6 DEF Narrows
<1>8. Lasts
  BY <1>3, <1>4 DEF Lasts
<1>9. \A k \in 1 .. Len(stack'), g \in FrameSet :
        g = stack'[k] => FrameHolds(g) \/ (k \in 1 .. Len(stack) /\ stack[k] = g)
  BY <1>3, <1>4, <1>5
<1> QED BY <1>2, <1>7, <1>8, <1>9, StackInv

LEMMA TriggerInv ==
  ASSUME Inv, NEW t \in Types, Trigger(t)
  PROVE  Inv'
<1>1. /\ pools' \in Seq(Types) /\ IsInjective(pools')
      /\ ToSet(pools') = ToSet(pools) \cup {t}
  BY AssureFacts DEF Trigger, Inv
<1>2. PICK s \in Seq(Listeners) : s = calls[t]
  BY DEF Inv, Typed
<1>3. PICK owed : owed = ToSet(SubSeq(s, 1, Len(s)))
  OBVIOUS
<1>4. SubSeq(s, 1, Len(s)) = s /\ Len(s) \in Nat
  OBVIOUS
<1>5. owed = ToSet(s) /\ owed \subseteq Listeners
  BY <1>3, <1>4, ElementsIs
<1>6. PICK f : f = Delivery(t, << >>, Len(s))
  OBVIOUS
<1>7. f = [kind |-> "deliver", type |-> t, batch |-> << >>, next |-> Len(s),
           owed |-> owed, disturbed |-> FALSE, since |-> sent[t]]
  BY <1>2, <1>3, <1>6 DEF Delivery
<1>8. /\ f \in FrameSet /\ f.kind = "deliver" /\ f.type = t /\ f.batch = << >>
      /\ f.next = Len(s) /\ f.owed = owed
  <2>1. sent[t] \in Nat /\ << >> \in Seq(Nat) /\ FALSE \in BOOLEAN
    BY DEF Inv, Typed
  <2> QED BY <1>4, <1>5, <1>7, <2>1 DEF FrameSet
<1>9. Owes(f)
  <2>1. Kept(s, Len(s), owed) /\ FirstOwed(s, Len(s), owed)
    BY <1>5, AllOwed
  <2> QED BY <1>2, <1>8, <2>1 DEF Owes
<1>10. Carries(f)
  BY <1>8 DEF Carries, Rising, ToSet
<1>11. FrameHolds(f)
  BY <1>8, <1>9, <1>10 DEF FrameHolds
<1>12. stack' = Append(stack, f) /\ UNCHANGED <<calls, queue, sent, gone>>
  BY <1>2, <1>6 DEF Trigger
<1> QED BY <1>1, <1>8, <1>11, <1>12, GrowInv

LEMMA UpdateAllInv ==
  ASSUME Inv, UpdateAll
  PROVE  Inv'
<1>1. PICK f : f = [kind |-> "update", left |-> pools, since |-> sent]
  OBVIOUS
<1>2. f \in FrameSet /\ f.kind = "update" /\ f.left = pools /\ f.since = sent
  BY <1>1 DEF Inv, Typed, FrameSet
<1>3. Visits(f)
  <2> SUFFICES ASSUME NEW t \in Types
               PROVE  /\ sent[t] <= sent[t]
                      /\ \A e \in ToSet(queue[t]) : e > sent[t] \/ t \in ToSet(pools)
    BY <1>2 DEF Visits
  <2>1. sent[t] \in Nat
    BY DEF Inv, Typed
  <2>2. t \notin ToSet(pools) => ToSet(queue[t]) = {}
    BY DEF Inv, Handled, Known, ToSet
  <2> QED BY <2>1, <2>2
<1>4. FrameHolds(f)
  BY <1>2, <1>3 DEF FrameHolds
<1>5. stack' = Append(stack, f) /\ UNCHANGED <<pools, calls, queue, sent, gone>>
  BY <1>1 DEF UpdateAll
<1>6. pools' \in Seq(Types) /\ IsInjective(pools') /\ ToSet(pools) \subseteq ToSet(pools')
  BY <1>5 DEF Inv, Typed
<1> QED BY <1>2, <1>4, <1>5, <1>6, GrowInv

(* A call that has nothing left returns.                                   *)
LEMMA PopInv ==
  ASSUME Inv, stack # << >>, stack' = Front(stack),
         Last(stack).kind = "deliver" => Last(stack).batch = << >>,
         UNCHANGED <<pools, calls, queue, sent, gone>>
  PROVE  Inv'
<1>1. stack \in Seq(FrameSet)
  BY DEF Inv, Typed
<1>2. stack' \in Seq(FrameSet) /\ Popped(stack, stack') /\ Last(stack) = stack[Len(stack)]
  BY <1>1, PopFacts
<1>3. PICK m \in Nat : m = Len(stack)
  BY <1>1, SeqFacts
<1>4. Len(stack') = m - 1 /\ \A k \in 1 .. m - 1 : stack'[k] = stack[k] /\ k \in 1 .. m
  BY <1>2, <1>3 DEF Popped
<1>5. \A k \in 1 .. m : k \in 1 .. m - 1 \/ k = m
  OBVIOUS
<1>6. ToSet(<< >>) = {}
  BY DEF ToSet
<1>7. Narrows
  BY <1>3, <1>4 DEF Narrows
<1>8. Lasts
  BY <1>2, <1>3, <1>4, <1>5, <1>6 DEF Lasts
<1>9. \A k \in 1 .. Len(stack'), g \in FrameSet :
        g = stack'[k] => FrameHolds(g) \/ (k \in 1 .. Len(stack) /\ stack[k] = g)
  BY <1>3, <1>4
<1>10. pools' \in Seq(Types) /\ IsInjective(pools') /\ ToSet(pools) \subseteq ToSet(pools')
  BY DEF Inv, Typed
<1> QED BY <1>2, <1>7, <1>8, <1>9, <1>10, StackInv

(* A listener is called, whichever it is.                                  *)
LEMMA CallingInv ==
  ASSUME Inv, stack # << >>, NEW f \in FrameSet, f = Top, f.kind = "deliver", f.next > 0,
         NEW l \in Listeners, NEW owed \in SUBSET Listeners, Calling(l, owed),
         \A g \in FrameSet :
           /\ g.type = f.type /\ g.next = f.next - 1
           /\ g.owed = owed /\ g.disturbed = f.disturbed
           => Owes(g),
         UNCHANGED <<pools, calls, queue, sent, gone>>
  PROVE  Inv'
<1>1. PICK m : m = Len(stack)
  OBVIOUS
<1>2. Top = f
  OBVIOUS
<1>3. stack \in Seq(FrameSet) /\ m \in 1 .. m /\ m \in Nat /\ f = stack[m]
  BY <1>1, PopFacts, SeqFacts DEF Top, Inv, Typed
<1>4. PICK g : g = [f EXCEPT !.next = @ - 1, !.owed = owed]
  OBVIOUS
<1>5. PICK t, b, n, o, c, e :
        /\ t = f.type /\ b = f.batch /\ n = f.next /\ o = f.owed /\ c = f.disturbed /\ e = f.since
        /\ t \in Types /\ b \in Seq(Nat) /\ n \in Nat /\ c \in BOOLEAN /\ e \in Nat
        /\ f = [kind |-> "deliver", type |-> t, batch |-> b, next |-> n, owed |-> o,
                disturbed |-> c, since |-> e]
  BY FrameParts
<1>6. /\ g \in FrameSet /\ g.kind = "deliver" /\ g.type = f.type /\ g.batch = f.batch
      /\ g.next = f.next - 1 /\ g.owed = owed /\ g.disturbed = f.disturbed
      /\ g.since = f.since
  <2>1. g = [kind |-> "deliver", type |-> t, batch |-> b, next |-> n - 1, owed |-> owed,
             disturbed |-> c, since |-> e]
    <3>1. f = [kind |-> "deliver", type |-> t, batch |-> b, next |-> n, owed |-> o,
               disturbed |-> c, since |-> e]
      BY <1>5
    <3> QED BY ONLY <1>4, <3>1
  <2>2. n - 1 \in Nat
    BY <1>5
  <2> QED BY <1>5, <2>1, <2>2 DEF FrameSet
<1>7. Owes(g)
  BY <1>6
<1>8. Carries(g)
  <2>1. FrameHolds(f)
    BY <1>1, <1>3, FrameBefore DEF Inv
  <2> QED BY <2>1, <1>6 DEF FrameHolds, Carries
<1>9. PICK u : u = [kind |-> "user", listener |-> l]
  OBVIOUS
<1>10. u \in FrameSet /\ u.kind = "user"
  BY <1>9 DEF FrameSet
<1>11. FrameHolds(g) /\ FrameHolds(u)
  BY <1>6, <1>7, <1>8, <1>10 DEF FrameHolds
<1>12. PICK below : below = Front(stack)
  OBVIOUS
<1>13. below \in Seq(FrameSet) /\ Popped(stack, below)
  BY <1>3, <1>12, PopFacts
<1>14. stack' = below \o << g, u >> /\ UNCHANGED <<pools, calls, queue, sent, gone>>
  BY <1>2, <1>4, <1>9, <1>12 DEF Calling, Returned
<1>15. /\ stack' \in Seq(FrameSet) /\ Len(stack') = Len(below) + 2
       /\ stack'[Len(below) + 1] = g /\ stack'[Len(below) + 2] = u
       /\ \A i \in 1 .. Len(below) : stack'[i] = below[i]
  BY <1>6, <1>10, <1>13, <1>14, TwoMoreFacts
<1>16. /\ Len(stack') = m + 1 /\ stack'[m] = g /\ stack'[m + 1] = u
       /\ \A k \in 1 .. m - 1 : stack'[k] = stack[k]
  <2>1. Len(below) = m - 1 /\ m - 1 + 1 = m /\ m - 1 + 2 = m + 1
    BY <1>1, <1>3, <1>13 DEF Popped
  <2>2. \A k \in 1 .. m - 1 : below[k] = stack[k]
    BY <1>1, <1>13 DEF Popped
  <2> QED BY <1>15, <2>1, <2>2
<1>17. \A k \in 1 .. m + 1 : k \in 1 .. m - 1 \/ k = m \/ k = m + 1
  BY <1>3
<1>18. \A k \in 1 .. m : k \in 1 .. m + 1 /\ (k \in 1 .. m - 1 \/ k = m)
  BY <1>3
<1>19. \A k \in 1 .. m - 1 : k \in 1 .. m
  BY <1>3
<1>20. Narrows
  BY <1>1, <1>3, <1>6, <1>10, <1>16, <1>17, <1>19 DEF Narrows
<1>21. Lasts
  BY <1>1, <1>3, <1>6, <1>16, <1>18 DEF Lasts
<1>22. \A k \in 1 .. Len(stack'), h \in FrameSet :
         h = stack'[k] => FrameHolds(h) \/ (k \in 1 .. Len(stack) /\ stack[k] = h)
  BY <1>1, <1>11, <1>16, <1>17, <1>19
<1>23. pools' \in Seq(Types) /\ IsInjective(pools') /\ ToSet(pools) \subseteq ToSet(pools')
  BY <1>14 DEF Inv, Typed
<1> QED BY <1>14, <1>15, <1>20, <1>21, <1>22, <1>23, StackInv

(* The next listener of the vector is called.                              *)
LEMMA CallNextInv ==
  ASSUME Inv, CallNext
  PROVE  Inv'
<1>1. PICK f \in FrameSet :
        f = Top /\ stack # << >> /\ f.kind = "deliver" /\ FrameHolds(f)
  <2>1. stack \in Seq(FrameSet) /\ stack # << >>
    BY DEF CallNext, Inv, Typed
  <2>2. Len(stack) \in 1 .. Len(stack) /\ Top = stack[Len(stack)] /\ Top \in FrameSet
    BY <2>1, PopFacts, SeqFacts DEF Top
  <2>3. FrameHolds(Top)
    BY <2>2, FrameBefore DEF Inv
  <2> QED BY <2>1, <2>2, <2>3 DEF CallNext
<1>2. f.type \in Types /\ f.next \in Nat /\ f.owed \subseteq Listeners
  BY <1>1, FrameParts
<1>3. PICK s \in Seq(Listeners) : s = calls[f.type] /\ IsInjective(s)
  BY <1>2 DEF Inv, Typed
<1>4. PICK n \in Nat : n = f.next /\ n \in 1 .. Len(s) /\ n > 0
  <2>1. f.next \in DOMAIN s /\ DOMAIN s = 1 .. Len(s)
    BY <1>1, <1>3, SeqFacts DEF CallNext
  <2> QED BY <1>2, <2>1
<1>5. PICK l \in Listeners : l = s[n]
  BY <1>4, SeqFacts
<1>6. PICK owed : owed = f.owed
  OBVIOUS
<1>7. /\ \A i \in 1 .. Len(s) : s[i] = l <=> i = n
      /\ \A i \in 1 .. Len(s) : i <= n - 1 <=> i <= n /\ i # n
  <2>1. \A i \in 1 .. Len(s) : s[i] = l <=> i = n
    <3>1. DOMAIN s = 1 .. Len(s)
      BY SeqFacts
    <3> QED BY <3>1, <1>3, <1>4, <1>5 DEF IsInjective
  <2>2. \A i \in 1 .. Len(s) : i <= n - 1 <=> i <= n /\ i # n
    BY <1>4
  <2> QED BY <2>1, <2>2
<1>8. Kept(s, n, owed) /\ (f.disturbed = FALSE => FirstOwed(s, n, owed))
  BY <1>1, <1>3, <1>4, <1>6 DEF FrameHolds, Owes
<1>9. Kept(s, n - 1, owed \ {l})
  BY <1>7, <1>8 DEF Kept
<1>10. f.disturbed = FALSE => FirstOwed(s, n - 1, owed \ {l})
  <2>1. n - 1 <= Len(s)
    BY <1>4, SeqFacts
  <2> QED BY <2>1, <1>7, <1>8 DEF FirstOwed
<1>11. \A g \in FrameSet :
         /\ g.type = f.type /\ g.next = n - 1
         /\ g.owed = owed \ {l} /\ g.disturbed = f.disturbed
         => Owes(g)
  BY <1>3, <1>9, <1>10 DEF Owes
<1>12. Calling(l, owed \ {l}) /\ UNCHANGED <<pools, calls, queue, sent, gone>>
  BY <1>1, <1>3, <1>4, <1>5, <1>6 DEF CallNext
<1>13. owed \ {l} \in SUBSET Listeners
  BY <1>2, <1>6
<1> QED BY <1>1, <1>4, <1>11, <1>12, <1>13, CallingInv

(* Whatever a call beyond the end of the vector calls, those that are owed *)
(* one are still to come.                                                  *)
LEMMA CallStaleInv ==
  ASSUME Inv, CallStale
  PROVE  Inv'
<1>1. PICK f \in FrameSet :
        f = Top /\ stack # << >> /\ f.kind = "deliver" /\ FrameHolds(f)
  <2>1. stack \in Seq(FrameSet) /\ stack # << >>
    BY DEF CallStale, Inv, Typed
  <2>2. Len(stack) \in 1 .. Len(stack) /\ Top = stack[Len(stack)] /\ Top \in FrameSet
    BY <2>1, PopFacts, SeqFacts DEF Top
  <2>3. FrameHolds(Top)
    BY <2>2, FrameBefore DEF Inv
  <2> QED BY <2>1, <2>2, <2>3 DEF CallStale
<1>2. f.type \in Types /\ f.next \in Nat /\ f.owed \subseteq Listeners
  BY <1>1, FrameParts
<1>3. PICK s \in Seq(Listeners) : s = calls[f.type]
  BY <1>2 DEF Inv, Typed
<1>4. PICK n \in Nat : n = f.next /\ n > Len(s) /\ Len(s) \in Nat /\ n > 0
  BY <1>1, <1>2, <1>3, SeqFacts DEF CallStale
<1>5. PICK owed : owed = f.owed
  OBVIOUS
<1>6. Kept(s, n, owed) /\ (f.disturbed = FALSE => FirstOwed(s, n, owed))
  BY <1>1, <1>3, <1>4, <1>5 DEF FrameHolds, Owes
<1>7. \A i \in 1 .. Len(s) : i <= n - 1
  BY <1>4
<1>8. Kept(s, n - 1, owed)
  BY <1>6, <1>7 DEF Kept
<1>9. ~ (f.disturbed = FALSE)
  <2>1. ~ FirstOwed(s, n, owed)
    BY <1>4 DEF FirstOwed
  <2> QED BY <2>1, <1>6, Zenon
<1>10. \A g \in FrameSet :
         /\ g.type = f.type /\ g.next = n - 1
         /\ g.owed = owed /\ g.disturbed = f.disturbed
         => Owes(g)
  BY <1>3, <1>8, <1>9 DEF Owes
<1>11. PICK l \in Listeners : Calling(l, owed)
  BY <1>1, <1>5 DEF CallStale
<1>12. UNCHANGED <<pools, calls, queue, sent, gone>>
  BY DEF CallStale
<1>13. owed \in SUBSET Listeners
  BY <1>2, <1>5
<1> QED BY <1>1, <1>4, <1>10, <1>11, <1>12, <1>13, CallingInv

(* The next event of a batch is published.                                 *)
LEMMA NextEventInv ==
  ASSUME Inv, DispatcherAssumption, NextEvent
  PROVE  Inv'
<1> USE DEF Inv
<1>1. PICK m : m = Len(stack)
  OBVIOUS
<1>2. PICK f : f = Top
  OBVIOUS
<1>3. /\ stack # << >> /\ stack \in Seq(FrameSet) /\ m \in 1 .. m /\ m \in Nat
      /\ f \in FrameSet /\ f = stack[m] /\ f.kind = "deliver" /\ f.batch # << >>
  BY <1>1, <1>2, PopFacts, SeqFacts DEF NextEvent, Top, Typed
<1>4. PICK t \in Types, b \in Seq(Nat), d \in Nat :
        /\ t = f.type /\ b = f.batch /\ d = f.since
        /\ f = [kind |-> "deliver", type |-> t, batch |-> b, next |-> f.next,
                owed |-> f.owed, disturbed |-> f.disturbed, since |-> d]
  BY <1>3, FrameParts
<1>5. PICK s \in Seq(Listeners) : s = calls[t]
  BY DEF Typed
<1>6. FrameHolds(f)
  BY <1>1, <1>3, FrameBefore
<1>7. /\ Rising(b) /\ b # << >>
      /\ \A e \in ToSet(b) : /\ Waits(t, e) /\ e <= d
                             /\ \A x \in ToSet(queue[t]) : e < x
  BY <1>3, <1>4, <1>6 DEF FrameHolds, Carries
<1>8. PICK rest \in Seq(Nat), h \in Nat :
        /\ rest = Tail(b) /\ h = Head(b) /\ Rising(rest) /\ h \in ToSet(b)
        /\ ToSet(rest) = ToSet(b) \ {h}
  BY <1>7, RisingTail
<1>9. PICK owed : owed = ToSet(s)
  OBVIOUS
<1>10. PICK g : g = [f EXCEPT !.batch = Tail(@), !.next = Len(calls[f.type]),
                              !.owed = ToSet(calls[f.type]), !.disturbed = FALSE]
  OBVIOUS
<1>11. g = [kind |-> "deliver", type |-> t, batch |-> rest,
            next |-> Len(s), owed |-> owed, disturbed |-> FALSE, since |-> d]
  <2>1. g = [f EXCEPT !.batch = Tail(@), !.next = Len(s), !.owed = owed, !.disturbed = FALSE]
    BY ONLY <1>4, <1>5, <1>9, <1>10
  <2>2. PICK n, o, c : n = f.next /\ o = f.owed /\ c = f.disturbed
    OBVIOUS
  <2>3. f = [kind |-> "deliver", type |-> t, batch |-> b, next |-> n, owed |-> o,
             disturbed |-> c, since |-> d]
    BY ONLY <1>4, <2>2
  <2> QED BY ONLY <1>8, <2>1, <2>3
<1>12. /\ g \in FrameSet /\ g.kind = "deliver" /\ g.type = t /\ g.batch = rest
       /\ g.next = Len(s) /\ g.owed = owed /\ g.since = d
  <2>1. Len(s) \in Nat /\ owed \in SUBSET Listeners /\ FALSE \in BOOLEAN
    BY <1>9, SeqFacts, ElementsIs
  <2> QED BY <1>11, <2>1 DEF FrameSet
<1>13. /\ stack' = Append(Front(stack), g)
       /\ gone' = [gone EXCEPT ![t] = @ \cup {h}]
       /\ UNCHANGED <<pools, calls, queue, sent>>
  BY <1>2, <1>4, <1>8, <1>10 DEF NextEvent, Returned
<1>14. stack' \in Seq(FrameSet) /\ Topped(stack, g, stack')
  BY <1>3, <1>12, <1>13, TopFacts
<1>15. /\ Len(stack') = m /\ stack'[m] = g
       /\ \A k \in 1 .. m - 1 : stack'[k] = stack[k] /\ k \in 1 .. m /\ k < m
  <2>1. \A k \in 1 .. m - 1 : k \in 1 .. m /\ k < m
    BY <1>3
  <2> QED BY <2>1, <1>1, <1>14 DEF Topped
<1>16. \A k \in 1 .. m : k \in 1 .. m - 1 \/ k = m
  BY <1>3
<1>17. /\ gone' \in [Types -> SUBSET Nat] /\ gone'[t] = gone[t] \cup {h}
       /\ \A x \in Types : x # t => gone'[x] = gone[x]
  <2>1. gone \in [Types -> SUBSET Nat] /\ gone[t] \cup {h} \in SUBSET Nat
    BY DEF Typed
  <2> QED BY <1>13, <2>1
<1>18. \A x \in Types, e \in Nat : Waits(x, e)' <=> Waits(x, e) /\ ~ (x = t /\ e = h)
  BY <1>13, <1>17 DEF Waits
<1>19. \A x \in Types : ToSet(queue[x]) \subseteq Nat
  BY ElementsIs DEF Typed
<1>20. Typed'
  BY <1>13, <1>14, <1>17 DEF Typed
<1>21. Handled'
  BY <1>13 DEF Handled, Known
<1>22. Queued'
  <2> SUFFICES ASSUME NEW x \in Types
               PROVE  /\ Rising(queue'[x]) /\ \A e \in ToSet(queue'[x]) : Waits(x, e)'
                      /\ \A e \in gone'[x] : e <= sent'[x]
    BY DEF Queued, Waits
  <2>1. Rising(queue'[x])
    BY <1>13 DEF Queued
  <2>2. ASSUME NEW e \in ToSet(queue'[x]) PROVE Waits(x, e)'
    <3>1. e \in Nat /\ e \in ToSet(queue[x]) /\ Waits(x, e)
      BY <1>13, <1>19 DEF Queued
    <3>2. x = t => h < e
      BY <3>1, <1>7, <1>8
    <3> QED BY <3>1, <3>2, <1>18
  <2>3. ASSUME NEW e \in gone'[x] PROVE e <= sent'[x]
    <3>1. h <= sent[t]
      BY <1>7, <1>8 DEF Waits
    <3> QED BY <3>1, <1>13, <1>17 DEF Queued
  <2> QED BY <2>1, <2>2, <2>3
<1>23. Framed'
  <2> SUFFICES ASSUME NEW k \in 1 .. m, NEW i \in FrameSet, i = stack'[k]
               PROVE  FrameHolds(i)'
    BY <1>14, <1>15, FramedIs
  <2>1. CASE k = m
    <3>1. i = g
      BY <2>1, <1>15
    <3>2. Owes(i)'
      <4>1. Kept(s, Len(s), owed) /\ FirstOwed(s, Len(s), owed)
        BY <1>9, AllOwed
      <4> QED BY <3>1, <4>1, <1>5, <1>12, <1>13 DEF Owes, Kept, FirstOwed
    <3>3. Carries(i)'
      <4>1. ASSUME NEW e \in ToSet(rest)
            PROVE  Waits(t, e)' /\ e <= d /\ \A x \in ToSet(queue[t]) : e < x
        <5>1. e \in ToSet(b) /\ e # h /\ e \in Nat
          BY <1>8, ElementsIs
        <5> QED BY <5>1, <1>7, <1>18
      <4> QED BY <3>1, <4>1, <1>8, <1>12, <1>13 DEF Carries, Waits
    <3> QED BY <3>1, <3>2, <3>3, <1>12 DEF FrameHolds
  <2>2. CASE k \in 1 .. m - 1
    <3>1. i = stack[k] /\ k \in 1 .. Len(stack) /\ k < m
      BY <2>2, <1>1, <1>15
    <3>2. FrameHolds(i)
      BY <3>1, FrameBefore
    <3>3. ASSUME i.kind = "deliver" PROVE Owes(i)' /\ Carries(i)'
      <4>1. i.type \in Types /\ i.batch \in Seq(Nat) /\ ToSet(i.batch) \subseteq Nat
        BY <3>3, FrameParts, ElementsIs
      <4>2. Owes(i) /\ Carries(i)
        BY <3>2, <3>3 DEF FrameHolds
      <4>3. i.type = t => \A e \in ToSet(i.batch) : e < h
        <5>1. Delivers(stack[m], t) /\ h \in ToSet(stack[m].batch) /\ m \in 1 .. Len(stack)
          BY <1>1, <1>3, <1>4, <1>8 DEF Delivers
        <5>2. i.type = t => Delivers(stack[k], t)
          BY <3>1, <3>3 DEF Delivers
        <5> QED BY <3>1, <5>1, <5>2 DEF Older
      <4>4. ASSUME NEW e \in ToSet(i.batch) PROVE Waits(i.type, e)'
        <5>1. e \in Nat /\ Waits(i.type, e) /\ (i.type = t => e # h)
          BY <4>1, <4>2, <4>3 DEF Carries
        <5> QED BY <5>1, <4>1, <1>18
      <4> QED BY <4>2, <4>4, <1>13 DEF Owes, Kept, FirstOwed, Carries, Waits
    <3>4. ASSUME i.kind = "update" PROVE Visits(i)'
      BY <3>2, <3>4, <1>13 DEF FrameHolds, Visits
    <3> QED BY <3>3, <3>4 DEF FrameHolds
  <2> QED BY <2>1, <2>2, <1>16
<1>24. Older'
  <2>1. Narrows
    BY <1>1, <1>3, <1>4, <1>8, <1>12, <1>15, <1>16 DEF Narrows
  <2> QED BY <2>1, OlderKept
<1>25. Placed'
  <2> SUFFICES ASSUME NEW x \in Types, NEW e \in Nat, Waits(x, e)', e \notin ToSet(queue'[x])
               PROVE  \E k \in 1 .. Len(stack') :
                        /\ stack'[k].kind = "deliver" /\ stack'[k].type = x
                        /\ e \in ToSet(stack'[k].batch)
    BY DEF Placed, Carried, Delivers, Waits
  <2>1. Len(stack') = m /\ e \notin ToSet(queue[x])
    BY <1>13, <1>15
  <2>2. Waits(x, e) /\ ~ (x = t /\ e = h)
    BY <1>18
  <2>3. PICK k \in 1 .. m : /\ stack[k].kind = "deliver" /\ stack[k].type = x
                            /\ e \in ToSet(stack[k].batch)
    BY <2>1, <2>2, <1>1 DEF Placed, Carried, Delivers
  <2>4. CASE k = m
    <3>1. x = t /\ e \in ToSet(rest)
      BY <2>2, <2>3, <2>4, <1>3, <1>4, <1>8
    <3> QED BY <3>1, <2>1, <2>4, <1>3, <1>12, <1>15
  <2>5. CASE k \in 1 .. m - 1
    BY <2>1, <2>3, <2>5, <1>15
  <2> QED BY <2>4, <2>5, <1>16
<1> QED BY <1>20, <1>21, <1>22, <1>23, <1>24, <1>25

-------------------------------------------------------------------------------
(* The invariant.                                                          *)

LEMMA InitInv ==
  ASSUME Init
  PROVE  Inv
<1>1. ToSet(<< >>) = {} /\ IsInjective(<< >>) /\ Rising(<< >>) /\ Len(<< >>) = 0
  BY DEF ToSet, IsInjective, Rising
<1>2. /\ pools = << >> /\ stack = << >>
      /\ \A t \in Types : /\ calls[t] = << >> /\ queue[t] = << >>
                          /\ sent[t] = 0 /\ gone[t] = {}
  BY DEF Init
<1>3. Typed
  <2>1. /\ calls \in [Types -> Seq(Listeners)] /\ queue \in [Types -> Seq(Nat)]
        /\ sent \in [Types -> Nat] /\ gone \in [Types -> SUBSET Nat]
    BY DEF Init
  <2>2. pools \in Seq(Types) /\ stack \in Seq(FrameSet)
    BY <1>2
  <2> QED BY <1>1, <1>2, <2>1, <2>2 DEF Typed
<1>4. Handled
  BY <1>2 DEF Handled
<1>5. Queued
  BY <1>1, <1>2 DEF Queued
<1>6. Framed /\ Older
  BY <1>1, <1>2 DEF Framed, Older
<1>7. Placed
  BY <1>2 DEF Placed, Waits
<1> QED BY <1>3, <1>4, <1>5, <1>6, <1>7 DEF Inv

LEMMA InvStep ==
  ASSUME Inv, DispatcherAssumption, [Next]_vars
  PROVE  Inv'
<1>1. ASSUME NEW l \in Listeners, Connect(l) PROVE Inv'
  BY <1>1, ConnectInv
<1>2. ASSUME NEW l \in Listeners, Disconnect(l) PROVE Inv'
  BY <1>2, DisconnectInv
<1>3. ASSUME NEW t \in Types, DisconnectAll(t) PROVE Inv'
  BY <1>3, DisconnectAllInv
<1>4. ASSUME NEW instance \in Range(Owner), DisconnectInstance(instance) PROVE Inv'
  BY <1>4, DisconnectInstanceInv
<1>5. ASSUME NEW t \in Types, Enqueue(t) PROVE Inv'
  BY <1>5, EnqueueInv
<1>6. ASSUME NEW t \in Types, Trigger(t) PROVE Inv'
  BY <1>6, TriggerInv
<1>7. ASSUME NEW t \in Types, Clear(t) PROVE Inv'
  <2>1. /\ pools' \in Seq(Types) /\ IsInjective(pools')
        /\ ToSet(pools') = ToSet(pools) \cup {t}
    BY <1>7, AssureFacts DEF Clear, Inv
  <2> QED BY <1>7, <2>1, DiscardInv DEF Clear
<1>8. ASSUME NEW t \in Types, Update(t) PROVE Inv'
  BY <1>8, UpdateInv
<1>9. CASE ClearAll
  BY <1>9, DiscardInv DEF ClearAll, Inv, Typed
<1>10. CASE UpdateAll
  BY <1>10, UpdateAllInv
<1>11. CASE UpdateStep
  BY <1>11, UpdateStepInv
<1>12. CASE UpdateReturns
  BY <1>12, PopInv DEF UpdateReturns, Top, Returned
<1>13. CASE NextEvent
  BY <1>13, NextEventInv
<1>14. CASE CallNext
  BY <1>14, CallNextInv
<1>15. CASE DeliveryReturns
  BY <1>15, PopInv DEF DeliveryReturns, Top, Returned
<1>16. CASE ListenerReturns
  BY <1>16, PopInv DEF ListenerReturns, Top, Returned
<1>17. CASE UNCHANGED vars
  <2>1. Typed' /\ Handled' /\ Queued'
    BY <1>17 DEF vars, Inv, Typed, Handled, Known, Queued, Waits
  <2>2. \A f : FrameHolds(f) => FrameHolds(f)'
    BY <1>17 DEF vars, FrameHolds, Owes, Carries, Visits, Waits
  <2>3. Framed'
    BY <1>17, <2>2 DEF vars, Inv, Framed
  <2>4. Older' /\ Placed'
    BY <1>17 DEF vars, Inv, Older, Placed, Waits, Carried
  <2> QED BY <2>1, <2>3, <2>4 DEF Inv
<1>18. CASE Connections
  BY <1>1, <1>2, <1>3, <1>4, <1>18 DEF Connections
<1>19. CASE Events
  BY <1>5, <1>6, <1>7, <1>8, <1>9, <1>10, <1>19 DEF Events
<1>20. CASE CallStale
  BY <1>20, CallStaleInv
<1>21. CASE Loops
  BY <1>11, <1>12, <1>13, <1>14, <1>15, <1>16, <1>20, <1>21 DEF Loops
<1> QED BY <1>17, <1>18, <1>19, <1>21 DEF Next

LEMMA Invariance == Spec => []Inv
<1>1. Init => Inv
  BY InitInv
<1>2. Inv /\ [Next]_vars => Inv'
  BY InvStep, DispatcherAssumption
<1> QED BY <1>1, <1>2, PTL DEF Spec

-------------------------------------------------------------------------------
(* What waits, one call in progress after the other.                       *)

LEMMA WaitingChain ==
  ASSUME Typed, NEW t
  PROVE  \E c : /\ c \in [0 .. Len(stack) -> Seq(Nat)]
                /\ c[0] = << >> /\ Waiting(t) = c[Len(stack)] \o queue[t]
                /\ \A k \in 1 .. Len(stack) :
                     c[k] = IF Delivers(stack[k], t) THEN c[k - 1] \o stack[k].batch ELSE c[k - 1]
<1>1. stack \in Seq(FrameSet)
  BY DEF Typed
<1>2. PICK n \in Nat : n = Len(stack)
  BY <1>1, SeqFacts
<1>3. DOMAIN stack = 1 .. n
  BY <1>1, <1>2
<1>4. PICK F : F = [a \in (1 .. n) \X Seq(Nat) |->
                      IF Delivers(stack[a[1]], t) THEN a[2] \o stack[a[1]].batch ELSE a[2]]
  OBVIOUS
<1>5. ASSUME NEW k \in 1 .. n, NEW w \in Seq(Nat)
      PROVE  /\ F[<<k, w>>] = IF Delivers(stack[k], t) THEN w \o stack[k].batch ELSE w
             /\ F[<<k, w>>] \in Seq(Nat)
  <2>1. F[<<k, w>>] = IF Delivers(stack[k], t) THEN w \o stack[k].batch ELSE w
    BY <1>4
  <2>2. PICK f \in FrameSet : f = stack[k]
    BY <1>1, <1>2, SeqFacts
  <2>3. Delivers(f, t) => f.batch \in Seq(Nat)
    BY FrameParts DEF Delivers
  <2>4. Delivers(f, t) => w \o f.batch \in Seq(Nat)
    BY <2>3
  <2> QED BY <2>1, <2>2, <2>4
<1>6. F \in StepsOf(n, Seq(Nat))
  <2>1. ASSUME NEW a \in (1 .. n) \X Seq(Nat) PROVE F[a] \in Seq(Nat)
    <3>1. a = <<a[1], a[2]>> /\ a[1] \in 1 .. n /\ a[2] \in Seq(Nat)
      OBVIOUS
    <3> QED BY <3>1, <1>5
  <2>2. F = [a \in (1 .. n) \X Seq(Nat) |-> F[a]]
    BY <1>4
  <2> QED BY <2>1, <2>2 DEF StepsOf
<1>7. << >> \in Seq(Nat)
  OBVIOUS
<1>8. PICK h : IsFold(h, F, n, Seq(Nat), << >>)
  BY ONLY <1>6, <1>7, n \in Nat, FoldExists
<1>9. /\ h \in [SUBSET (1 .. n) -> Seq(Nat)]
      /\ \A u \in SUBSET (1 .. n) :
           h[u] = IF u = {} THEN << >> ELSE F[<<Max(u), h[u \ {Max(u)}]>>]
  BY <1>8 DEF IsFold
<1>10. \A u \in SUBSET (1 .. n) : u # {} => Max(u) \in 1 .. n
  BY LastExists
<1>11. \A u \in SUBSET (1 .. n) :
         h[u] = IF u = {} THEN << >>
                ELSE IF Delivers(stack[Max(u)], t)
                     THEN h[u \ {Max(u)}] \o stack[Max(u)].batch ELSE h[u \ {Max(u)}]
  <2> SUFFICES ASSUME NEW u \in SUBSET (1 .. n), u # {}
               PROVE  F[<<Max(u), h[u \ {Max(u)}]>>]
                        = IF Delivers(stack[Max(u)], t)
                          THEN h[u \ {Max(u)}] \o stack[Max(u)].batch ELSE h[u \ {Max(u)}]
    BY <1>9
  <2>1. Max(u) \in 1 .. n
    BY <1>10
  <2>2. h[u \ {Max(u)}] \in Seq(Nat)
    BY <1>9
  <2> QED BY <2>1, <2>2, <1>5
<1>12. h = [u \in SUBSET (DOMAIN stack) |->
              IF u = {} THEN << >>
              ELSE IF stack[Max(u)].kind = "deliver" /\ stack[Max(u)].type = t
                   THEN h[u \ {Max(u)}] \o stack[Max(u)].batch ELSE h[u \ {Max(u)}]]
  <2>1. h = [u \in SUBSET (1 .. n) |-> h[u]]
    BY <1>9
  <2>2. h = [u \in SUBSET (DOMAIN stack) |->
              IF u = {} THEN << >>
              ELSE IF Delivers(stack[Max(u)], t)
                   THEN h[u \ {Max(u)}] \o stack[Max(u)].batch ELSE h[u \ {Max(u)}]]
    BY <1>3, <1>11, <2>1
  <2> QED BY ONLY <2>2 DEF Delivers
<1>13. PICK g : /\ g = [u \in SUBSET (DOMAIN stack) |->
                         IF u = {} THEN << >>
                         ELSE IF stack[Max(u)].kind = "deliver" /\ stack[Max(u)].type = t
                              THEN g[u \ {Max(u)}] \o stack[Max(u)].batch ELSE g[u \ {Max(u)}]]
                /\ Waiting(t) = g[DOMAIN stack] \o queue[t]
  BY <1>12 DEF Waiting, FoldLeft, MapThenFoldSet
<1>14. g = [u \in SUBSET (1 .. n) |->
             IF u = {} THEN << >>
             ELSE IF Delivers(stack[Max(u)], t)
                  THEN g[u \ {Max(u)}] \o stack[Max(u)].batch ELSE g[u \ {Max(u)}]]
  BY <1>3, <1>13 DEF Delivers
<1>15. Follows(g, F, n, Seq(Nat), << >>)
  <2>1. g[{}] = << >>
    BY <1>14
  <2>2. ASSUME NEW u \in SUBSET (1 .. n), u # {}, g[u \ {Max(u)}] \in Seq(Nat)
        PROVE  g[u] = F[<<Max(u), g[u \ {Max(u)}]>>]
    <3>1. g[u] = IF Delivers(stack[Max(u)], t)
                 THEN g[u \ {Max(u)}] \o stack[Max(u)].batch ELSE g[u \ {Max(u)}]
      BY <1>14, <2>2
    <3>2. Max(u) \in 1 .. n
      BY <1>10, <2>2
    <3> QED BY <3>1, <3>2, <2>2, <1>5
  <2> QED BY <2>1, <2>2 DEF Follows
<1>16. PICK c : IsChain(c, F, n, Seq(Nat), << >>) /\ c[n] = g[1 .. n]
  <2>1. PICK X, b : X = Seq(Nat) /\ b = << >>
    OBVIOUS
  <2>2. F \in StepsOf(n, X) /\ b \in X /\ Follows(g, F, n, X, b)
    BY <1>6, <1>7, <1>15, <2>1
  <2>3. \E c : IsChain(c, F, n, X, b) /\ c[n] = g[1 .. n]
    BY ONLY <2>2, n \in Nat, FoldChain
  <2> QED BY <2>1, <2>3
<1>17. Waiting(t) = c[n] \o queue[t]
  BY <1>3, <1>13, <1>16
<1>18. c \in [0 .. n -> Seq(Nat)] /\ c[0] = << >>
  BY <1>16 DEF IsChain
<1>19. ASSUME NEW k \in 1 .. n
       PROVE  c[k] = IF Delivers(stack[k], t) THEN c[k - 1] \o stack[k].batch ELSE c[k - 1]
  <2>1. c[k] = F[<<k, c[k - 1]>>]
    BY <1>16 DEF IsChain
  <2>2. k - 1 \in 0 .. n
    OBVIOUS
  <2>3. c[k - 1] \in Seq(Nat)
    BY <1>18, <2>2
  <2> QED BY <2>1, <2>3, <1>5
<1> QED BY <1>2, <1>17, <1>18, <1>19

(* What waits of a type rises, and is what was enqueued and is not over.   *)
LEMMA WaitingFacts ==
  ASSUME Inv, NEW t \in Types
  PROVE  /\ Waiting(t) \in Seq(Nat) /\ Rising(Waiting(t))
         /\ ToSet(Waiting(t)) = (1 .. sent[t]) \ gone[t]
<1> USE DEF Inv
<1>1. PICK n \in Nat : n = Len(stack)
  BY SeqFacts DEF Typed
<1>2. PICK c : /\ c \in [0 .. n -> Seq(Nat)]
               /\ c[0] = << >> /\ Waiting(t) = c[n] \o queue[t]
               /\ \A k \in 1 .. n :
                    c[k] = IF Delivers(stack[k], t) THEN c[k - 1] \o stack[k].batch ELSE c[k - 1]
  BY ZenonT(60), <1>1, WaitingChain
<1> DEFINE Held(k) == {e \in Nat : \E j \in 1 .. k : /\ Delivers(stack[j], t)
                                                     /\ e \in ToSet(stack[j].batch)}
           Good(k) == Rising(c[k]) /\ ToSet(c[k]) = Held(k)
           T == {k \in 0 .. n : Good(k)}
<1>3. \A k \in 1 .. n : k - 1 \in 0 .. n /\ k \in 0 .. n
  OBVIOUS
<1>4. ToSet(<< >>) = {} /\ Rising(<< >>)
  BY DEF ToSet, Rising
<1>5. ASSUME NEW k \in 1 .. n, Delivers(stack[k], t)
      PROVE  /\ stack[k].batch \in Seq(Nat) /\ ToSet(stack[k].batch) \subseteq Nat
             /\ Carries(stack[k])
  <2>1. PICK f \in FrameSet : f = stack[k]
    BY <1>1, SeqFacts DEF Typed
  <2>2. f.batch \in Seq(Nat)
    BY <2>1, <1>5, FrameParts DEF Delivers
  <2>3. ToSet(f.batch) \subseteq Nat
    BY <2>2, ElementsIs
  <2>4. Carries(stack[k])
    BY <1>1, <1>5 DEF Framed, FrameHolds, Delivers
  <2> QED BY <2>1, <2>2, <2>3, <2>4
<1>6. 0 \in T
  <2>1. 0 \in 0 .. n /\ Held(0) = {}
    OBVIOUS
  <2> HIDE DEF Held
  <2> QED BY <2>1, <1>2, <1>4
<1>7. ASSUME NEW k \in 1 .. n, k - 1 \in T PROVE k \in T
  <2>1. PICK w \in Seq(Nat) : w = c[k - 1]
    BY <1>2, <1>3
  <2>2. Rising(w) /\ ToSet(w) = Held(k - 1) /\ k \in 0 .. n
    <3>1. Good(k - 1)
      BY <1>7
    <3> HIDE DEF Held
    <3> QED BY <3>1, <2>1, <1>3
  <2>3. \A j \in 1 .. k : j \in 1 .. k - 1 \/ j = k
    OBVIOUS
  <2>4. \A j \in 1 .. k - 1 : j \in 1 .. k /\ j \in 1 .. n /\ j < k
    OBVIOUS
  <2>5. CASE Delivers(stack[k], t)
    <3>1. PICK b \in Seq(Nat) : b = stack[k].batch
      BY <2>5, <1>5
    <3>2. PICK v : v = w \o b
      OBVIOUS
    <3>3. c[k] = v
      BY <2>1, <2>5, <3>1, <3>2, <1>2
    <3>4. Rising(b) /\ ToSet(b) \subseteq Nat
      BY <2>5, <3>1, <1>5 DEF Carries
    <3>5. \A e \in ToSet(w), x \in ToSet(b) : e < x
      <4> SUFFICES ASSUME NEW e \in ToSet(w), NEW x \in ToSet(b) PROVE e < x
        OBVIOUS
      <4>1. PICK j \in 1 .. k - 1 : Delivers(stack[j], t) /\ e \in ToSet(stack[j].batch)
        BY <2>2
      <4> QED BY <4>1, <2>4, <2>5, <3>1, <1>1 DEF Older
    <3>6. ToSet(v) = ToSet(w) \cup ToSet(b) /\ Rising(v)
      BY ONLY <2>2, <3>2, <3>4, <3>5, w \in Seq(Nat), b \in Seq(Nat), RisingConcat
    <3>7. Held(k) = Held(k - 1) \cup ToSet(b)
      <4>1. Held(k) \subseteq Held(k - 1) \cup ToSet(b)
        BY <2>3, <3>1
      <4>2. Held(k - 1) \subseteq Held(k)
        BY <2>4
      <4>3. ToSet(b) \subseteq Held(k)
        <5>1. k \in 1 .. k
          OBVIOUS
        <5> QED BY <5>1, <2>5, <3>1, <3>4
      <4> QED BY <4>1, <4>2, <4>3
    <3> HIDE DEF Held
    <3> QED BY <2>2, <3>3, <3>6, <3>7
  <2>6. CASE ~ Delivers(stack[k], t)
    <3>1. c[k] = w
      BY <2>1, <2>6, <1>2
    <3>2. Held(k) = Held(k - 1)
      BY <2>3, <2>4, <2>6
    <3> HIDE DEF Held
    <3> QED BY <2>2, <3>1, <3>2
  <2> QED BY <2>5, <2>6
<1>8. \A k \in 0 .. n : k \in T
  <2> HIDE DEF T
  <2> QED BY <1>6, <1>7, CountUp
<1>9. Good(n) /\ n \in 0 .. n
  BY <1>8
<1>10. PICK w \in Seq(Nat) : w = c[n]
  BY <1>2, <1>9
<1>11. Rising(w) /\ ToSet(w) = Held(n)
  <2> HIDE DEF Held
  <2> QED BY <1>9, <1>10
<1>12. PICK q \in Seq(Nat) : q = queue[t]
  BY DEF Typed
<1>13. Rising(q) /\ ToSet(q) \subseteq Nat
  BY <1>12, ElementsIs DEF Queued
<1>14. \A e \in ToSet(w), x \in ToSet(q) : e < x
  BY <1>5, <1>11, <1>12 DEF Carries, Delivers
<1>15. PICK v : v = w \o q
  OBVIOUS
<1>16. v \in Seq(Nat) /\ Rising(v) /\ ToSet(v) = ToSet(w) \cup ToSet(q)
  BY ONLY <1>11, <1>13, <1>14, <1>15, w \in Seq(Nat), q \in Seq(Nat), RisingConcat
<1>17. ASSUME NEW e \in Nat
       PROVE  e \in ToSet(w) \cup ToSet(q) <=> Waits(t, e)
  <2>1. e \in ToSet(w) => Waits(t, e)
    BY <1>5, <1>11 DEF Carries, Delivers
  <2>2. e \in ToSet(q) => Waits(t, e)
    BY <1>12 DEF Queued
  <2>3. Waits(t, e) => e \in ToSet(w) \cup ToSet(q)
    BY <1>1, <1>11, <1>12 DEF Placed, Carried
  <2> QED BY <2>1, <2>2, <2>3
<1>18. ToSet(v) \subseteq Nat
  BY <1>11, <1>13, <1>16
<1>19. \A e : e \in (1 .. sent[t]) \ gone[t] <=> e \in Nat /\ Waits(t, e)
  <2>1. sent[t] \in Nat
    BY DEF Typed
  <2> QED BY <2>1 DEF Waits
<1>20. ToSet(v) = (1 .. sent[t]) \ gone[t]
  <2> HIDE DEF Held
  <2> QED BY <1>16, <1>17, <1>18, <1>19
<1> QED BY <1>2, <1>10, <1>12, <1>15, <1>16, <1>20

-------------------------------------------------------------------------------
(* The theorems.                                                           *)

(* However calls nest and listeners connect and disconnect themselves and  *)
(* others in the middle, a delivery skips none of those that were there    *)
(* when its event came and stayed; and it calls these once and no others,  *)
(* within the vector, unless one was disconnected before its turn.         *)
THEOREM DispatcherEachOnce == Spec => []EachOnce
<1>1. ASSUME Inv PROVE EachOnce
  <2> USE <1>1 DEF Inv
  <2>1. stack \in Seq(FrameSet) /\ DOMAIN stack = 1 .. Len(stack)
    BY SeqFacts DEF Typed
  <2>2. TypeOK
    <3>1. ToSet(pools) \subseteq Types
      BY ElementsIs DEF Typed
    <3> QED BY <3>1 DEF TypeOK, Typed, Handled
  <2>3. ASSUME NEW k \in Frames("deliver")
        PROVE  LET f     == stack[k]
                   seq   == calls[f.type]
                   ahead == {seq[n] : n \in DOMAIN seq \cap 1 .. f.next}
               IN  /\ f.owed \subseteq ahead
                   /\ ~ f.disturbed => f.next <= Len(seq) /\ ahead \subseteq f.owed
    <3> DEFINE f     == stack[k]
               seq   == calls[f.type]
               ahead == {seq[n] : n \in DOMAIN seq \cap 1 .. f.next}
    <3>1. k \in 1 .. Len(stack) /\ f.kind = "deliver" /\ f \in FrameSet
      BY <2>1, SeqFacts DEF Frames
    <3>2. f.type \in Types /\ f.next \in Nat /\ f.disturbed \in BOOLEAN
      <4> HIDE DEF f
      <4> QED BY <3>1, FrameParts
    <3>3. Kept(seq, f.next, f.owed) /\ (f.disturbed = FALSE => FirstOwed(seq, f.next, f.owed))
      BY <3>1 DEF Framed, FrameHolds, Owes
    <3>4. seq \in Seq(Listeners)
      BY <3>2 DEF Typed
    <3>5. f.owed \subseteq ahead /\ (~ f.disturbed => f.next <= Len(seq) /\ ahead \subseteq f.owed)
      <4>1. ahead = {seq[n] : n \in DOMAIN seq \cap 1 .. f.next}
        OBVIOUS
      <4> HIDE DEF f, seq, ahead
      <4>2. Len(seq) \in Nat /\ DOMAIN seq = 1 .. Len(seq)
        BY <3>4, SeqFacts
      <4>3. \A n \in 1 .. Len(seq) : n <= f.next <=> n \in DOMAIN seq \cap 1 .. f.next
        BY <4>2, <3>2
      <4>4. f.owed \subseteq ahead
        BY <4>1, <4>3, <3>3 DEF Kept
      <4>5. FirstOwed(seq, f.next, f.owed) => f.next <= Len(seq) /\ ahead \subseteq f.owed
        BY <4>1, <4>2, <4>3 DEF FirstOwed
      <4>6. ~ f.disturbed => f.disturbed = FALSE
        BY <3>2
      <4> QED BY <4>4, <4>5, <4>6, <3>3, Zenon
    <3> QED BY <3>5, Zenon
  <2> QED BY <2>2, <2>3, Zenon DEF EachOnce
<1> QED BY <1>1, Invariance, PTL

(* When update() returns, the events that were queued when it was called   *)
(* are published or discarded, or an update below it is publishing them;   *)
(* a delivery publishes none that was enqueued after it began.             *)
THEOREM DispatcherUpdateDelivers == Spec => []UpdateDelivers
<1>1. ASSUME Inv PROVE UpdateDelivers
  <2> USE <1>1 DEF Inv
  <2>1. DOMAIN stack = 1 .. Len(stack)
    BY SeqFacts DEF Typed
  <2>2. ASSUME NEW k \in 1 .. Len(stack), stack[k].kind = "update", stack[k].left = << >>
        PROVE  \A t \in Types : \A e \in ToSet(queue[t]) : e > stack[k].since[t]
    <3>1. Visits(stack[k])
      BY <2>2 DEF Framed, FrameHolds
    <3>2. ToSet(<< >>) = {}
      BY DEF ToSet
    <3> QED BY <3>1, <3>2, <2>2 DEF Visits
  <2>3. ASSUME NEW k \in 1 .. Len(stack), stack[k].kind = "deliver"
        PROVE  \A e \in ToSet(stack[k].batch) : e <= stack[k].since
    BY <2>3 DEF Framed, FrameHolds, Carries
  <2>4. ASSUME NEW k \in 1 .. Len(stack)
        PROVE  CASE stack[k].kind = "update" /\ stack[k].left = << >> /\ k = Len(stack) ->
                      \A t \in Types : \A e \in ToSet(queue[t]) : e > stack[k].since[t]
                 [] stack[k].kind = "deliver" ->
                      \A e \in ToSet(stack[k].batch) : e <= stack[k].since
                 [] OTHER -> TRUE
    BY <2>2, <2>3
  <2> QED BY <2>1, <2>4 DEF UpdateDelivers
<1> QED BY <1>1, Invariance, PTL

(* No event is lost, none is published twice: those that are neither       *)
(* published nor discarded wait, at one place, however updates, discards   *)
(* and listeners nest.                                                     *)
THEOREM DispatcherNoneLost == Spec => []NoneLost
<1>1. ASSUME Inv, NEW t \in Types
      PROVE  /\ Len(Waiting(t)) = Cardinality(ToSet(Waiting(t)))
             /\ ToSet(Waiting(t)) = (1 .. sent[t]) \ gone[t]
  <2>1. PICK w : w = Waiting(t)
    OBVIOUS
  <2>2. w \in Seq(Nat) /\ Rising(w) /\ ToSet(w) = (1 .. sent[t]) \ gone[t]
    BY <1>1, <2>1, WaitingFacts
  <2>3. Len(w) = Cardinality(ToSet(w))
    <3>1. IsInjective(w) /\ Len(w) \in Nat
      BY <2>2, RisingFacts, SeqFacts
    <3>2. ToSet(w) = {w[i] : i \in 1 .. Len(w)}
      BY <2>2, ElementsIs
    <3>3. w \in [1 .. Len(w) -> ToSet(w)]
      BY <2>2, <3>2
    <3>4. w \in Injection(1 .. Len(w), ToSet(w)) /\ w \in Surjection(1 .. Len(w), ToSet(w))
      BY <3>1, <3>2, <3>3 DEF Injection, Surjection, IsInjective
    <3>5. ExistsBijection(1 .. Len(w), ToSet(w))
      BY <3>4 DEF ExistsBijection, Bijection
    <3> QED BY <3>1, <3>5, FS_CountingElements
  <2> QED BY <2>1, <2>2, <2>3
<1>2. Inv => NoneLost
  BY <1>1 DEF NoneLost
<1> QED BY <1>2, Invariance, PTL

(* Events are delivered in the order they were enqueued: what waits in a   *)
(* batch is older than what waits in the batches of the calls it led to,   *)
(* and all of it is older than what waits in the queue.                    *)
THEOREM DispatcherInOrder == Spec => []InOrder
<1>1. ASSUME Inv, NEW t \in Types, NEW n \in 2 .. Len(Waiting(t))
      PROVE  Waiting(t)[n - 1] <= Waiting(t)[n]
  <2>1. PICK w : w = Waiting(t)
    OBVIOUS
  <2>2. w \in Seq(Nat) /\ Rising(w)
    BY <1>1, <2>1, WaitingFacts
  <2>3. Len(w) \in Nat /\ \A i \in 1 .. Len(w) : w[i] \in Nat
    BY <2>2, SeqFacts
  <2>4. n - 1 \in 1 .. Len(w) /\ n \in 1 .. Len(w) /\ n - 1 < n
    BY <2>1, <2>3
  <2>5. w[n - 1] < w[n]
    BY <2>2, <2>4 DEF Rising
  <2>6. w[n - 1] <= w[n]
    BY <2>3, <2>4, <2>5
  <2> QED BY <2>1, <2>6
<1>2. Inv => InOrder
  BY <1>1 DEF InOrder
<1> QED BY <1>2, Invariance, PTL
===============================================================================
