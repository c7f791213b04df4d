------------------------------- MODULE DenseMap --------------------------------
(***************************************************************************)
(* The dense map (container/dense_map.hpp): a packed array of nodes, each  *)
(* with the position of the next node of its bucket, and a sparse array    *)
(* with the position of the first node of each bucket.  A key stands for   *)
(* its hash.  Positions start at 1 and 0 is placeholder_position; a load   *)
(* factor is a fraction <<n, d>>.                                          *)
(***************************************************************************)
EXTENDS Naturals, Sequences, FiniteSets, SequencesExt, TLC

CONSTANTS
  Keys,              (* natural numbers                                     *)
  Values,            (* what they are mapped to                             *)
  MinimumCapacity,   (* minimum_capacity, a power of two, 8 in the code     *)
  Factors,           (* pairs of positive numbers: the load factors that    *)
                     (* the program sets                                    *)
  DefaultFactor      (* default_threshold                                   *)

VARIABLES
  table,    (* the container: sparse, packed and threshold                  *)
  answer    (* the last call, its arguments and what it returned            *)

vars == <<table, answer>>

Placeholder == 0

Size(t) == Len(t.packed)

BucketCount(t) == Cardinality(DOMAIN t.sparse)

KeyToBucket(t, key) == key % BucketCount(t)

(* The positions of a bucket, from its first node on.                      *)
Chain(t, bucket) ==
  LET curr[n \in 1 .. Size(t)] ==
        IF n = 1 THEN t.sparse[bucket]
        ELSE IF curr[n - 1] = Placeholder THEN Placeholder
        ELSE t.packed[curr[n - 1]].next
  IN  SelectSeq([n \in 1 .. Size(t) |-> curr[n]], LAMBDA pos : pos # Placeholder)

Node(key, value, next) == [key |-> key, value |-> value, next |-> next]

(* constrained_find.                                                       *)
Find(t, key) ==
  LET found == SelectSeq(Chain(t, KeyToBucket(t, key)), LAMBDA pos : t.packed[pos].key = key)
  IN  IF found = << >> THEN Placeholder ELSE Head(found)

Capacity(t, cnt) ==
  LET cap == (Size(t) * t.threshold[2]) \div t.threshold[1]
  IN  CHOOSE n \in {2 ^ k : k \in 0 .. 10} :
        /\ n >= MinimumCapacity /\ n >= cnt /\ n >= cap
        /\ n = 1 \/ n \div 2 < MinimumCapacity \/ n \div 2 < cnt \/ n \div 2 < cap

(* Nodes are linked again from the first position to the last.             *)
Linked(t) ==
  FoldLeft(LAMBDA u, pos :
             LET index == KeyToBucket(u, u.packed[pos].key)
             IN  [u EXCEPT !.packed[pos].next = u.sparse[index], !.sparse[index] = pos],
           t, [pos \in 1 .. Size(t) |-> pos])

Rehash(t, cnt) ==
  LET sz == Capacity(t, cnt)
  IN  IF sz = BucketCount(t) THEN t
      ELSE Linked([t EXCEPT !.sparse = [b \in 0 .. sz - 1 |-> Placeholder]])

RehashIfRequired(t) ==
  IF Size(t) > (BucketCount(t) * t.threshold[1]) \div t.threshold[2]
  THEN Rehash(t, BucketCount(t) * 2) ELSE t

Pushed(t, key, value) ==
  LET index == KeyToBucket(t, key)
  IN  RehashIfRequired(
        [t EXCEPT !.packed = Append(@, Node(key, value, t.sparse[index])),
                  !.sparse[index] = Size(t) + 1])

InsertOrDoNothing(t, key, value) ==
  IF Find(t, key) # Placeholder THEN t ELSE Pushed(t, key, value)

(* Mutant: the value of a known key stays.                                 *)
InsertOrKeep(t, key, value) == InsertOrDoNothing(t, key, value)

InsertOrOverwrite(t, key, value) ==
  LET pos == Find(t, key)
  IN  IF pos # Placeholder THEN [t EXCEPT !.packed[pos].value = value]
                           ELSE Pushed(t, key, value)

(* The link of a bucket that leads to one position leads to another.       *)
Relink(t, bucket, from, to) ==
  IF t.sparse[bucket] = from THEN [t EXCEPT !.sparse[bucket] = to]
  ELSE LET chain == SelectSeq(Chain(t, bucket), LAMBDA pos : t.packed[pos].next = from)
       IN  IF chain = << >> THEN t ELSE [t EXCEPT !.packed[Head(chain)].next = to]

Pop(t) == [t EXCEPT !.packed = Front(@)]

(* Mutant: the last node moves and its bucket does not know.               *)
MoveAndPopUnlinked(t, pos) == Pop([t EXCEPT !.packed[pos] = t.packed[Size(t)]])

MoveAndPop(t, pos) ==
  IF pos = Size(t) THEN Pop(t)
  ELSE LET moved == [t EXCEPT !.packed[pos] = t.packed[Size(t)]]
       IN  Pop(Relink(moved, KeyToBucket(t, t.packed[Size(t)].key), Size(t), pos))

EraseKey(t, key) ==
  LET pos == Find(t, key)
  IN  IF pos = Placeholder THEN t
      ELSE MoveAndPop(Relink(t, KeyToBucket(t, key), pos, t.packed[pos].next), pos)

(* Mutant: a range is erased from its first element to its last.           *)
EraseRangeForward(t, first, last) ==
  FoldLeft(LAMBDA u, n : IF n > Size(u) THEN u ELSE EraseKey(u, u.packed[n].key),
           t, [n \in 1 .. last - first |-> first + n])

(* erase(first, last): positions first + 1 .. last, the last one first.    *)
EraseRange(t, first, last) ==
  FoldLeft(LAMBDA u, from : EraseKey(u, u.packed[from].key),
           t, [n \in 1 .. last - first |-> last + 1 - n])

Cleared(t) == Rehash([t EXCEPT !.sparse = << >>, !.packed = << >>], 0)

Empty == Rehash([sparse |-> << >>, packed |-> << >>, threshold |-> DefaultFactor],
                MinimumCapacity)

-------------------------------------------------------------------------------
Init == table = Empty /\ answer = [call |-> "none"]

(* insert, try_emplace and operator[].                                     *)
Insert(key, value) ==
  /\ table' = InsertOrDoNothing(table, key, value)
  /\ answer' = [call |-> "insert", key |-> key, value |-> value,
                done |-> Find(table, key) = Placeholder]

(* emplace of three arguments or more: the node is there before the key is *)
(* looked for, at the end of the packed array.                             *)
Emplace(key, value) ==
  LET built == [table EXCEPT !.packed = Append(@, Node(key, value, Size(table) + 1))]
      index == KeyToBucket(built, key)
      known == Find(built, key) # Placeholder
  IN  /\ table' = IF known THEN Pop(built)
                  ELSE RehashIfRequired(
                         [built EXCEPT !.packed[Size(built)].next = built.sparse[index],
                                       !.sparse[index] = Size(built)])
      /\ answer' = [call |-> "insert", key |-> key, value |-> value, done |-> ~ known]

InsertOrAssign(key, value) ==
  /\ table' = InsertOrOverwrite(table, key, value)
  /\ answer' = [call |-> "assign", key |-> key, value |-> value,
                done |-> Find(table, key) = Placeholder]

(* erase(key), and erase(iterator), which erases the key at a position.    *)
Erase(key) ==
  /\ table' = EraseKey(table, key)
  /\ answer' = [call |-> "erase", keys |-> {key}, done |-> Find(table, key) # Placeholder]

EraseSome(first, last) ==
  /\ table' = EraseRange(table, first, last)
  /\ answer' = [call |-> "erase", keys |-> {table.packed[n].key : n \in first + 1 .. last},
                done |-> first < last]

Clear ==
  /\ table' = Cleared(table)
  /\ answer' = [call |-> "clear"]

(* rehash, and reserve, which asks for the buckets of cnt elements.        *)
Reserve(cnt) ==
  /\ \/ table' = Rehash(table, cnt)
     \/ table' = Rehash(table, (cnt * table.threshold[2] + table.threshold[1] - 1)
                                 \div table.threshold[1])
  /\ answer' = [call |-> "rehash"]

MaxLoadFactor(factor) ==
  /\ table' = Rehash([table EXCEPT !.threshold = factor], 0)
  /\ answer' = [call |-> "rehash"]

Next ==
  \/ \E key \in Keys, value \in Values :
       Insert(key, value) \/ Emplace(key, value) \/ InsertOrAssign(key, value)
  \/ \E key \in Keys : Erase(key)
  \/ \E last \in 0 .. Size(table) : \E first \in 0 .. last : EraseSome(first, last)
  \/ Clear
  \/ \E cnt \in 0 .. Cardinality(Keys) : Reserve(cnt)
  \/ \E factor \in Factors : MaxLoadFactor(factor)

Spec == Init /\ [][Next]_vars

-------------------------------------------------------------------------------
(* Properties. *)

(* No more elements for each bucket than the maximum load factor. Factors  *)
(* are those that divide the number of buckets, see the README.            *)
LoadBounded == Size(table) * table.threshold[2] <= BucketCount(table) * table.threshold[1]

(* Each position is on one chain, once, that of the bucket of its key: no  *)
(* element is lost to a move or to a rehash, no walk is endless, and the   *)
(* table grows in time.                                                    *)
ChainsWhole ==
  /\ LoadBounded
  /\ \A pos \in 1 .. Size(table) : \A bucket \in DOMAIN table.sparse :
       Cardinality({n \in DOMAIN Chain(table, bucket) : Chain(table, bucket)[n] = pos})
         = IF bucket = KeyToBucket(table, table.packed[pos].key) THEN 1 ELSE 0

(* The elements that a search finds are those that an associative          *)
(* container would hold after the same calls with the same keys and        *)
(* values, and each call says what it did: KeyMap.                         *)
Found(t) ==
  LET at == [key \in Keys |-> Find(t, key)]
  IN  [key \in {key \in Keys : at[key] # Placeholder} |-> t.packed[at[key]].value]

Map == INSTANCE KeyMap WITH content <- Found(table)

ImplementsMap == Map!Spec

KeysOf(t) == {t.packed[pos].key : pos \in DOMAIN t.packed}

(* A range loses its elements, no others, and those before it stay where   *)
(* they are.                                                               *)
RangeErased ==
  \A last \in 0 .. Size(table) : \A first \in 0 .. last :
    LET t == EraseRange(table, first, last)
    IN  /\ KeysOf(t) = KeysOf(table) \ {table.packed[n].key : n \in first + 1 .. last}
        /\ \A n \in 1 .. first : t.packed[n].key = table.packed[n].key

(* A loop that erases at its iterator and goes on from the iterator erase  *)
(* returns sees each element once, whichever it erases.                    *)
SweepSeesAll ==
  \A doomed \in SUBSET KeysOf(table) :
    LET step(s, n) ==
          LET key == s.t.packed[s.pos].key
          IN  [t    |-> IF key \in doomed THEN EraseKey(s.t, key) ELSE s.t,
               pos  |-> IF key \in doomed THEN s.pos ELSE s.pos + 1,
               seen |-> Append(s.seen, key)]
        end == FoldLeft(step, [t |-> table, pos |-> 1, seen |-> << >>],
                        [n \in 1 .. Size(table) |-> n])
    IN  ToSet(end.seen) = KeysOf(table) /\ KeysOf(end.t) = KeysOf(table) \ doomed

(* Erasing at an iterator, or a range of them, erases what they select.    *)
ErasesExactly == RangeErased /\ SweepSeesAll
===============================================================================
