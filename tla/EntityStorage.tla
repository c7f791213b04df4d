----------------------------- MODULE EntityStorage ----------------------------
(***************************************************************************)
(* The storage of entities (storage.hpp, the specialization whose element  *)
(* type is the entity): a swap-only sparse set that generates and recycles *)
(* identifiers.  The registry owns one of these.                           *)
(***************************************************************************)
EXTENDS SparseSetOps

CONSTANTS
  MaxBatch,   (* bound of the model: most identifiers generated at once     *)
  MaxKnown    (* bound of the model: most entities the set holds            *)

ASSUME MaxBatchAssumption == MaxBatch \in Nat /\ MaxKnown \in Nat

VARIABLES
  set,          (* the swap-only sparse set; head is the number in use      *)
  placeholder,  (* the next entity that was never generated                 *)
  start,        (* history: where placeholder was last told to start        *)
  retired       (* history: the identifiers of each entity destroyed last   *)

vars == <<set, placeholder, start, retired>>

Live(s) == {At(s, pos) : pos \in 0 .. s.head - 1}
Known(s) == {At(s, pos).entity : pos \in Positions(s)}

Pool == INSTANCE IdPool WITH live <- Live(set), retired <- retired

AllEntities == 0 .. EntityMask - 1

-------------------------------------------------------------------------------
(* next: the first entity from placeholder on that the set does not hold;  *)
(* running into the null entity is an assertion.                           *)
Fresh(s, from) == {e \in from .. EntityMask - 1 :
                     Current(s, [entity |-> e, version |-> 0]) = VersionMask}

NextFresh(s, from) == [entity |-> Min(Fresh(s, from)), version |-> 0]

(* generate: recycles the first element that is not in use, if any.  g is  *)
(* the storage and the identifiers generated so far.                       *)
CanGenerate(g) == g.set.head < Size(g.set) \/ Fresh(g.set, g.placeholder) # {}

(* Mutant: recycling moves placeholder too.                                *)
GenerateStepAdvance(g) ==
  LET recycled == g.set.head < Size(g.set)
      entt == IF recycled THEN At(g.set, g.set.head) ELSE NextFresh(g.set, g.placeholder)
      s1   == TryEmplace(g.set, entt, TRUE)
  IN  [set         |-> s1,
       placeholder |-> entt.entity + 1,
       ids         |-> g.ids \cup {At(s1, s1.head - 1)}]

GenerateStep(g) ==
  LET recycled == g.set.head < Size(g.set)
      entt == IF recycled THEN At(g.set, g.set.head) ELSE NextFresh(g.set, g.placeholder)
      s1   == TryEmplace(g.set, entt, TRUE)
  IN  [set         |-> s1,
       placeholder |-> IF recycled THEN g.placeholder ELSE entt.entity + 1,
       ids         |-> g.ids \cup {At(s1, s1.head - 1)}]

Storage == [set |-> set, placeholder |-> placeholder, ids |-> {}]

(* The overload for ranges first recycles, then takes new entities; as     *)
(* recycling does not change the size this is a sequence of single steps.  *)
GenerateRun(n) == FoldLeft(LAMBDA g, k : GenerateStep(g), Storage, [k \in 1 .. n |-> k])

(* generate(hint): whether the suggested identifier is used.               *)
HintIsFree(s, hint) ==
  /\ ~ IsNull(hint) /\ ~ IsTombstone(hint)
  /\ LET curr == Construct(hint.entity, Current(s, hint))
     IN  ~ IsTombstone(curr) => Index(s, curr) >= s.head

(* Mutant: the identifiers that wait are loaded as if they were in use.    *)
LoadedAllLive(s) == PushRange(EmptySet("swap_only"), s.packed)

(* A snapshot of the storage, loaded into an empty one: every identifier,  *)
(* used or not, is generated, then the number of those in use is restored. *)
Loaded(s) == [PushRange(EmptySet("swap_only"), s.packed) EXCEPT !.head = s.head]

(* The greatest identifier, compared as the integer it is.                 *)
Greatest(s) ==
  LET above(id, other) == \/ id.version > other.version
                          \/ id.version = other.version /\ id.entity > other.entity
  IN  FoldLeft(LAMBDA acc, id : IF above(id, acc) THEN id ELSE acc,
               Construct(0, 0), s.packed)

-------------------------------------------------------------------------------
Init ==
  /\ set = EmptySet("swap_only")
  /\ placeholder = 0
  /\ start = 0
  /\ retired = [e \in AllEntities |-> << >>]

Generate(n) ==
  /\ \A k \in 0 .. n - 1 : CanGenerate(GenerateRun(k))
  /\ Size(GenerateRun(n).set) <= MaxKnown
  /\ set' = GenerateRun(n).set
  /\ placeholder' = GenerateRun(n).placeholder
  /\ UNCHANGED <<start, retired>>

(* generate(hint), which is also what push and try_emplace do.             *)
GenerateHint(hint) ==
  /\ HintIsFree(set, hint)
  /\ Size(TryEmplace(set, hint, TRUE)) <= MaxKnown
  /\ set' = TryEmplace(set, hint, TRUE)
  /\ retired' = [retired EXCEPT ![hint.entity] = << >>]
  /\ UNCHANGED <<placeholder, start>>

GenerateInstead(hint) ==
  /\ ~ HintIsFree(set, hint)
  /\ Generate(1)

EraseOne(id) ==
  /\ id \in Live(set)
  /\ set' = Erase(set, id)
  /\ retired' = [retired EXCEPT ![id.entity] = Pool!Remember(@, id)]
  /\ UNCHANGED <<placeholder, start>>

(* How the registry clears its entities: the range of each() is erased, so *)
(* that the versions survive.                                              *)
EraseEach ==
  /\ set' = PopRange(set, set.head, 0)
  /\ retired' = [e \in AllEntities |->
                   IF \E id \in Live(set) : id.entity = e
                   THEN Pool!Remember(retired[e], CHOOSE id \in Live(set) : id.entity = e)
                   ELSE retired[e]]
  /\ UNCHANGED <<placeholder, start>>

(* remove and erase accept an identifier of an entity that is not in use,  *)
(* if its version is the one the entity will be recycled with: the entity  *)
(* skips that version.                                                     *)
EraseUnused(id) ==
  /\ SetContains(set, id) /\ id \notin Live(set)
  /\ set' = Erase(set, id)
  /\ retired' = [retired EXCEPT ![id.entity] = << >>]
  /\ UNCHANGED <<placeholder, start>>

BumpOne(id, version) ==
  /\ id \in Live(set)
  /\ set' = Bump(set, [id EXCEPT !.version = version])
  /\ retired' = [retired EXCEPT ![id.entity] = << >>]
  /\ UNCHANGED <<placeholder, start>>

StartFrom(hint) ==
  /\ placeholder' = hint.entity
  /\ start' = hint.entity
  /\ UNCHANGED <<set, retired>>

(* pop_all, behind clear(), also forgets the versions.                     *)
Clear ==
  /\ set' = PopAll(set)
  /\ placeholder' = 0
  /\ start' = 0
  /\ retired' = [e \in AllEntities |-> << >>]

(* The storage that is moved from keeps its placeholder.                   *)
MoveOut ==
  /\ set' = MovedFrom(set)
  /\ start' = placeholder
  /\ retired' = [e \in AllEntities |-> << >>]
  /\ UNCHANGED placeholder

(* basic_snapshot::get and basic_snapshot_loader::get of the entities: the *)
(* identifiers, the order in which they will be recycled and their number  *)
(* are saved, placeholder is not.                                          *)
Reload ==
  /\ set' = Loaded(set)
  /\ placeholder' = NextVersion(Greatest(set)).entity
  /\ start' = NextVersion(Greatest(set)).entity
  /\ UNCHANGED retired

Next ==
  \/ \E n \in 1 .. MaxBatch : Generate(n)
  \/ \E hint \in ValidIdentifiers : GenerateHint(hint)
  \/ \E hint \in Identifiers : GenerateInstead(hint)
  \/ \E id \in ValidIdentifiers : EraseOne(id)
  \/ EraseEach
  \/ \E id \in ValidIdentifiers : EraseUnused(id)
  \/ \E id \in ValidIdentifiers, version \in 0 .. VersionMask - 1 : BumpOne(id, version)
  \/ \E hint \in ValidIdentifiers : StartFrom(hint)
  \/ Clear
  \/ MoveOut
  \/ Reload

Spec == Init /\ [][Next]_vars

-------------------------------------------------------------------------------
(* Properties. *)

TypeOK ==
  /\ placeholder \in 0 .. EntityMask
  /\ start \in 0 .. EntityMask
  /\ set.head \in 0 .. Size(set)
  /\ ToSet(set.packed) \subseteq ValidIdentifiers

(* The storage keeps the promise of the pool: no two identifiers in use    *)
(* for one entity, no destroyed identifier handed out again before its     *)
(* entity used up all other versions, whatever mix of generate, hints,     *)
(* destruction in any order and ranges came before.                        *)
ImplementsPool == Pool!PoolSpec

(* next() skips entities that hints have claimed but never loses one: an   *)
(* entity between the start and placeholder is known to the set, in use or *)
(* waiting to be recycled, and what the set knows are valid identifiers.   *)
NoEntityLost == TypeOK /\ start .. placeholder - 1 \subseteq Known(set)

(* A snapshot loads into a storage that answers as the one it was taken    *)
(* of: the same identifiers are in use and contained, and those that wait  *)
(* are recycled in the same order.                                         *)
SnapshotExact ==
  LET s == Loaded(set)
  IN  /\ Live(s) = Live(set)
      /\ \A id \in ValidIdentifiers : SetContains(s, id) <=> SetContains(set, id)
      /\ SubSeq(s.packed, s.head + 1, Size(s)) = SubSeq(set.packed, set.head + 1, Size(set))
===============================================================================
