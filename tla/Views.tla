--------------------------------- MODULE Views ---------------------------------
(***************************************************************************)
(* Views (entity/view.hpp, entity/runtime_view.hpp): an iteration over the *)
(* packed array of one storage, the leading one, that skips the elements   *)
(* another storage lacks or a filter has, while the body of the loop       *)
(* changes the storages as the documentation of the views allows.  Of the  *)
(* other storages only contains is used, so they are sets of entities.     *)
(***************************************************************************)
EXTENDS SparseSetOps, FiniteSetsExt

CONSTANTS
  Policies,    (* the deletion policies of the leading storage              *)
  Entities,    (* bound of the model: the entities the program uses         *)
  MaxVisits,   (* bound of the model: longest loop                          *)
  MaxSize      (* bound of the model: longest packed array                  *)

VARIABLES
  shape,    (* how many storages are iterated and filtered: get and exclude *)
  lead,     (* the leading storage; swap-only if it is that of entities     *)
  also,     (* the entities of the other storage                            *)
  filter,   (* the entities of the filter                                   *)
  it,       (* position + 1 of the current entity, 0 after the loop         *)
  seen,     (* history: what the loop visited                               *)
  stayed    (* history: what the view never ceased to have since begin()    *)

vars == <<shape, lead, also, filter, it, seen, stayed>>

(* One storage, with or without a filter, or two storages.                 *)
Shapes == {sh \in [get : {1, 2}, exclude : {0, 1}] : sh.get + sh.exclude <= 2}

(* offset: the unused elements of a swap-only storage are not iterated.    *)
Offset == IF lead.mode = "swap_only" THEN lead.head ELSE Size(lead)

(* tombstone_check_v, and tombstone_check of the runtime view.             *)
Checked == shape.get = 1 /\ lead.mode = "in_place"

(* Mutant: tombstones are never looked for.                                *)
ValidUnchecked(id) ==
  /\ shape.get = 2 => id \in also
  /\ shape.exclude = 1 => id \notin filter

(* valid: the leading storage is not asked.                                *)
Valid(id) ==
  /\ Checked => ~ IsTombstone(id)
  /\ shape.get = 2 => id \in also
  /\ shape.exclude = 1 => id \notin filter

(* contains.                                                               *)
Has(id) ==
  /\ SetContains(lead, id)
  /\ shape.get = 2 => id \in also
  /\ shape.exclude = 1 => id \notin filter
  /\ Index(lead, id) < Offset

(* seek_next: the position + 1 of the first entity from n down that is     *)
(* valid, or 0.                                                            *)
Seek(n) == Max({0} \cup {m \in 1 .. n : Valid(At(lead, m - 1))})

(* An iteration from begin() to end() that nothing disturbs.               *)
Visit ==
  LET visit == SelectSeq([n \in 1 .. Offset |-> Offset + 1 - n],
                         LAMBDA m : Valid(At(lead, m - 1)))
  IN  [n \in DOMAIN visit |-> At(lead, visit[n] - 1)]

FrontOf == LET n == Seek(Offset) IN IF n = 0 THEN Null ELSE At(lead, n - 1)

(* back: of a storage view without a filter it looks for tombstones; of    *)
(* the others it does not.                                                 *)
BackOf ==
  LET ok(id) == (shape.get = 1 /\ shape.exclude = 0 => Valid(id))
                /\ (shape.get = 2 => id \in also) /\ (shape.exclude = 1 => id \notin filter)
      found  == {m \in 1 .. Offset : ok(At(lead, m - 1))}
  IN  IF found = {} THEN Null ELSE At(lead, Min(found) - 1)

(* operator-- of the runtime view, from end() until begin() is reached.    *)
(* The search stops at the first position of the storage, valid or not.    *)
Previous(n) ==
  LET found == {m \in n + 1 .. Size(lead) : m = Size(lead) \/ Valid(At(lead, m - 1))}
  IN  Min(found)

Backward ==
  LET prev[n \in 0 .. Len(Visit)] == IF n = 0 THEN 0 ELSE Previous(prev[n - 1])
  IN  [n \in 1 .. Len(Visit) |-> At(lead, prev[n] - 1)]

-------------------------------------------------------------------------------
Ids == {id \in ValidIdentifiers : id.entity \in Entities}

(* What the program may name: the entities, or those alive if the leading  *)
(* storage is that of the entities.                                        *)
Usable ==
  IF lead.mode = "swap_only" THEN {At(lead, pos) : pos \in 0 .. lead.head - 1}
  ELSE {id \in Ids : id.version = 0}

Members == {id \in Ids : Has(id)}

Looping == it # 0

CurrentId == seen[Len(seen)]

Init ==
  /\ shape \in Shapes
  /\ lead \in {EmptySet(mode) : mode \in Policies}
  /\ also = {} /\ filter = {}
  /\ it = 0 /\ seen = << >> /\ stayed = {}

(* The history after a step of the program: what the view still has. When  *)
(* the loop is over it is forgotten.                                       *)
StillThere ==
  /\ seen'   = IF Looping THEN seen ELSE << >>
  /\ stayed' = {id \in stayed : Looping /\ Has(id)'}

(* New elements are added to the leading storage. The storage of entities  *)
(* recycles the first one that is not in use.                              *)
Add(id) ==
  /\ CanEmplace(lead, id) /\ Size(TryEmplace(lead, id, FALSE)) <= MaxSize
  /\ lead' = TryEmplace(lead, id, FALSE)
  /\ UNCHANGED <<shape, also, filter, it>>
  /\ StillThere

NewIds ==
  IF lead.mode # "swap_only" THEN Usable
  ELSE IF lead.head < Size(lead) THEN {At(lead, lead.head)}
  ELSE {id \in Ids : id.entity = Size(lead) /\ id.version = 0}

(* The other storages change as the program likes.                         *)
Change(id) ==
  /\ \/ /\ shape.get = 2
        /\ also' \in {also \cup {id}, also \ {id}} /\ UNCHANGED filter
     \/ /\ shape.exclude = 1
        /\ filter' \in {filter \cup {id}, filter \ {id}} /\ UNCHANGED also
  /\ UNCHANGED <<shape, lead, it>>
  /\ StillThere

(* The current entity loses the element, or is destroyed: within a loop no *)
(* other element may leave the leading storage.                            *)
Leave(id, destroyed) ==
  /\ Looping => id = CurrentId
  /\ SetContains(lead, id) /\ Index(lead, id) < Offset
  /\ lead.mode = "swap_only" => destroyed
  /\ lead' = Erase(lead, id)
  /\ also' = IF destroyed THEN also \ {id} ELSE also
  /\ filter' = IF destroyed THEN filter \ {id} ELSE filter
  /\ UNCHANGED <<shape, it>>
  /\ StillThere

Begin ==
  /\ ~ Looping
  /\ LET n == Seek(Offset)
     IN  /\ it' = n
         /\ seen' = IF n = 0 THEN << >> ELSE <<At(lead, n - 1)>>
  /\ stayed' = Members
  /\ UNCHANGED <<shape, lead, also, filter>>

VisitedFrom(from) ==
  /\ Looping /\ Len(seen) < MaxVisits
  /\ LET n == Seek(from)
     IN  /\ it' = n
         /\ seen' = IF n = 0 THEN seen ELSE Append(seen, At(lead, n - 1))
  /\ UNCHANGED <<shape, lead, also, filter, stayed>>

(* Mutant: what took the place of an entity that left is visited.          *)
AdvanceReplaced ==
  VisitedFrom(IF Has(CurrentId) THEN it - 1 ELSE Min({it, Offset}))

(* operator++.                                                             *)
Advance == VisitedFrom(it - 1)

Next ==
  \/ \E id \in NewIds : Add(id)
  \/ \E id \in Usable : Change(id) \/ \E destroyed \in BOOLEAN : Leave(id, destroyed)
  \/ Begin
  \/ Advance

Spec == Init /\ [][Next]_vars

-------------------------------------------------------------------------------
(* Properties. *)

(* front() and back() are the ends of the iteration.  back() of a single   *)
(* filtered storage with holes is left out: BackIsMember.                  *)
EndsAgree ==
  /\ FrontOf = IF Visit = << >> THEN Null ELSE Visit[1]
  /\ ~ (Checked /\ shape.exclude = 1) =>
       BackOf = IF Visit = << >> THEN Null ELSE Visit[Len(Visit)]

(* "Returns the last entity of the view if one exists, the null entity     *)
(* otherwise."                                                             *)
BackIsMember == BackOf = Null \/ BackOf \in Members

(* A runtime view walked backwards is the same iteration.                  *)
BackwardAgrees == Backward = Reverse(Visit)

(* An iteration yields the entities that contains() is true for, each of   *)
(* them once, and its hint does not fall short, whichever storage leads    *)
(* and whatever holes or unused elements that storage has; front(), back() *)
(* and an iteration backwards agree with it.                               *)
ViewExact ==
  /\ IsInjective(Visit) /\ ToSet(Visit) = Members /\ Len(Visit) <= Offset
  /\ EndsAgree
  /\ BackwardAgrees

(* A loop that ends has visited every entity the view had from its begin   *)
(* on, and it visits none of those twice, whatever its body did.           *)
LoopExact ==
  /\ ~ Looping => stayed \subseteq ToSet(seen)
  /\ \A m, n \in DOMAIN seen : seen[m] = seen[n] /\ seen[m] \in stayed => m = n
===============================================================================
