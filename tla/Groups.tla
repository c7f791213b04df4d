--------------------------------- MODULE Groups -------------------------------
(***************************************************************************)
(* Pools with signals (basic_sigh_mixin, entity/mixin.hpp) and the groups  *)
(* that listen to them (internal::group_handler, entity/group.hpp).  One   *)
(* group owns pools: it keeps its entities, in one order, in front of each *)
(* of them.  Another owns none and keeps a set of its own.                 *)
(*                                                                         *)
(* Listeners are called from the last connected to the first.  Those of a  *)
(* construction may be user code that emplaces and removes again; stack    *)
(* holds the calls in progress:                                            *)
(*   publish  construction of entt in pool type; next listeners to call    *)
(*   insert   the loop of insert over the positions from .. to - 1; es and *)
(*            told, the range and what was published, are histories        *)
(*   user     a listener of the program, called by the publish below it    *)
(*                                                                         *)
(* A pool is the sequence of its entities: SparseSet shows that a sparse   *)
(* set with the swap-and-pop policy is one.                                *)
(***************************************************************************)
EXTENDS Naturals, Sequences, SequencesExt, FiniteSetsExt

CONSTANTS
  Entities,       (* valid identifiers                                      *)
  Pools,          (* the pools of the registry, in order of creation        *)
  Owned, Get, Exclude,       (* the owning group: a sequence and two sets   *)
  Observed, Filtered,        (* the other group: a sequence and a set       *)
  Listened,       (* bound of the model: the pools user code listens to     *)
  Foreign,        (* whether listeners of an insertion touch other entities *)
  MaxDepth        (* bound of the model: most calls in progress             *)

Types   == ToSet(Pools)
Members == ToSet(Owned) \cup Get

ASSUME GroupAssumption ==
  /\ Pools \in Seq(Types) /\ Owned \in Seq(Types) /\ Observed \in Seq(Types)
  /\ Owned # << >> /\ IsInjective(Owned) /\ IsInjective(Pools) /\ Observed # << >>
  /\ Members \cup Exclude \cup ToSet(Observed) \cup Filtered \subseteq Types
  /\ Get \cap ToSet(Owned) = {} /\ Members \cap Exclude = {}
  /\ ToSet(Observed) \cap Filtered = {}
  /\ Listened \subseteq Types /\ Foreign \in BOOLEAN /\ MaxDepth \in Nat

VARIABLES
  reg,          (* pools, len of the owning group, elem of the other        *)
  listeners,    (* signal -> pool -> its listeners, as connected            *)
  stack         (* the calls in progress, the innermost last                *)

vars == <<reg, listeners, stack>>

Top      == Last(stack)
Returned == Front(stack)

(* Positions start at 1.                                                   *)
Pos(seq, e)   == CHOOSE n \in DOMAIN seq : seq[n] = e
Has(r, t, e)  == e \in ToSet(r.pools[t])

Exchanged(seq, m, n) == [seq EXCEPT ![m] = seq[n], ![n] = seq[m]]
Without(seq, e) == Front([seq EXCEPT ![Pos(seq, e)] = Last(seq)])

-------------------------------------------------------------------------------
(* The handler of the owning group.                                        *)

(* Mutant: only the first pool is permuted.                                *)
SwapFirst(r, pos, e) ==
  [r EXCEPT !.pools[Owned[1]] = Exchanged(@, pos, Pos(@, e))]

SwapElements(r, pos, e) ==
  [r EXCEPT !.pools =
     [t \in Types |-> IF t \in ToSet(Owned) THEN Exchanged(@[t], pos, Pos(@[t], e))
                                            ELSE @[t]]]

Joined(r, e) == SwapElements([r EXCEPT !.len = @ + 1], r.len + 1, e)

HasAll(r, types, e) == \A t \in types : Has(r, t, e)

Excluded(r, types, e) == Cardinality({t \in types : Has(r, t, e)})

(* It has all elements and is not in the group yet.                        *)
Candidate(r, e) == HasAll(r, Members, e) /\ Pos(r.pools[Owned[1]], e) > r.len

PushOnConstruct(r, e) ==
  IF Candidate(r, e) /\ Excluded(r, Exclude, e) = 0 THEN Joined(r, e) ELSE r

(* Mutant: the element that is about to go counts as gone already.         *)
PushOnDestroyEarly(r, e) == PushOnConstruct(r, e)

(* The pool that publishes still has the entity.                           *)
PushOnDestroy(r, e) ==
  IF Candidate(r, e) /\ Excluded(r, Exclude, e) = 1 THEN Joined(r, e) ELSE r

RemoveIf(r, e) ==
  IF Has(r, Owned[1], e) /\ Pos(r.pools[Owned[1]], e) <= r.len
  THEN SwapElements([r EXCEPT !.len = @ - 1], r.len, e)
  ELSE r

(* From the front: what pushing moves away has been looked at.             *)
CommonSetup(r) ==
  FoldLeft(LAMBDA s, n : PushOnConstruct(s, s.pools[Owned[1]][n]), r,
           [n \in 1 .. Len(r.pools[Owned[1]]) |-> n])

(* The handler of a group that owns nothing.                               *)
Wanted(r, e) == e \notin ToSet(r.elem) /\ HasAll(r, ToSet(Observed), e)

ElemPushOnConstruct(r, e) ==
  IF Wanted(r, e) /\ Excluded(r, Filtered, e) = 0
  THEN [r EXCEPT !.elem = Append(@, e)] ELSE r

(* The pool that publishes still has the entity.                           *)
ElemPushOnDestroy(r, e) ==
  IF Wanted(r, e) /\ Excluded(r, Filtered, e) = 1
  THEN [r EXCEPT !.elem = Append(@, e)] ELSE r

ElemRemoveIf(r, e) ==
  IF e \in ToSet(r.elem) THEN [r EXCEPT !.elem = Without(@, e)] ELSE r

ElemCommonSetup(r) ==
  FoldLeft(ElemPushOnConstruct, r, Reverse(r.pools[Observed[1]]))

-------------------------------------------------------------------------------
(* Signals.                                                                *)

(* What a listener of the library does when pool t publishes e.            *)
OwningReacts(r, signal, t, e) ==
  CASE t \in Members /\ signal = "construct" -> PushOnConstruct(r, e)
    [] t \in Exclude /\ signal = "destroy"   -> PushOnDestroy(r, e)
    [] OTHER                                 -> RemoveIf(r, e)

(* Mutant: the group is not told of destructions.                          *)
ElemReactsOnce(r, signal, t, e) ==
  CASE t \in ToSet(Observed) /\ signal = "construct" -> ElemPushOnConstruct(r, e)
    [] t \in Filtered /\ signal = "construct"        -> ElemRemoveIf(r, e)
    [] OTHER                                         -> r

ElemReacts(r, signal, t, e) ==
  CASE t \in ToSet(Observed) /\ signal = "construct" -> ElemPushOnConstruct(r, e)
    [] t \in Filtered /\ signal = "destroy"          -> ElemPushOnDestroy(r, e)
    [] OTHER                                         -> ElemRemoveIf(r, e)

React(r, who, signal, t, e) ==
  CASE who = "owning"    -> OwningReacts(r, signal, t, e)
    [] who = "observing" -> ElemReacts(r, signal, t, e)
    [] who = "user"      -> r

(* publish of a destruction: listeners of the program only clean up.       *)
Destroying(r, t, e) ==
  FoldRight(LAMBDA who, s : React(s, who, "destroy", t, e),
            listeners["destroy"][t], r)

(* pop of one element: the listeners may have moved it meanwhile.          *)
Pop(r, t, e) ==
  LET s == Destroying(r, t, e)
  IN  [s EXCEPT !.pools[t] = Without(@, e)]

RemoveFrom(r, t, e) == IF Has(r, t, e) THEN Pop(r, t, e) ELSE r

(* pop_all publishes every element, from the back, before any goes.        *)
PopAll(r, t) ==
  LET n == Len(r.pools[t])
      s == FoldLeft(LAMBDA q, k : Destroying(q, t, q.pools[t][n + 1 - k]), r,
                    [k \in 1 .. n |-> k])
  IN  [s EXCEPT !.pools[t] = << >>]

-------------------------------------------------------------------------------
Init ==
  /\ reg = [pools |-> [t \in Types |-> << >>], len |-> 0, elem |-> << >>]
  /\ listeners = [signal \in {"construct", "destroy"} |-> [t \in Types |-> << >>]]
  /\ stack = << >>

UserCode == stack # << >> => Top.kind = "user"

Publishing(t, e) ==
  [kind |-> "publish", type |-> t, entt |-> e, next |-> Len(listeners["construct"][t]),
   to |-> 0, es |-> << >>, told |-> << >>]

(* What a listener may do: it may not remove elements of a pool that is    *)
(* notifying, and below an insertion it stays with its own entity.         *)
MayTouch(e) ==
  \A k \in DOMAIN stack :
    stack[k].kind = "insert" /\ ~ Foreign => k + 1 \in DOMAIN stack /\ stack[k + 1].entt = e

MayRemove(t, e) ==
  MayTouch(e) /\ \A k \in DOMAIN stack : stack[k].type # t

Emplace(t, e) ==
  /\ UserCode /\ Len(stack) < MaxDepth /\ MayTouch(e)
  /\ ~ Has(reg, t, e)
  /\ reg' = [reg EXCEPT !.pools[t] = Append(@, e)]
  /\ stack' = Append(stack, Publishing(t, e))
  /\ UNCHANGED listeners

(* insert: the whole range is emplaced, at the back, before the first is   *)
(* published.                                                              *)
Insert(t, es) ==
  /\ stack = << >>
  /\ \A n \in DOMAIN es : ~ Has(reg, t, es[n])
  /\ reg' = [reg EXCEPT !.pools[t] = @ \o es]
  /\ stack' = IF listeners["construct"][t] = << >> THEN stack
              ELSE << [kind |-> "insert", type |-> t, entt |-> es[1],
                       next |-> Len(reg.pools[t]), to |-> Len(reg.pools[t]) + Len(es),
                       es |-> es, told |-> << >>] >>
  /\ UNCHANGED listeners

(* Mutant: the new elements are published from the back.                   *)
InsertStepBack ==
  /\ stack # << >> /\ Top.kind = "insert" /\ Top.next # Top.to
  /\ LET e == reg.pools[Top.type][Top.to - Len(Top.told)]
     IN  stack' = Returned \o << [Top EXCEPT !.next = @ + 1, !.told = Append(@, e)],
                                 Publishing(Top.type, e) >>
  /\ UNCHANGED <<reg, listeners>>

InsertStep ==
  /\ stack # << >> /\ Top.kind = "insert" /\ Top.next # Top.to
  /\ LET e == reg.pools[Top.type][Top.next + 1]
     IN  stack' = Returned \o << [Top EXCEPT !.next = @ + 1, !.told = Append(@, e)],
                                 Publishing(Top.type, e) >>
  /\ UNCHANGED <<reg, listeners>>

InsertEnds ==
  /\ stack # << >> /\ Top.kind = "insert" /\ Top.next = Top.to
  /\ stack' = Returned
  /\ UNCHANGED <<reg, listeners>>

PublishStep ==
  /\ stack # << >> /\ Top.kind = "publish" /\ Top.next > 0
  /\ LET who  == listeners["construct"][Top.type][Top.next]
         rest == Returned \o << [Top EXCEPT !.next = @ - 1] >>
     IN  /\ reg' = React(reg, who, "construct", Top.type, Top.entt)
         /\ stack' = IF who = "user" THEN Append(rest, [Top EXCEPT !.kind = "user"])
                                     ELSE rest
  /\ UNCHANGED listeners

PublishEnds ==
  /\ stack # << >> /\ Top.kind = "publish" /\ Top.next = 0
  /\ stack' = Returned
  /\ UNCHANGED <<reg, listeners>>

UserReturns ==
  /\ stack # << >> /\ Top.kind = "user"
  /\ stack' = Returned
  /\ UNCHANGED <<reg, listeners>>

Erase(t, e) ==
  /\ UserCode /\ MayRemove(t, e)
  /\ Has(reg, t, e)
  /\ reg' = Pop(reg, t, e)
  /\ UNCHANGED <<listeners, stack>>

Clear(t) ==
  /\ stack = << >>
  /\ reg' = PopAll(reg, t)
  /\ UNCHANGED <<listeners, stack>>

(* registry.destroy takes the entity out of the pools, the last first.     *)
Destroy(e) ==
  /\ stack = << >>
  /\ reg' = FoldRight(LAMBDA t, r : RemoveFrom(r, t, e), Pools, reg)
  /\ UNCHANGED <<listeners, stack>>

-------------------------------------------------------------------------------
Created(who) == \E t \in Types : who \in ToSet(listeners["destroy"][t])

Connected(who, types, signals) ==
  [signal \in {"construct", "destroy"} |->
     [t \in Types |-> IF t \in types /\ signal \in signals
                      THEN Append(listeners[signal][t], who)
                      ELSE listeners[signal][t]]]

(* registry.group, for the pools as they are.                              *)
CreateOwning ==
  /\ stack = << >> /\ ~ Created("owning")
  /\ listeners' = Connected("owning", Members \cup Exclude, {"construct", "destroy"})
  /\ reg' = CommonSetup(reg)
  /\ UNCHANGED stack

CreateObserving ==
  /\ stack = << >> /\ ~ Created("observing")
  /\ listeners' = Connected("observing", ToSet(Observed) \cup Filtered, {"construct", "destroy"})
  /\ reg' = ElemCommonSetup(reg)
  /\ UNCHANGED stack

Connect(t) ==
  /\ stack = << >> /\ "user" \notin ToSet(listeners["construct"][t])
  /\ listeners' = Connected("user", {t}, {"construct"})
  /\ UNCHANGED <<reg, stack>>

(* sort of the owning group: sort_n of the first pool, then the others     *)
(* follow from the back.                                                   *)
Follow(seq, head, len) ==
  FoldLeft(LAMBDA s, k : LET n == len + 1 - k IN Exchanged(s, n, Pos(s, head[n])),
           seq, [k \in 1 .. len |-> k])

Sort ==
  /\ stack = << >> /\ Created("owning")
  /\ \E perm \in Bijection(1 .. reg.len, 1 .. reg.len) :
       LET first == reg.pools[Owned[1]]
           head  == [n \in DOMAIN first |-> IF n <= reg.len THEN first[perm[n]] ELSE first[n]]
       IN  reg' = [reg EXCEPT !.pools =
                     [t \in Types |-> CASE t = Owned[1]        -> head
                                        [] t \in ToSet(Tail(Owned)) -> Follow(@[t], head, reg.len)
                                        [] OTHER               -> @[t]]]
  /\ UNCHANGED <<listeners, stack>>

(* registry.sort of a pool no group owns.                                  *)
SortFree(t) ==
  /\ stack = << >>
  /\ Created("owning") => t \notin ToSet(Owned)
  /\ reg' \in {[reg EXCEPT !.pools[t] = [n \in DOMAIN @ |-> @[perm[n]]]] :
                 perm \in Bijection(DOMAIN reg.pools[t], DOMAIN reg.pools[t])}
  /\ UNCHANGED <<listeners, stack>>

Pairs == {<<d, e>> : d, e \in Entities} \ {<<e, e>> : e \in Entities}

Calls ==
  \/ \E t \in Types, e \in Entities : Emplace(t, e) \/ Erase(t, e)
  \/ \E t \in Types, es \in Pairs : Insert(t, es)
  \/ \E t \in Types : Clear(t)
  \/ \E e \in Entities : Destroy(e)

Loops == InsertStep \/ InsertEnds \/ PublishStep \/ PublishEnds \/ UserReturns

Sorts == Sort \/ \E t \in Types : SortFree(t)

Next ==
  \/ Calls \/ Loops \/ Sorts
  \/ CreateOwning \/ CreateObserving
  \/ \E t \in Listened : Connect(t)

Spec == Init /\ [][Next]_vars

-------------------------------------------------------------------------------
(* Properties. *)

TypeOK ==
  /\ \A t \in Types : reg.pools[t] \in Seq(Entities) /\ IsInjective(reg.pools[t])
  /\ reg.elem \in Seq(Entities) /\ IsInjective(reg.elem)
  /\ reg.len \in 0 .. Len(reg.pools[Owned[1]])

(* The elements of a group are read from all owned pools at one position:  *)
(* their first len entities are the same, in the same order, even between  *)
(* the listeners of one construction, and no entity is in a pool twice.    *)
SamePrefix ==
  /\ TypeOK
  /\ \A t \in ToSet(Owned) :
       /\ reg.len <= Len(reg.pools[t])
       /\ SubSeq(reg.pools[t], 1, reg.len) = SubSeq(reg.pools[Owned[1]], 1, reg.len)

(* Entities some pool has received but not finished to publish.            *)
Pending ==
  UNION {IF stack[k].kind = "insert"
         THEN {reg.pools[stack[k].type][n] : n \in stack[k].next + 1 .. stack[k].to}
         ELSE {stack[k].entt} : k \in DOMAIN stack}

(* The owning group has exactly the entities with all the elements it asks *)
(* for and none it excludes, but for those whose listeners are running.    *)
OwningExact ==
  Created("owning") =>
    \A e \in Entities \ Pending :
      e \in ToSet(SubSeq(reg.pools[Owned[1]], 1, reg.len))
        <=> HasAll(reg, Members, e) /\ Excluded(reg, Exclude, e) = 0

(* The same of the group that owns nothing.                                *)
ObservingExact ==
  Created("observing") =>
    \A e \in Entities \ Pending :
      e \in ToSet(reg.elem)
        <=> HasAll(reg, ToSet(Observed), e) /\ Excluded(reg, Filtered, e) = 0

(* What the comment of insert relies on: the loop over the positions tells *)
(* of the new elements, each once, in their order and of no other, and of  *)
(* all by its end ("fine as long as insert passes force_back true to       *)
(* try_emplace"), while listeners make groups permute the pool.            *)
InsertTellsEach ==
  \A k \in DOMAIN stack :
    stack[k].kind = "insert" =>
      /\ IsPrefix(stack[k].told, stack[k].es)
      /\ stack[k].next = stack[k].to => stack[k].told = stack[k].es
===============================================================================
