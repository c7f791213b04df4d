-------------------------------- MODULE Cascade --------------------------------
(***************************************************************************)
(* Destruction as the listeners of on_destroy see it (entity/registry.hpp, *)
(* entity/mixin.hpp): a listener runs before its element goes and may      *)
(* remove other elements, of this entity too, destroy other entities, or   *)
(* sort the pools.  stack holds the calls in progress:                     *)
(*   destroy   the walk over the pools for one entity                      *)
(*   range     the same for a range: the pool, and the position in the ids *)
(*   clear     the walk over the pools of clear                            *)
(*   pop       the mixin's pop: the listener is told of the first of left  *)
(*   popall    the mixin's pop_all: it is told of position next            *)
(* Each pool has a listener; it runs while pop or popall is on top.        *)
(***************************************************************************)
EXTENDS Naturals, Sequences, FiniteSets, SequencesExt

CONSTANTS
  Handles,     (* identifiers                                               *)
  PoolCount,   (* pools are numbered as they were created                   *)
  MaxNesting   (* bound of the model: calls in progress                     *)

VARIABLES
  alive,   (* the identifiers in use                                        *)
  own,     (* pool -> its identifiers, in the order of the packed array     *)
  stack,   (* the calls in progress, the innermost last                     *)
  told     (* history: pool -> identifier -> what the listener was told of  *)
           (* its last element, 1 if it never had one                       *)

vars == <<alive, own, stack, told>>

AllPools == 1 .. PoolCount

Top   == Last(stack)
Below == Front(stack)

Frames(kind) == {k \in DOMAIN stack : stack[k].kind = kind}

Telling(k) == stack[k].kind \in {"pop", "popall"}

Has(t, id) == id \in ToSet(own[t])

(* erase of the sparse set: the last identifier takes the place.           *)
Without(seq, id) ==
  Front([n \in DOMAIN seq |-> IF seq[n] = id THEN Last(seq) ELSE seq[n]])

Tell(t, id) == told' = [told EXCEPT ![t][id] = @ + 1]

-------------------------------------------------------------------------------
(* What the program may do, outside of any call or in a listener.          *)

Outside  == stack = << >>
UserCode == stack # << >> => Telling(Len(stack))
MayCall  == UserCode /\ Len(stack) < MaxNesting

(* The iterators of pop_all, and those of pop if it has more to do, are    *)
(* valid as long as nobody else touches the pool.                          *)
Untouchable(t) ==
  \E k \in DOMAIN stack :
    /\ Telling(k) /\ stack[k].type = t
    /\ stack[k].kind = "pop" => Len(stack[k].left) > 1

(* An element whose removal is in progress must not be removed by others.  *)
Removable(t, id) ==
  /\ ~ Untouchable(t)
  /\ \A k \in Frames("pop") : stack[k].type = t => Head(stack[k].left) # id

Init ==
  /\ alive = {}
  /\ own = [t \in AllPools |-> << >>]
  /\ stack = << >>
  /\ told = [t \in AllPools |-> [id \in Handles |-> 1]]

Create(id) ==
  /\ Outside /\ id \notin alive
  /\ alive' = alive \cup {id}
  /\ UNCHANGED <<own, stack, told>>

Emplace(t, id) ==
  /\ Outside /\ id \in alive /\ ~ Has(t, id)
  /\ own' = [own EXCEPT ![t] = Append(@, id)]
  /\ told' = [told EXCEPT ![t][id] = 0]
  /\ UNCHANGED <<alive, stack>>

PopFrame(t, ids) == [kind |-> "pop", type |-> t, left |-> ids]

PopAllFrame(t) == [kind |-> "popall", type |-> t, next |-> Len(own[t])]

(* erase of one element.                                                   *)
EraseOne(t, id) ==
  /\ MayCall /\ Has(t, id) /\ Removable(t, id)
  /\ stack' = Append(stack, PopFrame(t, <<id>>))
  /\ Tell(t, id)
  /\ UNCHANGED <<alive, own>>

(* erase over iterators first down to last + 1 of the pool.                *)
EraseRange(t, first, last) ==
  /\ Outside /\ last < first /\ first <= Len(own[t])
  /\ stack' = <<PopFrame(t, Reverse(SubSeq(own[t], last + 1, first)))>>
  /\ Tell(t, own[t][first])
  /\ UNCHANGED <<alive, own>>

Destroying(id) ==
  \/ \E k \in Frames("destroy") : stack[k].id = id
  \/ Frames("range") # {}

Destroy(id) ==
  /\ MayCall /\ id \in alive /\ ~ Destroying(id)
  /\ \A t \in AllPools : Has(t, id) => Removable(t, id)
  /\ stack' = Append(stack, [kind |-> "destroy", id |-> id, next |-> PoolCount])
  /\ UNCHANGED <<alive, own, told>>

DestroyRange(ids) ==
  /\ Outside /\ ids # << >> /\ IsInjective(ids)
  /\ stack' = <<[kind |-> "range", ids |-> ids, pool |-> 1, from |-> 1]>>
  /\ UNCHANGED <<alive, own, told>>

Clear ==
  /\ Outside
  /\ stack' = <<[kind |-> "clear", next |-> PoolCount]>>
  /\ UNCHANGED <<alive, own, told>>

ClearType(t) ==
  /\ Outside /\ own[t] # << >>
  /\ stack' = <<PopAllFrame(t)>>
  /\ Tell(t, Last(own[t]))
  /\ UNCHANGED <<alive, own>>

Sort(t, seq) ==
  /\ UserCode /\ ~ Untouchable(t)
  /\ own' = [own EXCEPT ![t] = seq]
  /\ UNCHANGED <<alive, stack, told>>

-------------------------------------------------------------------------------
(* How the calls in progress go on.                                        *)

Running(kind) == stack # << >> /\ Top.kind = kind

(* Mutant: destroy erases without asking.                                  *)
ErasesUnasked(t, id) == TRUE

(* remove: contains, asked when its turn comes.                            *)
Erases(t, id) == Has(t, id)

(* destroy of one entity visits the pools from the last one to the first.  *)
DestroyStep ==
  /\ Running("destroy") /\ Top.next > 0
  /\ LET t == Top.next
         f == [Top EXCEPT !.next = @ - 1]
     IN  IF Erases(t, Top.id)
         THEN stack' = Below \o <<f, PopFrame(t, <<Top.id>>)>> /\ Tell(t, Top.id)
         ELSE stack' = Append(Below, f) /\ UNCHANGED told
  /\ UNCHANGED <<alive, own>>

DestroyReturns ==
  /\ Running("destroy") /\ Top.next = 0
  /\ alive' = alive \ {Top.id}
  /\ stack' = Below
  /\ UNCHANGED <<own, told>>

(* remove over a range erases each run of identifiers that the pool has;   *)
(* the run ends before the listeners are told of it.                       *)
RangeStep ==
  /\ Running("range") /\ Top.pool <= PoolCount
  /\ LET t     == Top.pool
         first == SelectInSubSeq(Top.ids, Top.from, Len(Top.ids), LAMBDA id : Has(t, id))
         end   == Min({n \in first .. Len(Top.ids) + 1 :
                         n > Len(Top.ids) \/ ~ Has(t, Top.ids[n])})
     IN  IF first = 0
         THEN /\ stack' = Append(Below, [Top EXCEPT !.pool = t + 1, !.from = 1])
              /\ UNCHANGED told
         ELSE /\ stack' = Below \o <<[Top EXCEPT !.from = end],
                                    PopFrame(t, SubSeq(Top.ids, first, end - 1))>>
              /\ Tell(t, Top.ids[first])
  /\ UNCHANGED <<alive, own>>

RangeReturns ==
  /\ Running("range") /\ Top.pool > PoolCount
  /\ alive' = alive \ ToSet(Top.ids)
  /\ stack' = Below
  /\ UNCHANGED <<own, told>>

(* clear visits the pools from the last one to the first.                  *)
ClearStep ==
  /\ Running("clear") /\ Top.next > 0
  /\ LET t == Top.next
         f == [Top EXCEPT !.next = @ - 1]
     IN  IF own[t] # << >>
         THEN /\ stack' = Below \o <<f, PopAllFrame(t)>>
              /\ Tell(t, Last(own[t]))
         ELSE stack' = Append(Below, f) /\ UNCHANGED told
  /\ UNCHANGED <<alive, own>>

ClearReturns ==
  /\ Running("clear") /\ Top.next = 0
  /\ alive' = {}
  /\ stack' = Below
  /\ UNCHANGED <<own, told>>

(* The listener returns to pop: the identifier is looked up again, for it  *)
(* may have moved, and erased; the next one is read and told.              *)
PopGoesOn ==
  /\ Running("pop")
  /\ own' = [own EXCEPT ![Top.type] = Without(@, Head(Top.left))]
  /\ IF Len(Top.left) > 1
     THEN /\ stack' = Append(Below, [Top EXCEPT !.left = Tail(@)])
          /\ Tell(Top.type, Top.left[2])
     ELSE stack' = Below /\ UNCHANGED told
  /\ UNCHANGED alive

(* It returns to pop_all: the next position, or everything goes.           *)
PopAllGoesOn ==
  /\ Running("popall")
  /\ IF Top.next > 1
     THEN /\ stack' = Append(Below, [Top EXCEPT !.next = @ - 1])
          /\ Tell(Top.type, own[Top.type][Top.next - 1])
          /\ UNCHANGED own
     ELSE /\ own' = [own EXCEPT ![Top.type] = << >>]
          /\ stack' = Below
          /\ UNCHANGED told
  /\ UNCHANGED alive

Arrangements(t) ==
  {seq \in [DOMAIN own[t] -> ToSet(own[t])] : IsInjective(seq)}

Next ==
  \/ \E id \in Handles : Create(id) \/ Destroy(id)
  \/ \E t \in AllPools, id \in Handles : Emplace(t, id) \/ EraseOne(t, id)
  \/ \E t \in AllPools : \E first, last \in 0 .. Len(own[t]) : EraseRange(t, first, last)
  \/ \E ids \in BoundedSeq(alive, Cardinality(Handles)) : DestroyRange(ids)
  \/ Clear
  \/ \E t \in AllPools : ClearType(t)
  \/ \E t \in AllPools : \E seq \in Arrangements(t) : Sort(t, seq)
  \/ DestroyStep \/ DestroyReturns
  \/ RangeStep \/ RangeReturns
  \/ ClearStep \/ ClearReturns
  \/ PopGoesOn \/ PopAllGoesOn

Spec == Init /\ [][Next]_vars

-------------------------------------------------------------------------------
(* Properties. *)

(* A publication of the destruction of this element is in progress.        *)
Leaving(t, id) ==
  \E k \in DOMAIN stack :
    /\ Telling(k) /\ stack[k].type = t
    /\ IF stack[k].kind = "pop" THEN Head(stack[k].left) = id
       ELSE id \in ToSet(SubSeq(own[t], stack[k].next, Len(own[t])))

(* "Listeners for destruction signals are invoked before components have   *)
(* been destroyed", once for each element, whoever removes it: the calls   *)
(* in progress, an earlier listener, or the destruction of its entity from *)
(* a listener of another one.                                              *)
ToldOnce ==
  \A t \in AllPools, id \in Handles :
    told[t][id] = IF Has(t, id) /\ ~ Leaving(t, id) THEN 0 ELSE 1

(* The entity a listener is told of is valid and has the element; no       *)
(* element outlives its entity, however destructions nest.                 *)
NoneOutlives ==
  /\ \A t \in AllPools : ToSet(own[t]) \subseteq alive /\ IsInjective(own[t])
  /\ \A k \in Frames("pop") : ToSet(stack[k].left) \subseteq ToSet(own[stack[k].type])

CascadeExact == ToldOnce /\ NoneOutlives
===============================================================================
