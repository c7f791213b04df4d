------------------------------- MODULE Reactive -------------------------------
(***************************************************************************)
(* The reactive mixin (entity/mixin.hpp): a storage that collects the      *)
(* entities for which a pool publishes an event it observes.  The registry *)
(* may own it, among its other pools, or the program; then the program has *)
(* it observe the destruction of entities and removes them.                *)
(***************************************************************************)
EXTENDS EntityTraits, Sequences, SequencesExt

CONSTANTS
  Setups,       (* who owns the storage, and since when: see Order          *)
  Known,        (* bound of the model: the entities                         *)
  MaxVersion    (* bound of the model: their last version                   *)

VARIABLES
  setup,      (* one of Setups                                              *)
  live,       (* the entities in use                                        *)
  recycled,   (* entity -> the version it will be created with              *)
  held,       (* pool -> its entities, and those of the reactive storage    *)
  observed,   (* the events the reactive storage is connected to            *)
  told        (* history: published and observed, neither discarded nor     *)
              (* destroyed since                                            *)

vars == <<setup, live, recycled, held, observed, told>>

Events == {"construct", "update", "destroy"}
Empty  == [pool |-> {}, reactive |-> {}]

(* The pools of the registry, in order of creation.                        *)
Order ==
  CASE setup = "before" -> <<"reactive", "pool">>
    [] setup = "after"  -> <<"pool", "reactive">>
    [] setup = "apart"  -> <<"pool">>

(* publish: emplace_element, the only listener of the pool.                *)
Published(h, event, id) ==
  IF event \in observed THEN [h EXCEPT !.reactive = @ \cup {id}] ELSE h

(* remove, by the registry, in one of its storages: the mixin of the pool  *)
(* publishes first, the reactive storage has none.                         *)
Popped(h, t, id) ==
  IF id \notin h[t] THEN h
  ELSE LET h1 == IF t = "pool" THEN Published(h, "destroy", id) ELSE h
       IN  [h1 EXCEPT ![t] = @ \ {id}]

(* What the program connected to the destruction of entities.              *)
Cleaned(h, id) ==
  IF setup = "apart" THEN [h EXCEPT !.reactive = @ \ {id}] ELSE h

(* Mutant: the identifier is released before the pools are left.           *)
DestroyedFirst(h, id) ==
  FoldRight(LAMBDA t, g : Popped(g, t, id), Order, Cleaned(h, id))

(* destroy: the pools are walked from the last, then the entity goes.      *)
Destroyed(h, id) ==
  Cleaned(FoldRight(LAMBDA t, g : Popped(g, t, id), Order, h), id)

(* clear of a whole storage: its mixin publishes all, then it is emptied.  *)
PoolCleared(h, t) ==
  LET h1 == IF t = "pool" /\ "destroy" \in observed
            THEN [h EXCEPT !.reactive = @ \cup h.pool] ELSE h
  IN  [h1 EXCEPT ![t] = {}]

(* clear of the registry: the pools from the last, then the entities.      *)
RegistryCleared(h) ==
  FoldRight(LAMBDA id, g : Cleaned(g, id), SetToSeq(live),
            FoldRight(LAMBDA t, g : PoolCleared(g, t), Order, h))

Heard(event, ids) == told \cup (IF event \in observed THEN ids ELSE {})

-------------------------------------------------------------------------------
Init ==
  /\ setup \in Setups
  /\ live = {} /\ held = Empty /\ observed = {} /\ told = {}
  /\ recycled = [e \in Known |-> 0]

Create(e) ==
  /\ recycled[e] <= MaxVersion
  /\ \A id \in live : id.entity # e
  /\ live' = live \cup {Construct(e, recycled[e])}
  /\ UNCHANGED <<setup, recycled, held, observed, told>>

Emplace(id) ==
  /\ id \notin held.pool
  /\ held' = Published([held EXCEPT !.pool = @ \cup {id}], "construct", id)
  /\ told' = Heard("construct", {id})
  /\ UNCHANGED <<setup, live, recycled, observed>>

Patch(id) ==
  /\ id \in held.pool
  /\ held' = Published(held, "update", id)
  /\ told' = Heard("update", {id})
  /\ UNCHANGED <<setup, live, recycled, observed>>

RemoveElement(id) ==
  /\ id \in held.pool
  /\ held' = Popped(held, "pool", id)
  /\ told' = Heard("destroy", {id})
  /\ UNCHANGED <<setup, live, recycled, observed>>

ClearPool ==
  /\ held' = PoolCleared(held, "pool")
  /\ told' = Heard("destroy", held.pool)
  /\ UNCHANGED <<setup, live, recycled, observed>>

Destroy(id) ==
  /\ held' = Destroyed(held, id)
  /\ live' = live \ {id}
  /\ recycled' = [recycled EXCEPT ![id.entity] = id.version + 1]
  /\ told' = told \ {id}
  /\ UNCHANGED <<setup, observed>>

Clear ==
  /\ held' = RegistryCleared(held)
  /\ live' = {}
  /\ recycled' = [e \in DOMAIN recycled |->
                    recycled[e] + (IF \E id \in live : id.entity = e THEN 1 ELSE 0)]
  /\ told' = {}
  /\ UNCHANGED <<setup, observed>>

(* on_construct, on_update and on_destroy of the mixin.                    *)
Observe(event) ==
  /\ observed' = observed \cup {event}
  /\ UNCHANGED <<setup, live, recycled, held, told>>

(* reset: what was collected stays; the program that owns the storage goes *)
(* on removing the entities that are destroyed.                            *)
Reset ==
  /\ observed' = {}
  /\ UNCHANGED <<setup, live, recycled, held, told>>

(* The program removes what it has processed, one by one or all at once.   *)
Discard(ids) ==
  /\ held' = [held EXCEPT !.reactive = @ \ ids]
  /\ told' = told \ ids
  /\ UNCHANGED <<setup, live, recycled, observed>>

Next ==
  \/ \E e \in Known : Create(e)
  \/ \E id \in live : Emplace(id)
  \/ \E id \in live : Patch(id)
  \/ \E id \in live : RemoveElement(id)
  \/ ClearPool
  \/ \E id \in live : Destroy(id)
  \/ Clear
  \/ \E event \in Events : Observe(event)
  \/ Reset
  \/ \E id \in held.reactive : Discard({id})
  \/ Discard(held.reactive)

Spec == Init /\ [][Next]_vars

-------------------------------------------------------------------------------
(* Properties. *)

(* The storage has the entities about which something was published since  *)
(* they were last discarded, and none that was destroyed: so it never has  *)
(* two identifiers of one entity, which try_emplace asserts.               *)
TrackedExact ==
  /\ held.reactive = told
  /\ \A d, e \in held.reactive : d.entity = e.entity => d = e

(* A storage that the registry owns is cleaned up when entities are        *)
(* destroyed.                                                              *)
TrackedLive == held.reactive \subseteq live
===============================================================================
