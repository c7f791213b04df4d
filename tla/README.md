# EnTT, specified in TLA+

This directory holds a model of the parts of EnTT (`src/src/entt`) that keep
state and can get it wrong: modules, TLC configurations, and proofs. It is kept
beside the code; paths and line numbers below are those of this repository.

    tlc -workers 2 -config SparseSet.cfg MCSparseSet.tla
    tlapm EntityStorageProofs.tla

## 1. The system

EnTT is a header-only library. There are no threads and nothing is persisted;
what makes it hard is that a single-threaded program calls back: listeners,
processes, constructors and destructors run in the middle of an operation and
may call the same object again. The rest of the difficulty is in arrays that
must stay inverse to each other, positions that double as links of free lists,
and versions that wrap around.

| Component | State | Operations | What is hard | What makes it correct |
|---|---|---|---|---|
| Identifiers, `entity/entity.hpp` | none: an integer of an entity part and a version part | construct, combine, next, null, tombstone | truncation to the parts, the version that is skipped | every valid identifier survives a round trip, `next` never yields the tombstone |
| Sparse set, `entity/sparse_set.hpp` | paged `sparse`, `packed`, `mode`, `head` | push, erase, remove, bump, compact, swap, sort, sort_as, clear, shrink, free_list | three deletion policies over one pair of arrays; holes linked through the packed array; sort repairs the sparse array cycle by cycle | `sparse` and `packed` are inverse; `contains` answers what the caller did; the free list has every hole once |
| Component storage, `entity/storage.hpp:207` | the sparse set and `payload`, raw pages | emplace, insert, erase, clear, compact, sort, shrink | elements are constructed by hand, may throw, and may use the storage again | an identifier in the set has its own element, and nothing else is alive |
| Entity storage, `entity/storage.hpp:957` | a swap-only sparse set and `placeholder` | generate (alone, with a hint, a range), erase, bump, clear, start_from | recycling by version while hints claim entities out of order | no entity twice, no handle valid again before its versions are used up |
| Registry, `entity/registry.hpp` | a pool per type, the entity storage, groups | create, destroy, emplace, remove, clear, group | the order of listeners, pools and groups during destruction | pools only hold entities in use |
| Signals mixin, `entity/mixin.hpp` | three signals around a storage | the storage's, publishing construction, update and destruction | a listener may change the storage before the change it was told of happens | listeners see the element; the storage and the signals agree |
| Groups, `entity/group.hpp` | the length of the packed prefix, or a set of its own | push on construct, remove on destroy | several pools permuted together from callbacks | the first `len` elements of every owned pool are the same entities in the same order |
| Views, `entity/view.hpp`, runtime views | the pools it looks at, the leading one | iteration both ways, front, back, contains | elements added or removed while an iteration runs, holes and unused identifiers in the array that is walked | a view yields what it contains; a loop visits once every entity the view kept |
| Signals, `signal/sigh.hpp`, delegates | the list of delegates | connect, disconnect, publish, collect | a listener disconnects itself or others during publish | every listener that stays is called once |
| Dispatcher, `signal/dispatcher.hpp` | a queue and a signal per event type | enqueue, trigger, update, clear | a listener enqueues or triggers while the queue is published | no event is lost or published twice; a listener that stays is called |
| Emitter, `signal/emitter.hpp` | a handler per event type | on, erase, publish, clear | a handler erases itself, the emitter is moved | the handler of the type is called with the emitter |
| Scheduler, `process/*.hpp` | the processes and the state of each | attach, update, abort, clear; then, succeed, fail, pause | the loop swaps and pops while callbacks attach, end and abort | one tick per update, one notification, no execution afterwards |
| Dense map and set, `container/*.hpp` | buckets, and packed nodes chained by index | insert, erase, rehash, swap and pop | the erased node is replaced by the last one, which sits in another chain | each key is found, once |
| Flow, adjacency matrix, organizer, `graph/*.hpp`, `entity/organizer.hpp` | the accesses of each task | bind, ro, rw, sync, graph | edges from accesses, then a transitive reduction | tasks that conflict stay ordered, the graph has no cycle |
| Reactive mixin, `entity/mixin.hpp:392` | the entities it collected, its connections | on_construct, on_update, on_destroy, clear, reset | the collection is a pool itself, and is cleaned up before or after the pool it observes | it holds the entities it was told of, while they live |
| Snapshot and loaders, `entity/snapshot.hpp` | remapping of identifiers | get, entities, orphans | archives of different times; the local registry is used and recycled meanwhile | what is mapped mirrors the remote entities, and nothing else is touched |
| Resource cache, locator, handles, `any` | shared or owned values | load, erase, reset | reloading what is shared | the caller gets the last loaded value |
| Table, `container/table.hpp` | one vector per column | emplace, erase | columns that grow apart when one throws | columns have one length |
| Meta, poly, hashed strings, type information, `stl`, tools | type descriptions | resolution, invocation | templates, compile time | outside the reach of this model |

Interactions: a registry owns storages (mixed with signals), which derive from
sparse sets; the signals of a storage call groups, observers and user code;
views and groups read the packed arrays of several storages; dispatcher,
emitter and scheduler stand alone.

## 2. The modules

| Module | Models | State and actions |
|---|---|---|
| `EntityTraits` | identifiers as records of two bounded parts; `% (mask + 1)` is the masking of the code | operators only |
| `SparseSetOps` | `basic_sparse_set` as a record of `sparse`, `packed`, `mode`, `head` and the extent of the pages; every member function is an operator that returns the new record | operators only; loops are folds |
| `SparseSet` | one set and a caller that uses every mutating operation; `content` is what the caller put in | `Push`, `PushMany`, `EraseOne`, `EraseRange`, `RemoveMany`, `BumpOne`, `CompactAll`, `Swap`, `Sort`, `SortLike`, `Clear`, `FreeList`, `Shrink`, `MoveOut` |
| `SequenceFacts`, `SparseSetFacts` | the lemmas about sequences and folds, and about the operators of `SparseSetOps` | |
| `SparseSetProofs`, `EntityStorageProofs`, `SchedulerProofs`, `DispatcherProofs`, `CascadeProofs`, `GroupsProofs` | the theorems about the module of that name | |
| `IdPool` | abstract: the identifiers in use and, for each entity, the identifiers destroyed last | `Create`, `Claim`, `Renew`, `Skip`, `Destroy`, `Reset` |
| `EntityStorage` | `basic_storage<Entity, Entity>` over a swap-only set; refines `IdPool` | `Generate`, `GenerateHint`, `GenerateInstead`, `EraseOne`, `EraseEach`, `EraseUnused`, `BumpOne`, `StartFrom`, `Clear`, `MoveOut`, `Reload` |
| `Storage` | `basic_storage<Type>`: the set and the payload; `calls` holds constructors and destructors in progress | `Emplace`, `ConstructorReturns`, `ConstructorThrows`, `EraseOne`, `DestructorReturns`, `EraseRange`, `Clear`, `CompactAll`, `Swap`, `Sort`, `ShrinkAll`, `Reserve` |
| `World` | abstract: living entities and, for each type, those that own an element of it | `Enter`, `Leave`, `Change` |
| `Registry` | `basic_registry`: an entity storage and pools, each the sequence of its packed array; refines `World` | `Create`, `CreateHint`, `Destroy`, `DestroyVersion`, `DestroyRange`, `Clear`, `ClearType`, `Insert`, `RemoveType`, `RemoveRangeOf` |
| `Cascade` | destruction with listeners of `on_destroy` that remove other elements, destroy other entities and sort pools; `stack` holds the walks in progress | `Destroy`, `DestroyRange`, `Clear`, `ClearType`, `EraseOne`, `EraseRange`, `Sort`, `Create`, `Emplace`, the steps of the walks |
| `Groups` | pools with signals (`basic_sigh_mixin`), both `group_handler`s and a listener of the program; `stack` holds the publications and insertions in progress | `Emplace`, `Insert`, `InsertStep`, `PublishStep`, `Erase`, `Clear`, `Destroy`, `CreateOwning`, `CreateObserving`, `Connect`, `Sort`, `SortFree` and the returns |
| `Dispatcher` | `basic_dispatcher` over `sigh`; `stack` holds updates, deliveries and listeners in progress | `Connect`, `Disconnect*`, `Enqueue`, `Trigger`, `Clear*`, `Update`, `UpdateAll`, the loops (`UpdateStep`, `NextEvent`, `CallNext`, `CallStale`) and the returns |
| `Scheduler` | `basic_scheduler` and `basic_process`; `stack` holds the loops and callbacks in progress | `Attach`, `Then`, `Signal`, `Clear`, `Update*`, `Abort*`, returns of callbacks |
| `Reactive` | the reactive mixin over one pool, made in the registry before it or after it, or owned by the program | `Create`, `Emplace`, `Patch`, `RemoveElement`, `ClearPool`, `Destroy`, `Clear`, `Observe`, `Reset`, `Discard` |
| `Loader` | the continuous loader between a remote registry and a local one in use | `RemoteStep`, `LoadEntities`, `LoadElements`, `Orphans`, and what the program does locally: `CreateOwn`, `DestroyLocal`, `ToggleLocal` |
| `Views` | loops over a storage of any policy with another storage or a filter, whose body changes the storages | `Begin`, `Advance`, `Add`, `Change`, `Leave` |
| `Flow`, `Organizer` | the flow builder: accesses, edges, closure and reduction; the organizer that turns parameters of functions into accesses | `Bind`, `Use`, `Sync`, `Clear`; `Emplace`, `ClearAll` |
| `KeyMap` | abstract: a function from keys to values; `answer` records the call, its keys and value and what it returned, so that each step is that of one call | `Insert`, `InsertOrAssign`, `Erase`, `Clear`, `Arrange` |
| `DenseMap` | `dense_map`: buckets, nodes chained by position, load factor; refines `KeyMap` | `Insert`, `Emplace`, `InsertOrAssign`, `Erase`, `EraseSome`, `Clear`, `Reserve`, `MaxLoadFactor` |

`MC*` modules give the constants values that a `.cfg` cannot express. Four of
them also put components side by side that do not touch each other: the variable
`part` chooses, in the initial state, which one of them moves, and the others
stay in an initial state (`MCEntityStorage`: the storage of entities or `Views`;
`MCStorage`: a storage or `DenseMap`; `MCRegistry`: the registry, `Cascade` or
`Organizer`; `MCGroups`: groups, `Loader` or `Reactive`). TLC then explores the
sum of their state spaces, not the product, and a property of one part holds
trivially in the others.

How they compose. `SparseSetOps` is the one model of the two arrays: `SparseSet`,
`Storage` and `EntityStorage` apply its operators to a variable of theirs.
`EntityStorage` instantiates `IdPool` for its refinement and `DenseMap`
instantiates `KeyMap`; `Views` and `Loader` apply `SparseSetOps` too; `Registry`
instantiates `EntityStorage`, whose operators it applies to its own storage of
entities, and `World` for its refinement. A pool in `Registry`, `Cascade` and `Groups` is
only the order of its packed array. That is sound because `Bijective` and
`Faithful`, checked and proved for the operations on one element, say that
`index` and `contains` of a set are those of that sequence.

How calls that call back are modelled. `Storage`, `Groups`, `Cascade`,
`Dispatcher` and `Scheduler` keep a stack of the calls in progress. An operation that hands
control to user code is split there and nowhere else: the frame keeps the local
variables of the loop (a position, the rest of a batch), and what the code reads
again after the call is read again from the state. User code may then take any
action that the state of the stack permits. Where a call would be undefined
behaviour, or where the documentation forbids it, the guard of the action leaves
it out; section 6 lists all of them.

Mutants. Operators with the comment "Mutant" are plausible errors in one
definition (a missing reset, a swapped order). They are not part of any
specification: replacing the definition by its mutant makes the property named
beside it in `PROJECT.json` fail, which shows that the property can.

## 3. The runs

Each run ends within a few minutes on two workers.

| Run | Question | Bounds, and why they are enough |
|---|---|---|
| `sparse_set` | Do the operations of a set, under each policy, keep `sparse` and `packed` inverse (`Bijective`), answer `contains` for stale identifiers too (`Faithful`), thread exactly the holes on pages that are whole (`StructureWhole`) and leave in-place elements where they are (`InPlaceStable`)? | Four entities on three of the pages, one page between them unused; positions up to 5, which is more than the entities, so that in-place sets have holes in the middle and at the end, up to four on one list; two valid versions, so that they wrap around; ranges of up to two. Sorting takes every permutation |
| `entity_storage` | Is the storage an `IdPool` (`ImplementsPool`)? Does `placeholder` skip no entity (`NoEntityLost`)? Does a loaded snapshot behave as the storage it was taken from (`SnapshotExact`)? Does a view yield what it contains, from either end (`ViewExact`), and a loop with a body that changes the storages visit once each entity the view kept (`LoopExact`)? | Three entities, all used, so that `generate` must recycle; two versions beside the tombstone; batches of two that recycle one and create one. For the views: a leading storage of three, of each policy, with a hole or an unused identifier at either end or in the middle; loops of up to four |
| `storage` | Does each identifier keep its own, complete element (`ElementsAlive`)? Does memory without an identifier hold none (`NothingLeaks`)? Do in-place elements stay (`PointersStable`)? Is every node of a dense map on the chain of its bucket, within the load factor (`ChainsWhole`), does each call change the keys it was given, as a map would, and answer so (`ImplementsMap`), and do erasure of a range and erasure within a sweep take each key once (`ErasesExactly`)? | Four positions on two pages of payload; three constructors or destructors deep; constructors that emplace, constructors that throw, destructors that erase and, with swap and pop, emplace. Keys 0, 4 and 8 share a bucket of four and split when there are eight; 1 is the neighbour; two load factors |
| `storage_nested_throw` | finding 1 | the same, where a constructor may throw after it has emplaced |
| `registry` | Does every operation keep the elements within the living entities (`ImplementsWorld`)? Do `destroy` and `erase` of ranges, which permute the arrays they iterate, touch exactly what they name (`DestroysExactly`, `RemovesExactly`)? Is an entity, destroyed with whatever version, always in use or ready to be recycled (`NoneStranded`)? When listeners remove, destroy and sort in the middle of `destroy`, `erase` and `clear`, is each element published once, while it is there, and does none outlive its entity (`CascadeExact`)? Are conflicting tasks ordered, without a redundant edge (`GraphExact`), and functions that may not run at the same time too (`FunctionsOrdered`)? | Three entities, two valid versions, two pools, every order of two types, every range of positions: two entities in a range and one outside are what the swaps can confuse. `Cascade`: three entities and two pools, five calls deep, that is a removal below a destruction below a destruction. Three tasks and two resources, so that an edge can be implied by two others, and five accesses |
| `groups` | Are the owned pools permuted alike at every moment (`SamePrefix`)? Do both groups hold exactly the entities they ask for (`OwningExact`, `ObservingExact`)? Does `insert` publish the new elements in their order, each once, no other, and all by its end (`InsertTellsEach`)? Does the local registry mirror what was loaded (`Mirrors`), and is what the program made for itself left alone (`OwnUntouched`)? Does a reactive storage hold what it was told of and no dead entity (`TrackedExact`)? | Three entities, three pools: two owned, one excluded; the other group observes two in the opposite order and excludes one that the first owns. Groups are created before or after the pools fill. A listener emplaces and removes in the middle of a construction, nested twice. Two remote entities of two versions and one of the program's own, so that a counterpart can be destroyed, recycled and mapped again. Two entities of two versions for the reactive storage |
| `groups_foreign` | finding 2 | the same, where a listener of an insertion touches other entities of it |
| `dispatcher` | Is no event lost or published twice (`NoneLost`)? Does what waits of a type stay in order (`InOrder`)? Does `update` publish what was queued, and no more (`UpdateDelivers`)? Is no listener that stays skipped, and is each called once and within the vector unless one was disconnected before its turn (`EachOnce`)? | Two parts, kept apart by a constraint (`Within`). Events: two types with a listener each; three events of one type, so that two are in batches, or in a batch and the queue, while one is published, and two of the other. Signals: three listeners of one type, which is what a swap during a publication needs (one called, one that goes, one that moves), two of them of one instance; two events in the queue, any number triggered, no `update()` of all types. No call is made below the fourth: an update below a listener of an update, or two publications nested in one another and what a listener of the inner one does |
| `scheduler` | Is each process ticked once per update (`OneTickEach`), told once how it ended (`NotifiedOnce`), never executed again (`NeverAgain`), and do children only follow success (`ChildrenOfSuccess`)? Do processes that ended leave (`EndedLeaves`), and does every scheduled process run (`ScheduledRuns`)? | Three processes, so that one is removed, one swapped and one attached or a child in one update; four calls deep; no symmetry, because of the liveness properties |
| `view_back` | finding 3 | those of `entity_storage` |
| `flow_rebind` | finding 4 | two tasks, one resource, three calls |
| `reactive_dead` | finding 5 | two entities of two versions |

A run of a "finding" checks one property that the program violates. The others
pass. Some properties are conjunctions: `TypeOK` is a conjunct of `NoEntityLost`,
`OneTickEach`, `NothingLeaks`, `SamePrefix` and `EachOnce`; `StructureWhole` is
`FreeListExact` and `PagesWhole`; `CascadeExact` is `ToldOnce` and `NoneOutlives`;
`GraphExact` is `OrdersConflicts` and `NoRedundantEdge`.

Bounds that are constants of the modules: `MaxSize` and `MaxKnown` limit the
size of a set, `MaxRange` and `MaxBatch` the length of a range, `MaxDepth` and
`MaxNesting` the calls in progress, `MaxEvents` the events of a type, `MaxVisits`
the length of a loop, `MaxCalls` and `MaxFunctions` what a flow builder is told,
`MaxRemote` and `MaxVersion` the versions, `MaxLocal` and `MaxOwn` the local entities. Calls that would exceed
them are not made; returns are always possible. Symmetry is used where only
safety is checked, over values that the modules treat alike.

Fairness. Only `Scheduler` has liveness properties. The loops of the scheduler
are code that runs on by itself: weak fairness. `SF_vars(Returns)` says that a
callback returns after finitely many calls: between its calls the callback can
always return, but a call it makes (`abort(true)`) puts another frame on top, so
weak fairness would not be enough. `SF_vars(Update)` says that the program calls
`update` again and again, which `docs/md/process.md:201` names as the way to
update the processes; `Update` is disabled while another call runs. Nothing is assumed of `attach`, `then`, the
signals and `clear`.

Deadlock is checked in all runs: the caller can always make another call.

## 4. What is proved

Eight modules hold theorems, all checked by `tlapm` to the last leaf. None of the
theorems bounds the number of entities, processes, listeners, events, pools or
nested calls: they hold for every value of the constants that the assumptions
named in the modules admit.

| Theorem | Says |
|---|---|
| `SetTypeOK`, `SetBijective`, `SetFaithful`, `SetInPlaceStable`, `SetStructureWhole` (`SparseSetProofs`) | under every operation, on elements, ranges or the whole set, `compact` and the sorts included, the two arrays stay inverse, `contains` answers what the caller was promised, no step that adds or removes moves an element of an in-place set, the free list visits every hole once and ends, and the pages of the sparse array are whole |
| `EntityImplementsPool`, `EntityNoEntityLost`, `EntitySnapshotExact` (`EntityStorageProofs`) | the storage of entities refines `IdPool`; `next()` loses no entity; a snapshot loads into a storage that answers and recycles as the original |
| `SchedulerOneTickEach`, `SchedulerNotifiedOnce`, `SchedulerChildrenOfSuccess`, `SchedulerNeverAgain` (`SchedulerProofs`) | one tick a process and update, one notification, children only after success, and, of every step, no execution after the end |
| `DispatcherEachOnce`, `DispatcherNoneLost`, `DispatcherInOrder`, `DispatcherUpdateDelivers` (`DispatcherProofs`) | an event reaches every listener that was connected when it came and stayed, once unless one was disconnected before its turn; no event is lost or published twice; what waits stays in order; `update` publishes what was queued |
| `CascadeIsExact` (`CascadeProofs`) | a listener of destruction is told of each element once, while it is there, and no element outlives its entity; it is `CascadeExact`, which the run `registry` checks under the same name in `MCRegistry` |
| `GroupsSamePrefix`, `GroupsOwningExact`, `GroupsObservingExact`, `GroupsInsertTellsEach` (`GroupsProofs`) | the owned pools begin with the same entities; both groups have exactly their entities, but for what is still being published; an insertion tells of its new elements in order, each once, and of all by its end |

`SparseSetFacts` has what the operators of `SparseSetOps` write, preserve and
answer; `SparseSetProofs` and `EntityStorageProofs` rest on it. `SequenceFacts`
has what all of them need about sequences: a stack of calls, a vector that is
appended to, erased from or swapped and popped, and the steps of a fold.

Assumptions. Those of the modules: masks and page sizes are positive, bounds are
natural numbers, `None` is no process, each listener listens to one type, the
pools of a group are pools. Three are hypotheses of theorems: `PoolCount \in Nat` in `CascadeIsExact`, because
`Cascade` is instantiated and not extended by its run and so declares no
assumption; and `MaxSize <= EntityMask` in the theorems about a set of any
policy, a position fits the entity part of an identifier. The second one is not
decoration: the first observation of section 5 is what happens without it. The
storage of entities does not need it, because its set is swap-only and cannot
have more positions than entities (lemma `RoomLeft`). The third is `~ Foreign` in the
last three theorems of `GroupsProofs`: a listener that is called by an insertion
emplaces on, and removes from, the entity it is called for and no other. Without
it they are false: finding 2. `GroupsSamePrefix` does not need it.

### The sparse set

The theorems are about `Spec`, every operation of the set with every policy.
First come the steps of `ElementNext`, on one element or on the whole set
(`Emplace` with either `force_back`, `EraseOne`, `BumpOne`, `Swap`, `Clear`,
`FreeList`, `Shrink`, `MoveOut`). `Bijective` is not inductive: with the
in-place policy `erase` stores a link of the free list where an entity was, and
the next `emplace` writes the position it reads there. `Sound` therefore says
that both arrays are typed, every element of `packed` that is not a tombstone is
found at its position through `sparse` and conversely, what `sparse` has for no
element is the null identifier as a whole (`NullWhole`, without which an entity
that was never there could seem to have a version), and the head and the links of
the free list lead to tombstones, no two of them to the same. `Inv` adds that the
elements in use are `content`. `InPlaceStable`, a property of steps, follows from
`Sound` of both states: an element that is in use after a step is found where
`sparse` says, so it is enough that no step overwrites a used position of `packed`
(`StayIs`). The lemmas come in three layers: `...Facts` (what
an operator writes), `...Sound` (that it preserves `Sound`), `...Use` (what it
does to the elements in use).

`Sound` is not enough for `StructureWhole`: that no two links lead to the same
hole allows a ring of holes that the head never reaches. `Structured` adds to `Inv`
that an in-place set is `Threaded`, there is a path from the head that visits
every hole once, each entry the link of the one before, the null entity at the end,
and `Paged`: the pages are allocated as a whole and the vector of pages is as
long as the last one asks for. `erase` puts the new hole before the path
(`LinkThread`), emplacing in place takes its first hole off (`UnlinkThread`), no other
operation on one element touches it (`SameThread`). The property speaks of
`FreePositions`, which follows the links by recursion and gives up after one more
step than there are positions; `WalkIs` shows that it is the path, by induction over
the steps still allowed, and a path without repetition is not longer than the set.

The rest of `Next` are loops. `Whole` is `Sound`, `Threaded` and `Paged` together,
and `IsRun` the states a loop passes through, which `LoopRuns` finds behind the
fold for any of them (`SetStep`).

- `push` of a range, `erase` and `remove` of a range pass through whole sets only.
  What has to be shown is that a turn leaves alone what the later turns need:
  `FreeToPlace`, an identifier that could be emplaced before another one was still
  can; `EraseBelow`, an erasure from behind moves nothing below; `EraseContains`, no
  identifier of the range begins to be contained. `PushedAll` and `Taken` also say
  that in place nothing has moved.
- `sort_as` exchanges elements in use (`Rearranged`), and the position it has come
  to stays a used one.
- `sort_n` is not `Sound` in between: the packed array is in its new order while
  the sparse array has the old one. `Repairing` says that the sparse array knows
  the entities of the first `length` positions each at one of these, with the right version, and has everything
  else right. A turn of the inner loop finds one more entity where it now is and
  none less (`FollowStep`), the first turn of a cycle finds the position the cycle begins
  at, unless it was found already (`CycleFinds`), so in the end all are found
  (`SortRunFinds`). That the walk closes its cycle and stops is not needed.
- `compact` is not `Sound` either: copies stay behind the elements, and the head is
  already null. `Compacting` says that before position `from` there are the elements of
  the set, each once and found there, and holes that the rest of the path visits.
  A turn drops the next hole (`SkipHole`) or fills it with the last element
  (`FillHole`), the links of the holes to come are never overwritten, and a path
  no longer than the set (`ThreadShort`) is used up when the loop ends.

### The storage of entities

`Inv` is `Good` (the set is `Sound`, swap-only, and holds valid identifiers),
`Covered` (every entity from the start up to `placeholder` is known to the set)
and `Remembers`: the identifiers of an entity that were destroyed last are
exactly the versions that come before the one the set holds for it. That is what
makes the refinement go through: a recycled identifier has the version after
those that are remembered, and as fewer are remembered than there are versions
it is none of them (`NotRecalled`), wrap-around included. Every action keeps
`Inv` and is a step of the pool, or none that the pool sees: `generate`, alone or
for a range, is `Create`; a hint is `Claim`; erasing one identifier or the range
of `each()` is `Destroy`; erasing an identifier that is not in use is `Skip`;
`bump` is `Renew`; `clear` and a move are `Reset`; `start_from` and a snapshot
stutter.

Loops over ranges are folds here too, and the fold of the community modules is a
`CHOOSE` of a recursive function over the sets of positions. `StepsExist` shows
that such a function exists, and `StepsChain` that its values on the first
positions are the steps of the loop, one after the other; the rest is an induction over
the positions (`CountUp`, which is proved with a set of natural numbers in place
of the operator that the induction rule of the library takes).

### Calls that call back

`SchedulerProofs`, `DispatcherProofs` and `CascadeProofs` argue alike. `Inv` says of every call on the
stack what it may rely on when the call above it returns, in terms of the
variables the code reads again then; one lemma for each action shows that the
call on top keeps this for itself and for those below.

- `SchedulerProofs`: `Frames` and `Telling` say which calls can be where, and that
  a notification is on top, of the state its process is still in. `Notified`
  relates what a process was told to its state. `Families` is what
  `ChildrenOfSuccess` needs to be inductive: a child has one parent, which has
  left the vector before the child enters it. `Cursor` is `OneTickEach` as the
  loop sees it: the processes before the position are those still due, whatever
  was swapped and popped.
- `DispatcherProofs`: `Framed` says that the listeners a delivery owes a call
  have positions not after its own, although listeners that disconnect move
  others (`Kept`: who moves, moves forward), and that they are the only ones
  there unless one of them was disconnected (`FirstOwed`); that its events are
  older than what is queued; and for an `update` which types it still has to visit. `Older` orders the batches of
  deliveries that nest. `Placed` says that no event is nowhere.
- `CascadeProofs`: `Whole` says that a removal in progress holds only what its
  pool still has, `Apart` that no two calls are removing one element, and
  `Cleared` that a destruction which a listener begins has nothing to remove that
  an outer call is removing, nor from a pool that an outer call walks. `Walked` says what a walk over the pools has left
  behind, for each kind of walk: it is why a `destroy` whose listeners destroy
  and sort still leaves nothing. `Told` is `ToldOnce` without reference to the
  past.

### Groups

`GroupsProofs` is about two groups with listeners on the same pools, which
permute owned pools from within one another's callbacks. `Inv` has two parts.
`Listening` says who is connected: a group, once created, to each of its pools
once, and to no other. `Good` says of the registry that the owned pools are
aligned and without repetition (`Placed`), that a group that does not exist is
empty (`Absent`), and that the calls in progress are well formed (`Stacked`);
without `Foreign`, also `Exact` and `Inserting`.

- `OwningExact` is not inductive: it excepts the entities that are being
  published, and says nothing about them. `Exact` does: a group is right about
  every entity but for what some call on the stack will still tell it (`Fits`,
  `Waits`). An excluded entity may be in a group only while a listener that takes
  it out is due, a complete one may be missing only while a listener that puts it
  in is due. Each listener that is called makes its group right for one entity
  (`Told`), whatever the other group did before, so that the order in which
  listeners were connected does not matter.
- Listeners of a destruction are called while the element is there. `PoppingFits`
  shows that, once all have been called and the element has gone, both groups are
  right again; `DestroySettled` and `PopAllSettled` do so for the pools one after
  the other, and for the elements of a pool from the back.
- `InsertTellsEach` needs that nothing moves at the positions that the loop has
  still to visit. A listener exchanges elements only at, or before, the entity it
  was called for or the end of the group (`Kept`); with `~ Foreign` that entity is
  at a position the loop has passed, and so is the end of the group (`Inserting`).
  So `Calm`: the loop notices nothing. The property itself speaks of what was
  published; `InOrder` adds that the positions to come hold the rest of the range.
- All loops here are folds, and one lemma treats them: `StepsExist` gives the
  function behind the fold, over any of the loops (`Turn`), and `StepsRun` its
  values one after the other. What each loop achieves is then an induction over
  its positions.

### What is only model-checked

- Liveness (`EndedLeaves`, `ScheduledRuns`): fairness and `ENABLED` are beyond
  the prover.
- `ImplementsWorld`, `DestroysExactly` and `RemovesExactly` of `Registry`: the
  order that `sort_as` leaves behind decides what is erased, and the theorems
  about it say which elements a set has, not in which order.
- `Storage` (with the action property `PointersStable`), `Reactive`, `Loader`,
  `Views`: their invariants are stated and checked; their proofs are not written. `Views` and `Loader` would need the
  storages of any policy behind them.
- `Flow`, `Organizer`, `DenseMap` (with `ImplementsMap`): closures of graphs and chains of buckets,
  computed by recursion over data.

## 5. Findings

1. `storage_nested_throw`: `emplace_element` (`storage.hpp:251`) undoes a failed
   construction with the `pop` of the sparse set. If the constructor had
   emplaced another element, the set moves that one into the free position but
   the payload does not.
2. `groups_foreign`: `insert` of the signals mixin (`mixin.hpp:374`) publishes by
   position. A listener that gives an element to another entity of the same
   insertion makes an owning group swap that entity forward: one entity is
   published twice and another never.
3. `view_back`: `back()` of a view with a filter (`view.hpp:352`) does not look
   for tombstones and may answer one.
4. `flow_rebind`: `bind` of a task that is there already (`flow.hpp:242`) moves
   the sync point past the last task, and `graph()` writes outside of the matrix.
5. `reactive_dead`: a reactive storage that the registry made after the pool it
   observes for destructions is cleaned up before that pool publishes, and keeps
   the dead entity (`registry.hpp:505`, `mixin.hpp:407`).

All but the second were also seen in a program compiled against the headers.

Seen while modelling, without a run of their own (see the hazards in
`PROJECT.json`):

- insertion of a range into an in-place set (`sparse_set.hpp:323`) never reuses
  holes. The packed array grows until a position does not fit the entity part,
  `combine` truncates it, and `contains` denies an element just inserted. With
  `EntityMask = 3` in `SparseSet.cfg`, below `MaxSize`, TLC finds `Faithful`
  violated;
- `abort(true)` (`scheduler.hpp:211`) executes the processes that have not
  started yet, which its comment excludes;
- `destroy` of a range that names an entity twice destroys an unrelated one
  (`registry.hpp:540`; set `Repeated = TRUE` in `Registry.cfg` to see
  `DestroysExactly` fail);
- a listener below `dispatcher.update()` that uses a type the dispatcher has not
  met inserts into the map that is being iterated (`dispatcher.hpp:380`);
- a listener that disconnects itself in a nested publication, before an outer one
  has come to it, makes the outer loop call another listener a second time, or
  read past the end of the vector (`sigh.hpp:174`, `sigh.hpp:379`): with
  `[a, b, c]`, `c` triggers again and `b` goes in the nested call. The model has
  it (`CallStale`); `EachOnce` says what remains true then;
- assignment to a `scoped_connection` does not release the connection it holds
  (`sigh.hpp:307`); moving a reactive storage takes over the connections, or only
  the elements, but the signals go on calling the old object (`mixin.hpp:487`);
- after an emitter was moved, its handlers are called with the emitter they were
  registered on (`emitter.hpp:138`), where the comment at `emitter.hpp:28` says
  that an emitter passes a reference to itself;
- a sync point of a flow builder orders nothing that was forgotten before it: one
  made after another, before any resource is used, replaces it (the liberty
  `"resync"` of `Flow`);
- the continuous loader forgets the counterpart of an identifier that comes back
  with another version, if its destruction was not loaded in between: the
  counterpart stays alive with its elements and `orphans` sees it only if it has
  none (`snapshot.hpp:313`).

## 6. What is not modelled

Calls left out of the modelled components, because they are undefined behaviour
or never return:

- `Scheduler`: `update` in a callback of `update`; `clear` in a callback; `attach`
  below `abort(true)`; `abort(true)` from a notification.
- `Storage`: a destructor of an in-place storage that emplaces; a constructor of
  a swap-and-pop storage that erases; constructors and destructors that use the
  storage in the middle of `clear`, range erasure, `compact` or `sort`.
- `Groups`: listeners of destruction that assign or remove elements, listeners of
  construction that remove from the pool that notifies: `docs/md/entity.md`
  rules them out. Listeners of destruction that remove are in `Cascade`, for
  tests make them (`SignalWhenDestroying`, `SelfSignal` and
  `ScramblingPoolsIsAllowed` in `test/entt/entity/registry.cpp`).
- `Cascade`: a listener touches no pool that is walked by `clear` or by an erasure
  of several, erases no element that is being erased, destroys nothing while a
  range is destroyed, and assigns nothing.
- `Dispatcher`: below `update()` a listener uses types the dispatcher knows.
  Listeners may connect and disconnect anyone at any time; a call beyond the end
  of the vector calls some listener of the type (`CallStale`), where the code
  has undefined behaviour and could do anything.
- `Registry`: ranges that repeat an entity; listeners (they are in `Groups` and
  `Cascade`).
- `Views`: bodies that destroy or remove what `docs/md/entity.md` forbids to touch
  in a loop.
- `Flow`: binding a task again, and sync points after one another, in the passing
  run (`Liberties`).

Components without a module, with the reason, are in `PROJECT.json`: templates
and compile-time tables (meta, poly, hashed strings, type information, `stl`),
thin handles on something modelled (emitter, connections, resource cache,
locator, handles), values with one owner (any, table, memory utilities), a debug
interface (tools). Values of elements, allocators, iterators as objects, `const`
access and moves of whole containers that only rename them are abstracted away
everywhere; exceptions are modelled where constructors of elements throw.

`src/single_include/entt/entt.hpp`, 116 037 lines, is generated from
`src/src/entt`: it repeats every line that is mapped here and is not mapped a
second time. It is four fifths of the lines of the repository's headers, so the
share of all lines that the map covers stays small. Of the other 25 000 lines or
so the map names about one in ten; most of the rest are the templates listed
above, comments and declarations.

## 7. Plan

What remains is to prove more of what the runs check, in this order:

1. `ElementsAlive` and `NothingLeaks` of `Storage`, over the facts of
   `SparseSetFacts`: the frames on the stack account for the elements that are
   constructed and destroyed at the moment.
2. `TrackedExact` of `Reactive` and `OwnUntouched` of `Loader`, which are few
   actions over sets.
3. `ImplementsWorld` of `Registry`, over `EntityStorageProofs` and `SparseSetProofs`.

Modules that only a part of a run instantiates have no assumptions on their
constants; their theorems state what they need as hypotheses. Left to TLC:
liveness, `Flow` and `DenseMap`.
