--------------------------------- MODULE Flow ----------------------------------
(***************************************************************************)
(* The flow builder (graph/flow.hpp): tasks are bound one after the other, *)
(* each names the resources it reads or writes, and graph() turns the      *)
(* queues of accesses into a graph of tasks.  An adjacency matrix is the   *)
(* set of its edges.  Positions of tasks start at 0, as in the code.       *)
(***************************************************************************)
EXTENDS Naturals, Sequences, FiniteSets, SequencesExt, TLC

CONSTANTS
  Tasks,       (* identifiers of tasks, numbered in the order in which they *)
               (* are bound first: only that order matters                  *)
  Resources,   (* identifiers of resources                                  *)
  Liberties,   (* "rebind": the program binds a task it already bound;       *)
               (* "resync": it makes a sync point after another one before  *)
               (* any resource is used                                      *)
  MaxCalls     (* bound of the model: accesses and sync points              *)

VARIABLES
  builder,   (* the builder                                                 *)
  calls      (* the accesses and sync points so far, in order: what the     *)
             (* program asked for                                           *)

flowVars == <<builder, calls>>

(* deps: the queue of accesses of each resource that was used. sync_on is  *)
(* the last sync point, or the number of tasks when there is none.         *)
EmptyBuilder == [vertices |-> << >>, index |-> 0, deps |-> << >>, sync_on |-> 0]

Count(b) == Len(b.vertices)

Access(task, rw) == [task |-> task, rw |-> rw]

Bound(b, task) ==
  LET vertices == IF Contains(b.vertices, task) THEN b.vertices
                                                ELSE Append(b.vertices, task)
  IN  [b EXCEPT !.vertices = vertices,
                !.index    = (CHOOSE n \in DOMAIN vertices : vertices[n] = task) - 1,
                !.sync_on  = IF @ = Count(b) THEN @ + 1 ELSE @]

(* Mutant: a resource used for the first time ignores the sync point.      *)
AccessedAnew(b, res, rw) ==
  [b EXCEPT !.deps = (res :> Append(IF res \in DOMAIN @ THEN @[res] ELSE << >>,
                                    Access(b.index, rw))) @@ @]

(* emplace: the last sync point writes every resource used after it.       *)
Accessed(b, res, rw) ==
  LET queue == IF res \in DOMAIN b.deps      THEN b.deps[res]
               ELSE IF b.sync_on # Count(b)  THEN <<Access(b.sync_on, TRUE)>>
               ELSE << >>
  IN  [b EXCEPT !.deps = (res :> Append(queue, Access(b.index, rw))) @@ @]

(* sync: the task writes every resource used so far.                       *)
Synced(b) ==
  [b EXCEPT !.sync_on = b.index,
            !.deps    = [res \in DOMAIN @ |-> Append(@[res], Access(b.index, TRUE))]]

-------------------------------------------------------------------------------
(* graph().                                                                *)

Vertices(b) == 0 .. Count(b) - 1

(* setup_graph for one resource: a write is followed by the next write, or *)
(* by the reads up to it, which come before it.                            *)
Linked(queue, m, n) ==
  /\ m < n
  /\ queue[m].rw \/ queue[n].rw
  /\ \A k \in m + 1 .. n - 1 : ~ queue[k].rw
  /\ queue[m].rw /\ queue[n].rw => n = m + 1

Links(queue) ==
  {<<queue[p[1]].task, queue[p[2]].task>> :
     p \in {q \in (DOMAIN queue) \X (DOMAIN queue) : Linked(queue, q[1], q[2])}}

SetupGraph(b) == UNION {Links(b.deps[res]) : res \in DOMAIN b.deps}

(* The edges that a vertex bridges.                                        *)
Through(edges, v) ==
  {e[1] : e \in {e \in edges : e[2] = v}} \X {e[2] : e \in {e \in edges : e[1] = v}}

Positions(size) == [n \in 1 .. size |-> n - 1]

TransitiveClosure(edges, size) ==
  FoldLeft(LAMBDA es, vk : es \cup Through(es, vk), edges, Positions(size))

TransitiveReduction(edges, size) ==
  FoldLeft(LAMBDA es, vj : es \ Through(es, vj),
           {e \in edges : e[1] # e[2]}, Positions(size))

Graph(b) ==
  TransitiveReduction(TransitiveClosure(SetupGraph(b), Count(b)), Count(b))

-------------------------------------------------------------------------------
FlowInit == builder = EmptyBuilder /\ calls = << >>

Nameable(task) == \A other \in Tasks : other < task => Contains(builder.vertices, other)

(* A task is bound only once unless the program takes that liberty.        *)
Bind(task) ==
  /\ Nameable(task)
  /\ Contains(builder.vertices, task) => "rebind" \in Liberties
  /\ builder' = Bound(builder, task)
  /\ UNCHANGED calls

(* ro, rw and set.                                                         *)
Use(res, rw) ==
  /\ builder.vertices # << >>
  /\ builder' = Accessed(builder, res, rw)
  /\ calls' = Append(calls, [task |-> builder.index, kind |-> IF rw THEN "rw" ELSE "ro",
                             res |-> res])

Sync ==
  /\ builder.vertices # << >>
  /\ builder.deps = << >> /\ calls # << >> => "resync" \in Liberties
  /\ builder' = Synced(builder)
  /\ calls' = Append(calls, [task |-> builder.index, kind |-> "sync"])

Clear == builder' = EmptyBuilder /\ calls' = << >>

FlowNext ==
  \/ \E task \in Tasks : Bind(task)
  \/ Len(calls) < MaxCalls /\ \E res \in Resources, rw \in BOOLEAN : Use(res, rw)
  \/ Len(calls) < MaxCalls /\ Sync
  \/ Clear

FlowSpec == FlowInit /\ [][FlowNext]_flowVars

-------------------------------------------------------------------------------
(* Properties. *)

(* Two calls whose order matters: one of them is a sync point, or they use *)
(* the same resource and one of them writes it.                            *)
Conflict(c, d) ==
  \/ c.kind = "sync" \/ d.kind = "sync"
  \/ c.res = d.res /\ (c.kind = "rw" \/ d.kind = "rw")

Precedence ==
  {<<calls[p[1]].task, calls[p[2]].task>> :
     p \in {q \in (DOMAIN calls) \X (DOMAIN calls) :
              q[1] < q[2] /\ Conflict(calls[q[1]], calls[q[2]])}}

(* What a relation leads to in any number of steps.                        *)
Reach(edges) ==
  LET V == {e[1] : e \in edges} \cup {e[2] : e \in edges}
      steps[n \in 0 .. Cardinality(V)] ==
        IF n = 0 THEN edges
        ELSE steps[n - 1] \cup UNION {Through(steps[n - 1], v) : v \in V}
  IN  steps[Cardinality(V)]

(* Only calls of different tasks count: a task is never ordered against    *)
(* itself.                                                                 *)
Proper(edges) == {e \in edges : e[1] # e[2]}

(* Each entry of a queue names a bound task ("Invalid node").              *)
ValidNodes ==
  \A res \in DOMAIN builder.deps : \A n \in DOMAIN builder.deps[res] :
    builder.deps[res][n].task \in Vertices(builder)

(* The graph orders two tasks, directly or not, exactly if a chain of      *)
(* conflicting calls does, sync points included: neither are tasks that    *)
(* conflict left to run at once, nor are others kept from it. It has no    *)
(* cycle either, as calls are ordered.                                     *)
OrdersConflicts ==
  calls # << >> /\ "rebind" \notin Liberties =>
    Reach(Graph(builder)) = Reach(Proper(Precedence))

(* The graph has no edge that its other edges imply.                       *)
NoRedundantEdge ==
  LET g == Graph(builder)
  IN  "rebind" \notin Liberties => \A e \in g : e \notin Reach(g \ {e})

(* The closure and the reduction, which work in place, leave the smallest  *)
(* graph that orders the conflicts.                                        *)
GraphExact == OrdersConflicts /\ NoRedundantEdge
===============================================================================
