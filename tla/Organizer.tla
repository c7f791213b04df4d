------------------------------- MODULE Organizer -------------------------------
(***************************************************************************)
(* The organizer (entity/organizer.hpp): functions become tasks of a flow  *)
(* builder from the types of their parameters.  The resource Whole         *)
(* stands for the registry as a whole: a task writes it if it takes the    *)
(* registry or nothing, and reads it otherwise.                            *)
(***************************************************************************)
EXTENDS Flow

CONSTANTS
  Whole,         (* type_hash of the registry, the resource of no type      *)
  MaxFunctions   (* bound of the model: functions                           *)

VARIABLE declared   (* what each function takes: ro, rw and sync_point      *)

vars == <<builder, calls, declared>>

(* Mutant: a function that takes nothing does not wait for the others.     *)
TrackNothing(b, task, sync, ro, rw) ==
  LET used == <<[res |-> Whole, rw |-> sync]>>
                \o [n \in DOMAIN ro |-> [res |-> ro[n], rw |-> FALSE]]
                \o [n \in DOMAIN rw |-> [res |-> rw[n], rw |-> TRUE]]
  IN  FoldLeft(LAMBDA f, u : Accessed(f, u.res, u.rw), Bound(b, task), used)

(* track_dependencies.                                                     *)
Track(b, task, sync, ro, rw) ==
  LET used == <<[res |-> Whole, rw |-> sync \/ ro \o rw = << >>]>>
                \o [n \in DOMAIN ro |-> [res |-> ro[n], rw |-> FALSE]]
                \o [n \in DOMAIN rw |-> [res |-> rw[n], rw |-> TRUE]]
  IN  FoldLeft(LAMBDA f, u : Accessed(f, u.res, u.rw), Bound(b, task), used)

(* emplace, in all its forms: a function without a signature to look at is *)
(* a sync point. A type may be both read and written.                      *)
Emplace(task, sync, ro, rw) ==
  /\ Nameable(task) /\ ~ Contains(builder.vertices, task)
  /\ Len(declared) < MaxFunctions
  /\ builder' = Track(builder, task, sync, SetToSeq(ro), SetToSeq(rw))
  /\ declared' = Append(declared, [sync |-> sync, ro |-> ro, rw |-> rw])
  /\ UNCHANGED calls

ClearAll == Clear /\ declared' = << >>

Init == FlowInit /\ declared = << >>

(* A builder belongs either to the program or to an organizer.             *)
Next ==
  \/ declared = << >> /\ FlowNext /\ UNCHANGED declared
  \/ /\ declared # << >> \/ builder = EmptyBuilder
     /\ \E task \in Tasks, sync \in BOOLEAN, ro, rw \in SUBSET Resources :
          Emplace(task, sync, ro, rw)
  \/ declared # << >> /\ ClearAll

Spec == Init /\ [][Next]_vars

-------------------------------------------------------------------------------
(* Properties. *)

(* Functions that must not run at the same time.                           *)
Exclusive(f, g) ==
  \/ f.sync \/ g.sync
  \/ f.ro \cup f.rw = {} \/ g.ro \cup g.rw = {}
  \/ f.rw \cap (g.ro \cup g.rw) # {} \/ g.rw \cap (f.ro \cup f.rw) # {}

(* Functions that write what another uses, or that take the registry or    *)
(* nothing, run in the order they were given, and no others wait for each  *)
(* other.                                                                  *)
FunctionsOrdered ==
  declared # << >> =>
    Reach(Graph(builder)) =
      Reach({<<p[1] - 1, p[2] - 1>> :
               p \in {q \in (DOMAIN declared) \X (DOMAIN declared) :
                        q[1] < q[2] /\ Exclusive(declared[q[1]], declared[q[2]])}})
===============================================================================
