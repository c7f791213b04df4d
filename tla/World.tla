---------------------------------- MODULE World --------------------------------
(***************************************************************************)
(* What a registry promises its users: a set of living entities, at most   *)
(* one identifier for each, and for each type the living entities that     *)
(* own an element of it.  An entity that leaves takes all its elements     *)
(* along; one that enters owns none.                                       *)
(***************************************************************************)
CONSTANT Types

VARIABLES live, owners

Init ==
  /\ live = {}
  /\ owners = [t \in Types |-> {}]

Enter ==
  /\ UNCHANGED owners
  /\ live \subseteq live'
  /\ \A d, e \in live' : d.entity = e.entity => d = e

Leave ==
  /\ live' \subseteq live
  /\ owners' = [t \in Types |-> owners[t] \cap live']

Change ==
  /\ UNCHANGED live
  /\ \A t \in Types : owners'[t] \subseteq live

Next == Change \/ Enter \/ Leave

WorldSpec == Init /\ [][Next]_<<live, owners>>
===============================================================================
