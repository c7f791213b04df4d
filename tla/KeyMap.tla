-------------------------------- MODULE KeyMap ---------------------------------
(***************************************************************************)
(* What an associative container promises: a function from keys to values  *)
(* that each call changes at the keys it names and nowhere else, and for   *)
(* each call whether it inserted or removed an element.                    *)
(***************************************************************************)
EXTENDS Naturals, TLC

CONSTANTS Keys, Values

VARIABLES
  content,   (* the value of each key                                       *)
  answer     (* the last call, its arguments and what it returned           *)

Known == DOMAIN content

Init == content = << >> /\ answer = [call |-> "none"]

(* insert, emplace, try_emplace and operator[]: the first value stays.     *)
Insert(key, value) ==
  /\ answer' = [call |-> "insert", key |-> key, value |-> value, done |-> key \notin Known]
  /\ content' = content @@ (key :> value)

InsertOrAssign(key, value) ==
  /\ answer' = [call |-> "assign", key |-> key, value |-> value, done |-> key \notin Known]
  /\ content' = (key :> value) @@ content

Erase(keys) ==
  /\ answer' = [call |-> "erase", keys |-> keys, done |-> keys \cap Known # {}]
  /\ content' = [key \in Known \ keys |-> content[key]]

Clear == content' = << >> /\ answer' = [call |-> "clear"]

(* Calls that have to do with the buckets only.                            *)
Arrange == UNCHANGED content /\ answer' = [call |-> "rehash"]

Next ==
  \/ \E key \in Keys, value \in Values : Insert(key, value) \/ InsertOrAssign(key, value)
  \/ \E keys \in SUBSET Keys : Erase(keys)
  \/ Clear
  \/ Arrange

Spec == Init /\ [][Next]_<<content, answer>>
===============================================================================
