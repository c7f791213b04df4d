----------------------------- MODULE MCDispatcher -----------------------------
(* Model checking of Dispatcher, in two parts.  Events: one listener of    *)
(* each of two types, with several events.  Signals: three listeners of    *)
(* one type with one event.  An instance owns one listener, another the    *)
(* others.                                                                 *)
EXTENDS Dispatcher, TLC

CONSTANTS
  ping, pong, ping1, ping2, ping3, pong1, inst1, inst2,
  pings, pongs,     (* bounds of the model: the events of each type         *)
  SignalsSent       (* bound of the model: events of the second part        *)

VARIABLE part

EventOf == [l \in Listeners |-> IF l = pong1 THEN pong ELSE ping]
Limits  == [t \in Types |-> IF t = ping THEN pings ELSE pongs]
Owners  == [l \in Listeners |-> IF l = ping3 THEN inst1 ELSE inst2]

Symmetry == Permutations({ping1, ping2})

(* What a part is about: the constraint of the run.                        *)
Within ==
  \/ /\ part = "events"
     /\ \A t \in Types : ToSet(calls[t]) \subseteq {ping3, pong1}
  \/ /\ part = "signals" /\ ToSet(pools) \subseteq {ping}
     /\ sent[ping] <= SignalsSent /\ Frames("update") = {}

MCInit == Init /\ part \in {"events", "signals"}
MCNext == Next /\ UNCHANGED part
MCSpec == MCInit /\ [][MCNext]_<<vars, part>>
===============================================================================
