------------------------------- MODULE Dispatcher ------------------------------
(***************************************************************************)
(* The event dispatcher (signal/dispatcher.hpp) over signals               *)
(* (signal/sigh.hpp).  Each type of event has a signal, the vector of its  *)
(* listeners, and a queue.  Listeners are user code that may call the      *)
(* dispatcher again; stack holds the calls in progress:                    *)
(*   update   the loop of update() over the pools left                     *)
(*   deliver  publish of a queue, moved to batch, or trigger: next is the  *)
(*            position of the next listener to call for the current event; *)
(*            history: owed has the listeners that were connected when it  *)
(*            came, not called yet and not disconnected since; disturbed   *)
(*            tells that a listener was disconnected before its turn       *)
(*   user     a listener, called by the deliver below it                   *)
(* The events of a queue are numbered as they are enqueued.                *)
(***************************************************************************)
EXTENDS Naturals, Sequences, SequencesExt, FiniteSetsExt, Functions

CONSTANTS
  Types,       (* the types of events, or the names of queues              *)
  Listeners,   (* delegates: functions with their payload or instance      *)
  Event,       (* delegate -> the type of its argument                     *)
  Owner,       (* delegate -> its payload or instance                      *)
  MaxEvents,   (* bound of the model: type -> most events enqueued         *)
  MaxDepth     (* bound of the model: most calls in progress               *)

ASSUME DispatcherAssumption ==
  /\ Event \in [Listeners -> Types] /\ DOMAIN Owner = Listeners
  /\ MaxEvents \in [Types -> Nat] /\ MaxDepth \in Nat

VARIABLES
  pools,   (* the types with a handler, in order of creation               *)
  calls,   (* type -> its listeners, in order of connection                *)
  queue,   (* type -> the events that wait                                 *)
  stack,   (* the calls in progress, the innermost last                    *)
  sent,    (* history: type -> events enqueued so far                      *)
  gone     (* history: type -> events published or discarded               *)

vars == <<pools, calls, queue, stack, sent, gone>>

Top      == Last(stack)
Returned == Front(stack)

Frames(kind) == {k \in DOMAIN stack : stack[k].kind = kind}
Deliveries(t) == {k \in Frames("deliver") : stack[k].type = t}

Known(t) == t \in ToSet(pools)

(* assure creates the handler of a type at its first use.                  *)
Assure(t) == pools' = IF Known(t) THEN pools ELSE Append(pools, t)

(* update() iterates the map of handlers: the listeners it calls use types *)
(* that have one, for a new handler invalidates its iterators.             *)
MayUse(t) == Known(t) \/ Frames("update") = {}

-------------------------------------------------------------------------------
(* Signals.                                                                *)

(* disconnect_if: from the back, the last listener replaces the one that   *)
(* goes.                                                                   *)
DisconnectIf(seq, which) ==
  FoldLeft(LAMBDA s, pos : IF s[pos] \in which
                           THEN Front([s EXCEPT ![pos] = Last(s)]) ELSE s,
           seq, Reverse([k \in DOMAIN seq |-> k]))

(* connect disconnects the same delegate first.                            *)
ConnectTo(seq, l) == Append(DisconnectIf(seq, {l}), l)

(* What a delivery remembers when listeners go.                            *)
Departing(f, which) ==
  IF f.kind # "deliver" THEN f
  ELSE [f EXCEPT !.owed = @ \ which,
                 !.disturbed = @ \/ f.owed \cap which # {}]

Departed(which) == [k \in DOMAIN stack |-> Departing(stack[k], which)]

-------------------------------------------------------------------------------
Init ==
  /\ pools = << >>
  /\ calls = [t \in Types |-> << >>]
  /\ queue = [t \in Types |-> << >>]
  /\ stack = << >>
  /\ sent = [t \in Types |-> 0]
  /\ gone = [t \in Types |-> {}]

UserCode == stack # << >> => Top.kind = "user"
MayCall  == UserCode /\ Len(stack) < MaxDepth

Delivery(t, batch, next) ==
  [kind |-> "deliver", type |-> t, batch |-> batch, next |-> next,
   owed |-> ToSet(SubSeq(calls[t], 1, next)), disturbed |-> FALSE, since |-> sent[t]]

Connect(l) ==
  /\ UserCode /\ MayUse(Event[l])
  /\ Assure(Event[l])
  /\ calls' = [calls EXCEPT ![Event[l]] = ConnectTo(@, l)]
  /\ stack' = Departed({l})
  /\ UNCHANGED <<queue, sent, gone>>

Disconnect(l) ==
  /\ UserCode /\ MayUse(Event[l])
  /\ Assure(Event[l])
  /\ calls' = [calls EXCEPT ![Event[l]] = DisconnectIf(@, {l})]
  /\ stack' = Departed({l})
  /\ UNCHANGED <<queue, sent, gone>>

DisconnectAll(t) ==
  /\ UserCode /\ MayUse(t)
  /\ Assure(t)
  /\ calls' = [calls EXCEPT ![t] = << >>]
  /\ stack' = Departed(ToSet(calls[t]))
  /\ UNCHANGED <<queue, sent, gone>>

(* disconnect of an instance visits every handler.                         *)
DisconnectInstance(instance) ==
  LET which == {l \in Listeners : Owner[l] = instance}
  IN  /\ UserCode
      /\ calls' = [t \in Types |-> IF Known(t) THEN DisconnectIf(calls[t], which)
                                               ELSE calls[t]]
      /\ stack' = Departed(which)
      /\ UNCHANGED <<pools, queue, sent, gone>>

(* Mutant: the newest event goes first.                                    *)
EnqueueFront(t) ==
  /\ UserCode /\ MayUse(t) /\ sent[t] < MaxEvents[t]
  /\ Assure(t)
  /\ sent' = [sent EXCEPT ![t] = @ + 1]
  /\ queue' = [queue EXCEPT ![t] = << sent'[t] >> \o @]
  /\ UNCHANGED <<calls, stack, gone>>

Enqueue(t) ==
  /\ UserCode /\ MayUse(t) /\ sent[t] < MaxEvents[t]
  /\ Assure(t)
  /\ sent' = [sent EXCEPT ![t] = @ + 1]
  /\ queue' = [queue EXCEPT ![t] = Append(@, sent'[t])]
  /\ UNCHANGED <<calls, stack, gone>>

Trigger(t) ==
  /\ MayCall /\ MayUse(t)
  /\ Assure(t)
  /\ stack' = Append(stack, Delivery(t, << >>, Len(calls[t])))
  /\ UNCHANGED <<calls, queue, sent, gone>>

Discard(ts) ==
  /\ queue' = [t \in Types |-> IF t \in ts THEN << >> ELSE queue[t]]
  /\ gone' = [t \in Types |-> IF t \in ts THEN gone[t] \cup ToSet(queue[t]) ELSE gone[t]]
  /\ UNCHANGED <<calls, stack, sent>>

Clear(t) ==
  /\ UserCode /\ MayUse(t)
  /\ Assure(t)
  /\ Discard({t})

ClearAll ==
  /\ UserCode
  /\ Discard(ToSet(pools))
  /\ UNCHANGED pools

(* Mutant: the queue is walked in place and emptied afterwards.            *)
PublishInPlace(t, frames) ==
  /\ stack' = Append(frames, Delivery(t, queue[t], 0))
  /\ UNCHANGED queue

(* publish of a handler: the events move to a local container.             *)
Publish(t, frames) ==
  /\ stack' = Append(frames, Delivery(t, queue[t], 0))
  /\ queue' = [queue EXCEPT ![t] = << >>]

Update(t) ==
  /\ MayCall /\ MayUse(t)
  /\ Assure(t)
  /\ Publish(t, stack)
  /\ UNCHANGED <<calls, sent, gone>>

UpdateAll ==
  /\ MayCall
  /\ stack' = Append(stack, [kind |-> "update", left |-> pools, since |-> sent])
  /\ UNCHANGED <<pools, calls, queue, sent, gone>>

(* Mutant: a pool without events stops the loop.                           *)
UpdateStepStops ==
  /\ stack # << >> /\ Top.kind = "update" /\ Top.left # << >>
  /\ LET t == Head(Top.left)
     IN  Publish(t, Append(Returned, [Top EXCEPT !.left = IF queue[t] = << >> THEN << >>
                                                          ELSE Tail(@)]))
  /\ UNCHANGED <<pools, calls, sent, gone>>

(* The loop of update() over the handlers.                                 *)
UpdateStep ==
  /\ stack # << >> /\ Top.kind = "update" /\ Top.left # << >>
  /\ Publish(Head(Top.left), Append(Returned, [Top EXCEPT !.left = Tail(@)]))
  /\ UNCHANGED <<pools, calls, sent, gone>>

UpdateReturns ==
  /\ stack # << >> /\ Top.kind = "update" /\ Top.left = << >>
  /\ stack' = Returned
  /\ UNCHANGED <<pools, calls, queue, sent, gone>>

(* The loop of the handler over its events.                                *)
NextEvent ==
  /\ stack # << >> /\ Top.kind = "deliver" /\ Top.next = 0 /\ Top.batch # << >>
  /\ stack' = Append(Returned,
                [Top EXCEPT !.batch = Tail(@), !.next = Len(calls[Top.type]),
                            !.owed = ToSet(calls[Top.type]), !.disturbed = FALSE])
  /\ gone' = [gone EXCEPT ![Top.type] = @ \cup {Head(Top.batch)}]
  /\ UNCHANGED <<pools, calls, queue, sent>>

Calling(l, owed) ==
  stack' = Returned \o << [Top EXCEPT !.next = @ - 1, !.owed = owed],
                          [kind |-> "user", listener |-> l] >>

(* Mutant: the listeners are called in the order they were connected.      *)
CallNextForward ==
  /\ stack # << >> /\ Top.kind = "deliver" /\ Top.next \in DOMAIN calls[Top.type]
  /\ LET seq == calls[Top.type]
         l   == seq[Len(seq) + 1 - Top.next]
     IN  Calling(l, Top.owed \ {l})
  /\ UNCHANGED <<pools, calls, queue, sent, gone>>

(* The loop of the signal over its listeners, from the last.               *)
CallNext ==
  /\ stack # << >> /\ Top.kind = "deliver" /\ Top.next \in DOMAIN calls[Top.type]
  /\ LET l == calls[Top.type][Top.next] IN Calling(l, Top.owed \ {l})
  /\ UNCHANGED <<pools, calls, queue, sent, gone>>

(* The position is past the end of the vector, whose listeners have become *)
(* fewer: undefined behaviour, what was there may be called again.         *)
CallStale ==
  /\ stack # << >> /\ Top.kind = "deliver" /\ Top.next > Len(calls[Top.type])
  /\ \E l \in Listeners : Event[l] = Top.type /\ Calling(l, Top.owed)
  /\ UNCHANGED <<pools, calls, queue, sent, gone>>

DeliveryReturns ==
  /\ stack # << >> /\ Top.kind = "deliver" /\ Top.next = 0 /\ Top.batch = << >>
  /\ stack' = Returned
  /\ UNCHANGED <<pools, calls, queue, sent, gone>>

ListenerReturns ==
  /\ stack # << >> /\ Top.kind = "user"
  /\ stack' = Returned
  /\ UNCHANGED <<pools, calls, queue, sent, gone>>

Connections ==
  \/ \E l \in Listeners : Connect(l) \/ Disconnect(l)
  \/ \E t \in Types : DisconnectAll(t)
  \/ \E instance \in Range(Owner) : DisconnectInstance(instance)

Events ==
  \/ \E t \in Types : Enqueue(t) \/ Trigger(t) \/ Clear(t) \/ Update(t)
  \/ ClearAll \/ UpdateAll

Loops ==
  \/ UpdateStep \/ UpdateReturns
  \/ NextEvent \/ CallNext \/ CallStale \/ DeliveryReturns
  \/ ListenerReturns

Next == Connections \/ Events \/ Loops

Spec == Init /\ [][Next]_vars

-------------------------------------------------------------------------------
(* Properties. *)

TypeOK ==
  /\ IsInjective(pools) /\ ToSet(pools) \subseteq Types
  /\ \A t \in Types :
       /\ IsInjective(calls[t]) /\ \A l \in ToSet(calls[t]) : Event[l] = t
       /\ ~ Known(t) => calls[t] = << >> /\ queue[t] = << >>

(* However calls nest and listeners connect and disconnect themselves and  *)
(* others in the middle, a delivery skips none of those that were there    *)
(* when its event came and stayed; and it calls these once and no others,  *)
(* within the vector, unless one was disconnected before its turn: the     *)
(* listener that takes its place may then be called again.                 *)
EachOnce ==
  /\ TypeOK
  /\ \A k \in Frames("deliver") :
       LET f     == stack[k]
           seq   == calls[f.type]
           ahead == {seq[n] : n \in DOMAIN seq \cap 1 .. f.next}
       IN  /\ f.owed \subseteq ahead
           /\ ~ f.disturbed => f.next <= Len(seq) /\ ahead \subseteq f.owed

(* The events of a type that wait: in the batches of its deliveries, the   *)
(* outermost first, then in the queue.                                     *)
Waiting(t) ==
  FoldLeft(LAMBDA w, f : IF f.kind = "deliver" /\ f.type = t THEN w \o f.batch ELSE w,
           << >>, stack) \o queue[t]

(* No event is lost, none is published twice: those that are neither       *)
(* published nor discarded wait, at one place, however updates, discards   *)
(* and listeners nest.                                                     *)
NoneLost ==
  \A t \in Types :
    LET w == Waiting(t)
    IN  /\ Len(w) = Cardinality(ToSet(w))
        /\ ToSet(w) = (1 .. sent[t]) \ gone[t]

(* What waits of a type is in the order in which it was enqueued: a batch  *)
(* goes out from its oldest event on, it is older than the batches of the  *)
(* calls it led to, and all of them than the queue.  Only what waits is    *)
(* ordered: an update that a listener makes publishes newer events while   *)
(* older ones are in the batch of the delivery below.                      *)
InOrder ==
  \A t \in Types : LET w == Waiting(t) IN \A n \in 2 .. Len(w) : w[n - 1] <= w[n]

(* When update() returns, the events that were queued when it was called   *)
(* are published or discarded, or an update below it is publishing them;   *)
(* a delivery publishes none that was enqueued after it began.             *)
UpdateDelivers ==
  \A k \in DOMAIN stack :
    CASE stack[k].kind = "update" /\ stack[k].left = << >> /\ k = Len(stack) ->
           \A t \in Types : \A e \in ToSet(queue[t]) : e > stack[k].since[t]
      [] stack[k].kind = "deliver" ->
           \A e \in ToSet(stack[k].batch) : e <= stack[k].since
      [] OTHER -> TRUE
===============================================================================
