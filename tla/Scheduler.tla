------------------------------- MODULE Scheduler ------------------------------
(***************************************************************************)
(* The cooperative scheduler (process/scheduler.hpp) and its processes     *)
(* (process/process.hpp).  Single-threaded, but every callback of a        *)
(* process may call back into the scheduler and into any process, so       *)
(* update and abort are split at the calls they make.  stack holds the     *)
(* calls in progress:                                                      *)
(*   update  the loop of basic_scheduler::update; next counts down         *)
(*   abort   the loop of basic_scheduler::abort(true); next counts up      *)
(*   tick    basic_process::tick of proc, in update() or in one of         *)
(*           succeeded(), failed(), aborted()                              *)
(***************************************************************************)
EXTENDS Naturals, Sequences, SequencesExt

CONSTANTS
  Proc,       (* the processes the program ever creates                     *)
  None,       (* the null handle                                            *)
  MaxDepth    (* bound of the model: most calls in progress                 *)

ASSUME NoneAssumption == None \notin Proc

VARIABLES
  handlers,   (* the scheduled processes                                    *)
  current,    (* proc -> its state; "new" before it is created              *)
  child,      (* proc -> what then() assigned, or None                      *)
  stack,      (* the calls in progress, the innermost last                  *)
  due,        (* history: the processes this update has still to tick       *)
  notes       (* history: proc -> the notifications it received             *)

vars == <<handlers, current, child, stack, due, notes>>

Ended   == {"succeeded", "failed", "aborted"}
Over    == {"finished", "rejected"}
States  == {"new", "idle", "running", "paused"} \cup Ended \cup Over

Scheduled == ToSet(handlers)

(* Reachable through the scheduler, as a process or as a descendant.       *)
Children(ps) == {child[q] : q \in ps} \ {None}

Owned(p) ==
  LET sons == Children(Scheduled)
  IN  p \in Scheduled \cup sons \cup Children(sons)

Alive(p) == current[p] \in {"running", "paused"}

Frame(kind, next, proc, stage) ==
  [kind |-> kind, next |-> next, proc |-> proc, stage |-> stage]

Top == Last(stack)
Called(frames, frame) == Append(frames, frame)
Returned == Front(stack)

(* The program has control: outside any call or in a callback.             *)
UserCode == stack # << >> => Top.kind = "tick"

-------------------------------------------------------------------------------
Init ==
  /\ handlers = << >>
  /\ current = [p \in Proc |-> "new"]
  /\ child = [p \in Proc |-> None]
  /\ stack = << >>
  /\ due = {}
  /\ notes = [p \in Proc |-> << >>]

(* attach.  The loop of abort(true) holds iterators, which an insertion    *)
(* invalidates: a callback below it does not attach.                       *)
Attach(p) ==
  /\ UserCode /\ current[p] = "new"
  /\ \A k \in DOMAIN stack : stack[k].kind # "abort"
  /\ handlers' = Append(handlers, p)
  /\ current' = [current EXCEPT ![p] = "idle"]
  /\ UNCHANGED <<child, stack, due, notes>>

(* then: the previous child, if any, is destroyed.                         *)
Then(p, c) ==
  /\ UserCode /\ Owned(p) /\ current[c] = "new"
  /\ child' = [child EXCEPT ![p] = c]
  /\ current' = [current EXCEPT ![c] = "idle"]
  /\ UNCHANGED <<handlers, stack, due, notes>>

(* Mutant: signals do not ask whether the process is alive.                *)
SignalAny(p, s) ==
  /\ UserCode /\ Owned(p)
  /\ current' = [current EXCEPT ![p] = s]
  /\ UNCHANGED <<handlers, child, stack, due, notes>>

(* abort, succeed, fail, pause and unpause of a process, without effect    *)
(* unless it is alive.                                                     *)
Signal(p, s) ==
  /\ UserCode /\ Owned(p) /\ Alive(p)
  /\ current' = [current EXCEPT ![p] = s]
  /\ UNCHANGED <<handlers, child, stack, due, notes>>

(* clear destroys the processes; in a callback it would destroy the caller.*)
Clear ==
  /\ stack = << >>
  /\ handlers' = << >>
  /\ UNCHANGED <<current, child, stack, due, notes>>

-------------------------------------------------------------------------------
(* basic_process::tick, with frames the calls in progress around it and st *)
(* the states of the processes when it is entered.                         *)
Tick(p, frames, st) ==
  \/ /\ st[p] \in {"idle", "running"}
     /\ current' = [st EXCEPT ![p] = "running"]
     /\ stack' = Called(frames, Frame("tick", 0, p, "update"))
     /\ UNCHANGED notes
  \/ /\ st[p] \in Ended
     /\ current' = st
     /\ stack' = Called(frames, Frame("tick", 0, p, st[p]))
     /\ notes' = [notes EXCEPT ![p] = Append(@, st[p])]
  \/ /\ st[p] \notin {"idle", "running"} \cup Ended
     /\ current' = st
     /\ stack' = frames
     /\ UNCHANGED notes

(* update() of the process returns: if it ended, it is told at once.       *)
UpdateReturns ==
  /\ stack # << >> /\ Top.kind = "tick" /\ Top.stage = "update"
  /\ LET p == Top.proc
     IN  IF current[p] \in Ended
         THEN /\ stack' = Called(Returned, [Top EXCEPT !.stage = current[p]])
              /\ notes' = [notes EXCEPT ![p] = Append(@, current[p])]
         ELSE /\ stack' = Returned
              /\ UNCHANGED notes
  /\ UNCHANGED <<handlers, current, child, due>>

(* Mutant: a process that failed counts as finished.                       *)
OutcomeMild(stage) == "finished"

Outcome(stage) == IF stage = "succeeded" THEN "finished" ELSE "rejected"

NotificationReturns ==
  /\ stack # << >> /\ Top.kind = "tick" /\ Top.stage \in Ended
  /\ current' = [current EXCEPT ![Top.proc] = Outcome(Top.stage)]
  /\ stack' = Returned
  /\ UNCHANGED <<handlers, child, due, notes>>

-------------------------------------------------------------------------------
(* Mutant: the last process is left out.                                   *)
UpdateShort ==
  /\ stack = << >>
  /\ LET size == IF handlers = << >> THEN 0 ELSE Len(handlers) - 1
     IN  stack' = << Frame("update", size, None, "tick") >>
  /\ due' = Scheduled
  /\ UNCHANGED <<handlers, current, child, notes>>

(* basic_scheduler::update.  A callback that called it again would pull    *)
(* elements from under the outer loop: not modelled.                       *)
Update ==
  /\ stack = << >>
  /\ stack' = << Frame("update", Len(handlers), None, "tick") >>
  /\ due' = Scheduled
  /\ UNCHANGED <<handlers, current, child, notes>>

UpdateTick ==
  /\ stack # << >> /\ Top.kind = "update" /\ Top.stage = "tick" /\ Top.next > 0
  /\ Tick(handlers[Top.next], Called(Returned, [Top EXCEPT !.stage = "check"]), current)
  /\ due' = due \ {handlers[Top.next]}
  /\ UNCHANGED <<handlers, child>>

(* Mutant: the last element takes the place and stays where it is too.     *)
RemovedTwice(pos) == [handlers EXCEPT ![pos] = Last(handlers)]

(* The last element takes the place of the removed one.                    *)
Removed(pos) == Front([handlers EXCEPT ![pos] = Last(handlers)])

(* Mutants: the child of a process that did not succeed takes its place;   *)
(* a finished process stays.                                               *)
SuccessorAlways(p) ==
  IF current[p] \in Over THEN child[p] ELSE p

SuccessorNever(p) == p

(* A finished process is replaced by its child, which may be null.         *)
Successor(p) == IF current[p] = "finished" THEN child[p] ELSE p

UpdateCheck ==
  /\ stack # << >> /\ Top.kind = "update" /\ Top.stage = "check"
  /\ LET elem == Successor(handlers[Top.next])
     IN  handlers' = IF elem = None \/ (elem \in Proc /\ current[elem] = "rejected")
                     THEN Removed(Top.next)
                     ELSE [handlers EXCEPT ![Top.next] = elem]
  /\ stack' = Called(Returned, [Top EXCEPT !.stage = "tick", !.next = @ - 1])
  /\ UNCHANGED <<current, child, due, notes>>

UpdateEnds ==
  /\ stack # << >> /\ Top.kind = "update" /\ Top.stage = "tick" /\ Top.next = 0
  /\ stack' = Returned
  /\ UNCHANGED <<handlers, current, child, due, notes>>

-------------------------------------------------------------------------------
(* basic_scheduler::abort.                                                 *)
Aborted(p) == IF Alive(p) THEN [current EXCEPT ![p] = "aborted"] ELSE current

AbortLater ==
  /\ UserCode
  /\ current' = [p \in Proc |-> IF p \in Scheduled /\ Alive(p) THEN "aborted"
                                ELSE current[p]]
  /\ UNCHANGED <<handlers, child, stack, due, notes>>

(* From a notification of a process the loop would notify it again, and    *)
(* so on without end: not done there.                                      *)
AbortNow ==
  /\ UserCode /\ Len(stack) < MaxDepth
  /\ \A k \in DOMAIN stack : stack[k].stage \notin Ended
  /\ stack' = Called(stack, Frame("abort", 1, None, "tick"))
  /\ UNCHANGED <<handlers, current, child, due, notes>>

AbortTick ==
  /\ stack # << >> /\ Top.kind = "abort" /\ Top.next <= Len(handlers)
  /\ LET p == handlers[Top.next]
     IN  Tick(p, Called(Returned, [Top EXCEPT !.next = @ + 1]), Aborted(p))
  /\ UNCHANGED <<handlers, child, due>>

AbortEnds ==
  /\ stack # << >> /\ Top.kind = "abort" /\ Top.next > Len(handlers)
  /\ stack' = Returned
  /\ UNCHANGED <<handlers, current, child, due, notes>>

-------------------------------------------------------------------------------
Calls ==
  \/ \E p \in Proc : Attach(p)
  \/ \E p, c \in Proc : Then(p, c)
  \/ \E p \in Proc, s \in {"running", "paused"} \cup Ended : Signal(p, s)
  \/ Clear
  \/ AbortLater
  \/ AbortNow

Loops == UpdateTick \/ UpdateCheck \/ UpdateEnds \/ AbortTick \/ AbortEnds

Returns == UpdateReturns \/ NotificationReturns

Next == Calls \/ Update \/ Loops \/ Returns

(* The loops run on by themselves, a callback returns after finitely many  *)
(* calls, and the program calls update again and again, whatever else it   *)
(* calls in between.                                                       *)
Fairness == WF_vars(Loops) /\ SF_vars(Returns) /\ SF_vars(Update)

Spec == Init /\ [][Next]_vars

FairSpec == Spec /\ Fairness

-------------------------------------------------------------------------------
(* Properties. *)

TypeOK ==
  /\ handlers \in Seq(Proc) /\ IsInjective(handlers)
  /\ current \in [Proc -> States]
  /\ child \in [Proc -> Proc \cup {None}]
  /\ due \subseteq Proc
  /\ \A k \in DOMAIN stack :
       /\ stack[k].kind \in {"update", "abort", "tick"}
       /\ stack[k].kind = "update" => k = 1 /\ stack[k].next <= Len(handlers)

(* In the middle of an update the processes before the cursor are exactly  *)
(* those that still wait for their tick: removals, spawned processes and   *)
(* children never make one be skipped or ticked twice, and no process is   *)
(* in the vector twice.                                                    *)
OneTickEach ==
  /\ TypeOK
  /\ (stack # << >> /\ Head(stack).kind = "update") =>
       LET loop == Head(stack)
           left == IF loop.stage = "check" THEN loop.next - 1 ELSE loop.next
       IN  ToSet(SubSeq(handlers, 1, left)) = due

(* A process receives one notification at most, the one of the state it    *)
(* ended in, and is finished or rejected only after it.                    *)
NotifiedOnce ==
  \A p \in Proc :
    /\ Len(notes[p]) <= 1
    /\ current[p] = "finished" => notes[p] = << "succeeded" >>
    /\ current[p] = "rejected" => notes[p] \in {<< "failed" >>, << "aborted" >>}

(* A child enters the scheduler, or leaves its initial state, only if its  *)
(* parent succeeded.                                                       *)
ChildrenOfSuccess ==
  \A p \in Proc :
    child[p] # None /\ (child[p] \in Scheduled \/ current[child[p]] # "idle")
      => current[p] = "finished"

(* A process that has been told how it ended is never executed again.      *)
NeverAgain ==
  [][\A p \in Proc : notes[p] # << >> =>
       ~ (Len(stack') > Len(stack) /\ Last(stack').kind = "tick"
          /\ Last(stack').proc = p)]_vars

(* A process that succeeds, fails or is aborted, from inside or outside a  *)
(* callback, is told and leaves the scheduler.                             *)
EndedLeaves ==
  \A p \in Proc : (p \in Scheduled /\ current[p] \in Ended) ~> (p \notin Scheduled)

(* A scheduled process, child or not, gets to run unless it is discarded.  *)
ScheduledRuns ==
  \A p \in Proc : (p \in Scheduled /\ current[p] = "idle")
                    ~> (p \notin Scheduled \/ current[p] # "idle")
===============================================================================
