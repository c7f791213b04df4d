---------------------------- MODULE SchedulerProofs ----------------------------
(***************************************************************************)
(* That basic_scheduler and its processes keep their promises for any      *)
(* number of processes, any nesting of callbacks and any program above     *)
(* them: one tick each and update, one notification each, no child before  *)
(* its parent has succeeded, no process run after it was told its end.     *)
(*                                                                         *)
(* Inv is the inductive invariant.  Its parts:                             *)
(*   Typed      the types of the variables                                 *)
(*   Frames     which calls can be in progress, and where                  *)
(*   Telling    a notification in progress is on top of the stack, and is  *)
(*              that of the state its process is still in                  *)
(*   Notified   what a process was told, against the state it is in        *)
(*   Families   a child has one parent, which left the scheduler before    *)
(*              the child entered it                                       *)
(*   Cursor     the processes before the cursor are those still due        *)
(***************************************************************************)
EXTENDS Scheduler, SequenceFacts, TLAPS

Stages == {"tick", "check", "update"} \cup Ended

FrameSet ==
  [kind : {"update", "abort", "tick"}, next : Nat, proc : Proc \cup {None}, stage : Stages]

Typed ==
  /\ handlers \in Seq(Proc) /\ IsInjective(handlers)
  /\ current \in [Proc -> States]
  /\ child \in [Proc -> Proc \cup {None}]
  /\ stack \in Seq(FrameSet)
  /\ due \subseteq Proc
  /\ notes \in [Proc -> Seq(Ended)]

FrameSound(f, k, size) ==
  /\ f.kind = "update" => /\ k = 1 /\ f.next <= size
                          /\ f.stage \in {"tick", "check"}
                          /\ f.stage = "check" => f.next > 0
  /\ f.kind = "abort" => f.next > 0 /\ f.stage = "tick"
  /\ f.kind = "tick" => f.proc \in Proc /\ f.stage \in {"update"} \cup Ended

Frames == \A k \in 1 .. Len(stack) : FrameSound(stack[k], k, Len(handlers))

Telling ==
  \A k \in 1 .. Len(stack) : stack[k].stage \in Ended =>
    /\ k = Len(stack) /\ stack[k].proc \in Proc
    /\ current[stack[k].proc] = stack[k].stage
    /\ notes[stack[k].proc] = << stack[k].stage >>

(* The notification of p is in progress.                                   *)
Told(p) ==
  /\ stack # << >>
  /\ stack[Len(stack)].stage \in Ended /\ stack[Len(stack)].proc = p

NotesSound(p) ==
  \/ notes[p] = << >> /\ current[p] \notin Over
  \/ notes[p] = << "succeeded" >> /\ current[p] = "finished"
  \/ notes[p] \in {<< "failed" >>, << "aborted" >>} /\ current[p] = "rejected"
  \/ Told(p)

Notified == \A p \in Proc : NotesSound(p)

Started(c) == c \in Scheduled \/ current[c] # "idle"

Families ==
  /\ \A p \in Scheduled : current[p] # "new"
  /\ \A p \in Proc : child[p] # None => current[child[p]] # "new"
  /\ \A p, q \in Proc : child[p] # None /\ child[p] = child[q] => p = q
  /\ \A p \in Proc : child[p] # None /\ Started(child[p])
       => current[p] = "finished" /\ p \notin Scheduled

Left(f) == IF f.stage = "check" THEN f.next - 1 ELSE f.next

Cursor ==
  (stack # << >> /\ stack[1].kind = "update")
    => due = {handlers[n] : n \in 1 .. Left(stack[1])}

Inv == Typed /\ Frames /\ Telling /\ Notified /\ Families /\ Cursor

-------------------------------------------------------------------------------
(* The innermost call.                                                     *)
LEMMA TopIs ==
  ASSUME Typed, stack # << >>
  PROVE  /\ Top = stack[Len(stack)] /\ Top \in FrameSet
         /\ Len(stack) \in Nat /\ Len(stack) > 0
BY PopFacts, SeqFacts DEF Typed, Top

(* Every call in progress.                                                 *)
LEMMA FrameIs ==
  ASSUME Typed, Frames, NEW k \in 1 .. Len(stack)
  PROVE  /\ stack[k] \in FrameSet /\ stack[k].next \in Nat
         /\ FrameSound(stack[k], k, Len(handlers))
<1>1. stack[k] \in FrameSet
  BY SeqFacts DEF Typed
<1>2. FrameSound(stack[k], k, Len(handlers))
  BY DEF Frames
<1> QED BY <1>1, <1>2 DEF FrameSet

(* The scheduled processes, by position.                                   *)
LEMMA ScheduledIs ==
  ASSUME Typed
  PROVE  /\ Len(handlers) \in Nat /\ Scheduled \subseteq Proc
         /\ Scheduled = {handlers[n] : n \in 1 .. Len(handlers)}
         /\ \A n \in 1 .. Len(handlers) : handlers[n] \in Proc
         /\ \A m, n \in 1 .. Len(handlers) : handlers[m] = handlers[n] => m = n
BY DEF Typed, Scheduled, ToSet, IsInjective

(* A process with a notification in progress is in the state it is told of.*)
LEMMA ToldIsEnded ==
  ASSUME Typed, Telling, NEW p \in Proc, Told(p)
  PROVE  current[p] \in Ended /\ notes[p] = << current[p] >>
<1>1. Len(stack) \in 1 .. Len(stack)
  BY SeqFacts DEF Typed, Told
<1> QED BY <1>1 DEF Telling, Told

(* A process that has not ended has been told nothing.                     *)
LEMMA NotEndedNotTold ==
  ASSUME Typed, Telling, Notified, NEW p \in Proc, current[p] \notin Ended \cup Over
  PROVE  notes[p] = << >> /\ ~ Told(p)
BY ToldIsEnded DEF Notified, NotesSound, Over

(* While no notification is in progress, nobody who is not over was told.  *)
LEMMA UntoldUntilOver ==
  ASSUME Typed, Notified, stack = << >> \/ stack[Len(stack)].stage \notin Ended,
         NEW p \in Proc, current[p] \notin Over
  PROVE  notes[p] = << >>
BY DEF Notified, NotesSound, Told, Over

(* What is scheduled or a child has been created.                          *)
LEMMA OwnedIsCreated ==
  ASSUME Typed, Families, NEW p \in Proc, Owned(p)
  PROVE  current[p] # "new"
<1>1. Scheduled \subseteq Proc
  BY DEF Typed, Scheduled, ToSet
<1>2. ASSUME NEW ps, ps \subseteq Proc
      PROVE Children(ps) \subseteq Proc /\ \A c \in Children(ps) : current[c] # "new"
  BY <1>2 DEF Children, Typed, Families
<1>3. /\ Children(Scheduled) \subseteq Proc
      /\ \A c \in Children(Scheduled) \cup Children(Children(Scheduled)) : current[c] # "new"
  BY <1>1, <1>2
<1> QED BY <1>3 DEF Owned, Families

-------------------------------------------------------------------------------
(* The calls of the program.                                               *)

LEMMA AttachInv == ASSUME Inv, NEW p \in Proc, Attach(p) PROVE Inv'
<1> USE DEF Inv
<1>1. /\ handlers' = Append(handlers, p) /\ current[p] = "new"
      /\ current' = [current EXCEPT ![p] = "idle"]
      /\ child' = child /\ stack' = stack /\ due' = due /\ notes' = notes
  BY DEF Attach
<1>2. p \notin Scheduled
  BY <1>1 DEF Families
<1>3. handlers' \in Seq(Proc) /\ Pushed(handlers, p, handlers') /\ Scheduled' = Scheduled \cup {p}
      /\ IsInjective(handlers')
  <2>1. handlers \in Seq(Proc) /\ IsInjective(handlers) /\ p \notin ToSet(handlers)
    BY <1>2 DEF Typed, Scheduled
  <2>2. handlers' \in Seq(Proc) /\ Pushed(handlers, p, handlers')
    BY <1>1, <2>1, PushFacts
  <2> QED BY <1>1, <2>1, <2>2, PushElements, PushInjective DEF Scheduled
<1>4. Typed'
  BY <1>1, <1>3 DEF Typed, States
<1>5. Len(handlers') = Len(handlers) + 1 /\ Len(handlers) \in Nat
  BY <1>3 DEF Typed, Pushed
<1>6. Frames'
  <2> SUFFICES ASSUME NEW k \in 1 .. Len(stack)
               PROVE FrameSound(stack[k], k, Len(handlers'))
    BY <1>1 DEF Frames
  <2>1. FrameSound(stack[k], k, Len(handlers)) /\ stack[k].next \in Nat
    BY FrameIs
  <2> QED BY <2>1, <1>5 DEF FrameSound
<1>7. Telling'
  <2>1. "new" \notin Ended
    BY DEF Ended
  <2>2. current \in [Proc -> States]
    BY DEF Typed
  <2> QED BY <1>1, <2>1, <2>2 DEF Telling
<1>8. Notified'
  <2> SUFFICES ASSUME NEW q \in Proc PROVE NotesSound(q)'
    BY DEF Notified
  <2>1. CASE q = p
    <3>1. notes[p] = << >>
      BY <1>1, NotEndedNotTold DEF Ended, Over
    <3> QED BY <3>1, <2>1, <1>1 DEF NotesSound, Over, Typed
  <2>2. CASE q # p
    <3>1. current'[q] = current[q]
      BY <1>1, <2>2 DEF Typed
    <3> QED BY <3>1, <1>1 DEF Notified, NotesSound, Told
  <2> QED BY <2>1, <2>2
<1>9. Families'
  <2>1. \A q \in Proc : current'[q] = IF q = p THEN "idle" ELSE current[q]
    BY <1>1 DEF Typed
  <2>2. Scheduled \subseteq Proc /\ \A q \in Proc : child[q] # None => child[q] \in Proc
    BY ScheduledIs DEF Typed
  <2> QED BY <1>1, <1>3, <2>1, <2>2 DEF Families, Started
<1>10. Cursor'
  <2> SUFFICES ASSUME stack # << >>, stack[1].kind = "update"
               PROVE due = {handlers'[n] : n \in 1 .. Left(stack[1])}
    BY <1>1 DEF Cursor
  <2>1. stack[1] \in FrameSet /\ FrameSound(stack[1], 1, Len(handlers)) /\ stack[1].next \in Nat
    BY SeqFacts, FrameIs DEF Typed
  <2>2. Left(stack[1]) \in Int /\ Left(stack[1]) <= Len(handlers)
    BY <2>1 DEF FrameSound, Left
  <2>3. \A n \in 1 .. Left(stack[1]) : handlers'[n] = handlers[n]
    BY <2>2, <1>3, <1>5 DEF Pushed
  <2> QED BY <2>3 DEF Cursor
<1> QED BY <1>4, <1>6, <1>7, <1>8, <1>9, <1>10

(* The parts on the calls in progress hold as long as neither they nor the *)
(* vector change.                                                          *)
LEMMA SameCalls ==
  ASSUME Frames, Cursor, handlers' = handlers, stack' = stack, due' = due
  PROVE  Frames' /\ Cursor'
BY DEF Frames, Cursor

(* Signals reach living processes only.                                    *)
LEMMA SignalledInv ==
  ASSUME Inv, UNCHANGED <<handlers, child, stack, due, notes>>, current' \in [Proc -> States],
         \A q \in Proc : \/ current'[q] = current[q]
                         \/ Alive(q) /\ current'[q] \in {"running", "paused"} \cup Ended
  PROVE  Inv'
<1> USE DEF Inv
<1>1. Typed'
  BY DEF Typed
<1>2. Frames' /\ Cursor'
  BY SameCalls
<1>3. Telling'
  BY DEF Telling, Alive, Ended
<1>4. Notified'
  <2> SUFFICES ASSUME NEW q \in Proc PROVE NotesSound(q)'
    BY DEF Notified
  <2>1. CASE current'[q] = current[q]
    BY <2>1 DEF Notified, NotesSound, Told
  <2>2. CASE Alive(q) /\ current'[q] \in {"running", "paused"} \cup Ended
    <3>1. notes[q] = << >>
      BY <2>2, NotEndedNotTold DEF Alive, Ended, Over
    <3> QED BY <3>1, <2>2 DEF NotesSound, Over, Ended
  <2> QED BY <2>1, <2>2
<1>5. Families'
  <2>1. Scheduled' = Scheduled /\ Scheduled \subseteq Proc
    BY ScheduledIs DEF Scheduled
  <2>2. \A q \in Proc : child[q] # None => child[q] \in Proc
    BY DEF Typed
  <2>3. \A q \in Proc :
          \/ current'[q] = current[q]
          \/ current[q] \notin {"new", "idle", "finished"} /\ current'[q] \notin {"new", "idle"}
    BY DEF Alive, Ended
  <2> QED BY <2>1, <2>2, <2>3 DEF Families, Started
<1> QED BY <1>1, <1>2, <1>3, <1>4, <1>5

LEMMA SignalInv ==
  ASSUME Inv, NEW p \in Proc, NEW s \in {"running", "paused"} \cup Ended, Signal(p, s)
  PROVE  Inv'
<1>1. current \in [Proc -> States] /\ s \in States
  BY DEF Inv, Typed, States
<1>2. current' = [current EXCEPT ![p] = s] /\ Alive(p) /\ UNCHANGED <<handlers, child, stack, due, notes>>
  BY DEF Signal
<1> QED BY <1>1, <1>2, SignalledInv

LEMMA AbortLaterInv == ASSUME Inv, AbortLater PROVE Inv'
<1>1. current \in [Proc -> States] /\ "aborted" \in States \cap Ended
  BY DEF Inv, Typed, States, Ended
<1>2. /\ current' = [p \in Proc |-> IF p \in Scheduled /\ Alive(p) THEN "aborted" ELSE current[p]]
      /\ UNCHANGED <<handlers, child, stack, due, notes>>
  BY DEF AbortLater
<1> QED BY <1>1, <1>2, SignalledInv

LEMMA ThenInv == ASSUME Inv, NEW p \in Proc, NEW c \in Proc, Then(p, c) PROVE Inv'
<1> USE DEF Inv
<1>1. /\ Owned(p) /\ current[c] = "new"
      /\ child' = [child EXCEPT ![p] = c] /\ current' = [current EXCEPT ![c] = "idle"]
      /\ handlers' = handlers /\ stack' = stack /\ due' = due /\ notes' = notes
  BY DEF Then
<1>2. current[p] # "new" /\ p # c
  BY <1>1, OwnedIsCreated
<1>3. /\ \A q \in Proc : current'[q] = IF q = c THEN "idle" ELSE current[q]
      /\ \A q \in Proc : child'[q] = IF q = p THEN c ELSE child[q]
  BY <1>1 DEF Typed
<1>4. Typed'
  BY <1>1 DEF Typed, States
<1>5. Frames' /\ Cursor'
  BY <1>1, SameCalls
<1>6. Telling'
  BY ZenonT(60), <1>1, <1>3 DEF Telling, Ended
<1>7. Notified'
  <2> SUFFICES ASSUME NEW q \in Proc PROVE NotesSound(q)'
    BY DEF Notified
  <2>1. CASE q = c
    <3>1. notes[q] = << >>
      BY <1>1, <2>1, NotEndedNotTold DEF Ended, Over
    <3> QED BY <3>1, <2>1, <1>1, <1>3 DEF NotesSound, Over
  <2>2. CASE q # c
    BY <2>2, <1>1, <1>3 DEF Notified, NotesSound, Told
  <2> QED BY <2>1, <2>2
<1>8. Families'
  <2>1. Scheduled' = Scheduled /\ Scheduled \subseteq Proc
    BY <1>1, ScheduledIs DEF Scheduled
  <2>2. c \notin Scheduled /\ \A q \in Proc : child[q] # None => child[q] \in Proc /\ child[q] # c
    BY <1>1 DEF Families, Typed
  <2> QED BY <1>1, <1>2, <1>3, <2>1, <2>2, NoneAssumption DEF Families, Started
<1> QED BY <1>4, <1>5, <1>6, <1>7, <1>8

LEMMA ClearInv == ASSUME Inv, Clear PROVE Inv'
<1> USE DEF Inv
<1>1. /\ stack = << >> /\ handlers' = << >>
      /\ UNCHANGED <<current, child, stack, due, notes>>
  BY DEF Clear
<1>2. Len(stack) = 0 /\ Scheduled' = {}
  BY <1>1 DEF Scheduled, ToSet
<1>3. Typed'
  BY <1>1 DEF Typed, IsInjective
<1>4. Frames' /\ Telling' /\ Cursor'
  BY <1>1, <1>2 DEF Frames, Telling, Cursor
<1>5. Notified'
  BY <1>1 DEF Notified, NotesSound, Told
<1>6. Families'
  BY <1>1, <1>2 DEF Families, Started
<1> QED BY <1>3, <1>4, <1>5, <1>6

-------------------------------------------------------------------------------
(* Calls that begin and calls that return.                                 *)

LEMMA AbortNowInv == ASSUME Inv, AbortNow PROVE Inv'
<1> USE DEF Inv
<1> DEFINE f == Frame("abort", 1, None, "tick")
<1>1. /\ stack' = Append(stack, f)
      /\ UNCHANGED <<handlers, current, child, due, notes>>
  BY DEF AbortNow, Called
<1>2. stack # << >> => stack[Len(stack)].kind = "tick"
  BY TopIs DEF AbortNow, UserCode
<1>3. f \in FrameSet /\ f.kind = "abort" /\ f.next = 1 /\ f.stage = "tick" /\ "tick" \notin Ended
  BY DEF FrameSet, Frame, Stages, Ended
<1> HIDE DEF f
<1>4. stack \in Seq(FrameSet) /\ Len(stack) \in Nat /\ DOMAIN stack = 1 .. Len(stack)
  BY DEF Typed
<1>5. stack' \in Seq(FrameSet) /\ Pushed(stack, f, stack')
  BY <1>1, <1>3, <1>4, PushFacts
<1>6. \A k \in 1 .. Len(stack) : stack[k].stage \notin Ended
  BY <1>4 DEF AbortNow
<1>7. Typed'
  BY <1>1, <1>5 DEF Typed
<1>8. Frames'
  BY <1>1, <1>3, <1>4, <1>5 DEF Frames, FrameSound, Pushed
<1>9. Telling'
  <2>1. \A k \in 1 .. Len(stack') : stack'[k].stage \notin Ended
    BY <1>3, <1>4, <1>5, <1>6 DEF Pushed
  <2> QED BY <2>1 DEF Telling
<1>10. Notified'
  <2>1. \A p \in Proc : ~ Told(p)
    BY <1>4, <1>6, SeqFacts DEF Told
  <2> QED BY <1>1, <2>1 DEF Notified, NotesSound
<1>11. Families'
  BY <1>1 DEF Families, Started, Scheduled
<1>12. Cursor'
  <2>1. CASE stack = << >>
    BY <2>1, <1>3, <1>4, <1>5 DEF Cursor, Pushed
  <2>2. CASE stack # << >>
    <3>1. stack'[1] = stack[1]
      BY <2>2, <1>4, <1>5, SeqFacts DEF Pushed
    <3> QED BY <2>2, <3>1, <1>1 DEF Cursor
  <2> QED BY <2>1, <2>2
<1> QED BY <1>7, <1>8, <1>9, <1>10, <1>11, <1>12

LEMMA UpdateInv == ASSUME Inv, Update PROVE Inv'
<1> USE DEF Inv
<1> DEFINE f == Frame("update", Len(handlers), None, "tick")
<1>1. /\ stack = << >> /\ stack' = << f >> /\ due' = Scheduled
      /\ UNCHANGED <<handlers, current, child, notes>>
  BY DEF Update
<1>2. /\ f \in FrameSet /\ f.kind = "update" /\ f.next = Len(handlers) /\ f.stage = "tick"
      /\ "tick" \notin Ended
  BY ScheduledIs DEF FrameSet, Frame, Stages, Ended
<1> HIDE DEF f
<1>3. stack' \in Seq(FrameSet) /\ Len(stack') = 1 /\ stack'[1] = f
  BY <1>1, <1>2
<1>4. Typed'
  BY <1>1, <1>3, ScheduledIs DEF Typed
<1>5. Frames'
  BY <1>1, <1>2, <1>3, ScheduledIs DEF Frames, FrameSound
<1>6. Telling'
  BY <1>1, <1>2, <1>3 DEF Telling
<1>7. Notified'
  BY <1>1 DEF Notified, NotesSound, Told
<1>8. Families'
  BY <1>1 DEF Families, Started, Scheduled
<1>9. Cursor'
  <2>1. Left(f) = Len(handlers)
    BY <1>2 DEF Left
  <2> QED BY <2>1, <1>1, <1>3, ScheduledIs DEF Cursor
<1> QED BY <1>4, <1>5, <1>6, <1>7, <1>8, <1>9

(* A call returns that was not a notification.                             *)
LEMMA ReturnedInv ==
  ASSUME Inv, stack # << >>, Top.stage \notin Ended, stack' = Returned,
         UNCHANGED <<handlers, current, child, due, notes>>
  PROVE  Inv'
<1> USE DEF Inv
<1>1. stack' = Front(stack) /\ stack \in Seq(FrameSet)
  BY DEF Returned, Typed
<1>2. stack' \in Seq(FrameSet) /\ Popped(stack, stack') /\ Len(stack) \in Nat /\ Len(stack) > 0
  BY <1>1, PopFacts, SeqFacts
<1>3. Top = stack[Len(stack)]
  BY TopIs
<1>4. Typed'
  BY <1>2 DEF Typed
<1>5. Frames'
  BY <1>2 DEF Frames, Popped
<1>6. Telling'
  <2>1. \A k \in 1 .. Len(stack) : stack[k].stage \notin Ended
    BY <1>2, <1>3 DEF Telling
  <2> QED BY <2>1, <1>2 DEF Telling, Popped
<1>7. Notified'
  BY <1>3 DEF Notified, NotesSound, Told
<1>8. Families'
  BY DEF Families, Started, Scheduled
<1>9. Cursor'
  <2>1. stack' # << >> => stack'[1] = stack[1]
    BY <1>2, SeqFacts DEF Popped
  <2> QED BY <2>1 DEF Cursor
<1> QED BY <1>4, <1>5, <1>6, <1>7, <1>8, <1>9

LEMMA UpdateEndsInv == ASSUME Inv, UpdateEnds PROVE Inv'
BY ReturnedInv DEF UpdateEnds, Ended

LEMMA AbortEndsInv == ASSUME Inv, AbortEnds PROVE Inv'
<1>1. stack # << >> /\ stack[Len(stack)] = Top /\ Len(stack) \in 1 .. Len(stack) /\ Top.kind = "abort"
  BY TopIs DEF AbortEnds, Inv
<1>2. Top.stage = "tick"
  BY <1>1, FrameIs DEF FrameSound, Inv
<1> QED BY <1>1, <1>2, ReturnedInv DEF AbortEnds, Ended

-------------------------------------------------------------------------------
(* Ticks and the loops that give them.                                     *)

(* A loop that is on top with no notification in progress gives process p  *)
(* its tick: what holds afterwards, whatever the loop.                     *)
TickedSoundly ==
  Typed' /\ Frames' /\ Telling' /\ Notified' /\ Families'

LEMMA TickSound ==
  ASSUME Inv, NEW frames \in Seq(FrameSet), Topped(stack, frames[Len(stack)], frames),
         stack # << >>, Top.stage \notin Ended,
         frames[Len(stack)].stage \notin Ended,
         FrameSound(frames[Len(stack)], Len(stack), Len(handlers)),
         NEW st \in [Proc -> States],
         \A q \in Proc : st[q] = current[q] \/ (Alive(q) /\ st[q] = "aborted"),
         NEW p \in Scheduled, Tick(p, frames, st),
         handlers' = handlers, child' = child, due' \subseteq Proc
  PROVE  TickedSoundly
<1> USE DEF Inv
<1>1. /\ Top = stack[Len(stack)] /\ Len(stack) \in Nat /\ Len(stack) > 0
      /\ Len(frames) = Len(stack) /\ frames # << >>
      /\ \A k \in 1 .. Len(stack) - 1 : frames[k] = stack[k]
  BY TopIs DEF Topped
<1>2. \A k \in 1 .. Len(frames) : /\ FrameSound(frames[k], k, Len(handlers))
                                  /\ frames[k].stage \notin Ended
  <2> SUFFICES ASSUME NEW k \in 1 .. Len(stack), k # Len(stack)
               PROVE  FrameSound(stack[k], k, Len(handlers)) /\ stack[k].stage \notin Ended
    BY <1>1
  <2> QED BY FrameIs DEF Telling
<1>3. p \in Proc /\ Scheduled' = Scheduled /\ Scheduled \subseteq Proc /\ current[p] # "new"
  BY ScheduledIs DEF Scheduled, Families
<1>4. \A q \in Proc : /\ st[q] \in Over <=> current[q] \in Over
                      /\ st[q] = "finished" <=> current[q] = "finished"
                      /\ st[q] = "rejected" <=> current[q] = "rejected"
                      /\ st[q] = "idle" <=> current[q] = "idle"
                      /\ st[q] = "new" <=> current[q] = "new"
  BY DEF Alive, Over
<1>5. \A q \in Proc : st[q] \notin Over => notes[q] = << >>
  BY <1>1, <1>4, UntoldUntilOver
<1>6. \A q \in Proc : NotesSound(q) /\ ~ Told(q)
  BY <1>1 DEF Notified, Told
<1>7. /\ current' \in [Proc -> States]
      /\ notes' \in [Proc -> Seq(Ended)]
      /\ \A q \in Proc \ {p} : current'[q] = st[q] /\ notes'[q] = notes[q]
      /\ \/ /\ stack' = Append(frames, Frame("tick", 0, p, "update"))
            /\ st[p] \notin Over \cup {"new"} /\ current'[p] = "running"
            /\ notes'[p] = << >>
         \/ /\ st[p] \in Ended /\ current'[p] = st[p]
            /\ stack' = Append(frames, Frame("tick", 0, p, st[p]))
            /\ notes'[p] = << st[p] >>
         \/ /\ stack' = frames /\ current'[p] = st[p] /\ notes'[p] = notes[p]
  <2>0. notes \in [Proc -> Seq(Ended)]
    BY DEF Typed
  <2>1. CASE st[p] \in {"idle", "running"}
    <3>1. /\ current' = [st EXCEPT ![p] = "running"] /\ notes' = notes
          /\ stack' = Append(frames, Frame("tick", 0, p, "update"))
      BY <2>1 DEF Tick, Called, Ended
    <3> QED BY <3>1, <2>0, <2>1, <1>3, <1>5 DEF States, Over
  <2>2. CASE st[p] \in Ended
    <3>1. /\ current' = st /\ notes' = [notes EXCEPT ![p] = Append(@, st[p])]
          /\ stack' = Append(frames, Frame("tick", 0, p, st[p]))
      BY <2>2 DEF Tick, Called, Ended
    <3>2. notes[p] = << >>
      BY <2>2, <1>3, <1>5 DEF Ended, Over
    <3> QED BY <3>1, <3>2, <2>0, <2>2, <1>3
  <2>3. CASE st[p] \notin {"idle", "running"} \cup Ended
    <3>1. current' = st /\ notes' = notes /\ stack' = frames
      BY <2>3 DEF Tick
    <3> QED BY <3>1, <2>0
  <2> QED BY <2>1, <2>2, <2>3
<1>8. Families'
  <2>1. \A q \in Proc : child[q] # None => child[q] \in Proc
    BY DEF Typed
  <2>2. \A q \in Proc : /\ current'[q] = "finished" <=> current[q] = "finished"
                        /\ q # p => (current'[q] = "idle" <=> current[q] = "idle")
                        /\ current'[q] = "new" <=> current[q] = "new"
    BY <1>3, <1>4, <1>7 DEF Ended, Over
  <2> QED BY <1>3, <2>1, <2>2 DEF Families, Started
<1>9. CASE stack' = frames /\ current'[p] = st[p] /\ notes'[p] = notes[p]
  <2>1. Typed'
    BY <1>7, <1>9 DEF Typed
  <2>2. Frames' /\ Telling'
    BY <1>2, <1>9 DEF Frames, Telling
  <2>3. Notified'
    BY ZenonT(60), <1>4, <1>6, <1>7, <1>9 DEF Notified, NotesSound
  <2> QED BY <2>1, <2>2, <2>3, <1>8 DEF TickedSoundly
<1>10. ASSUME NEW stage \in {"update"} \cup Ended,
              stack' = Append(frames, Frame("tick", 0, p, stage)),
              \/ /\ stage = "update" /\ st[p] \notin Over \cup {"new"}
                 /\ current'[p] = "running" /\ notes'[p] = << >>
              \/ stage = st[p] /\ stage \in Ended /\ current'[p] = st[p] /\ notes'[p] = << st[p] >>
       PROVE  TickedSoundly
  <2> DEFINE f == Frame("tick", 0, p, stage)
  <2>1. f \in FrameSet /\ f.kind = "tick" /\ f.proc = p /\ f.stage = stage
    BY <1>3 DEF FrameSet, Frame, Stages
  <2> HIDE DEF f
  <2>2. /\ stack' \in Seq(FrameSet) /\ stack' # << >> /\ Len(stack') = Len(frames) + 1
        /\ stack'[Len(frames) + 1] = f
        /\ \A k \in 1 .. Len(frames) : stack'[k] = frames[k]
    BY <1>10, <2>1, PushFacts DEF f, Pushed
  <2>3. Typed'
    BY <1>7, <2>2 DEF Typed
  <2>4. Frames'
    BY <1>1, <1>2, <1>3, <2>1, <2>2 DEF Frames, FrameSound
  <2>5. Telling'
    BY <1>1, <1>2, <1>3, <1>10, <2>1, <2>2 DEF Telling, Ended
  <2>6. Notified'
    <3> SUFFICES ASSUME NEW q \in Proc PROVE NotesSound(q)'
      BY DEF Notified
    <3>1. CASE q # p
      BY <3>1, <1>4, <1>6, <1>7 DEF NotesSound
    <3>2. CASE q = p
      BY <3>2, <1>1, <1>10, <2>1, <2>2 DEF NotesSound, Told, Over
    <3> QED BY <3>1, <3>2
  <2> QED BY <2>3, <2>4, <2>5, <2>6, <1>8 DEF TickedSoundly
<1> QED BY <1>7, <1>9, <1>10

LEMMA UpdateTickInv == ASSUME Inv, UpdateTick PROVE Inv'
<1> USE DEF Inv
<1> DEFINE f == [Top EXCEPT !.stage = "check"]
           p == handlers[Top.next]
           frames == Append(Front(stack), f)
<1>1. /\ stack # << >> /\ Top.kind = "update" /\ Top.stage = "tick" /\ Top.next > 0
      /\ Tick(p, frames, current) /\ due' = due \ {p} /\ handlers' = handlers /\ child' = child
  BY DEF UpdateTick, Called, Returned
<1>2. /\ Top = stack[Len(stack)] /\ Top \in FrameSet /\ Len(stack) = 1
      /\ Top.next \in 1 .. Len(handlers)
  <2>1. Top = stack[Len(stack)] /\ Top \in FrameSet /\ Len(stack) \in 1 .. Len(stack)
    BY <1>1, TopIs
  <2>2. FrameSound(Top, Len(stack), Len(handlers)) /\ Top.next \in Nat
    BY <2>1, FrameIs
  <2>3. Len(stack) = 1 /\ Top.next <= Len(handlers)
    BY <1>1, <2>2 DEF FrameSound
  <2> QED BY <1>1, <2>1, <2>2, <2>3, ScheduledIs
<1>3. f \in FrameSet /\ f.kind = "update" /\ f.stage = "check" /\ f.next = Top.next
  BY <1>1, <1>2 DEF FrameSet, Stages
<1> HIDE DEF f
<1>4. frames \in Seq(FrameSet) /\ Topped(stack, f, frames)
  BY <1>1, <1>3, TopFacts DEF Typed
<1>5. p \in Scheduled /\ p \in Proc
  BY <1>2, ScheduledIs
<1>6. FrameSound(f, 1, Len(handlers)) /\ f.stage \notin Ended /\ Top.stage \notin Ended
  <2>1. f.stage \notin Ended /\ Top.stage \notin Ended
    BY <1>1, <1>3 DEF Ended
  <2>2. f.next <= Len(handlers) /\ f.next > 0
    <3>1. Len(handlers) \in Nat
      BY ScheduledIs
    <3>2. Top.next <= Len(handlers) /\ Top.next > 0
      BY <1>2, <3>1
    <3> QED BY <1>3, <3>2
  <2> QED BY <1>3, <2>1, <2>2 DEF FrameSound
<1>7. frames[1] = f
  BY <1>2, <1>4 DEF Topped
<1>8. TickedSoundly
  <2>1. due' \subseteq Proc /\ current \in [Proc -> States]
    BY <1>1 DEF Typed
  <2> HIDE DEF frames, p
  <2> QED BY <1>1, <1>2, <1>4, <1>5, <1>6, <1>7, <2>1, TickSound
<1>9. stack'[1] = f
  <2>1. stack' = frames \/ \E g \in FrameSet : stack' = Append(frames, g)
    BY <1>1, <1>5 DEF Tick, Called, Frame, FrameSet, Stages, Ended
  <2> HIDE DEF frames
  <2> QED BY <2>1, <1>2, <1>4, <1>7, PushFacts DEF Topped, Pushed
<1>10. Cursor'
  <2>1. due = {handlers[n] : n \in 1 .. Top.next}
    BY <1>1, <1>2 DEF Cursor, Left
  <2>2. Left(f) = Top.next - 1
    BY <1>3 DEF Left
  <2>3. due' = {handlers[n] : n \in 1 .. Top.next - 1}
    <3> DEFINE m == Top.next
    <3>1. m \in 1 .. Len(handlers) /\ Len(handlers) \in Nat /\ due' = due \ {handlers[m]}
      BY <1>1, <1>2, ScheduledIs
    <3>2. due = {handlers[n] : n \in 1 .. m}
      BY <2>1
    <3>3. \A i, j \in 1 .. Len(handlers) : handlers[i] = handlers[j] => i = j
      BY ScheduledIs
    <3> HIDE DEF m
    <3>4. due' = {handlers[n] : n \in 1 .. m - 1}
      <4>1. \A n \in 1 .. m : n \in 1 .. Len(handlers) /\ (n # m <=> n \in 1 .. m - 1)
        BY <3>1
      <4>2. \A n \in 1 .. m - 1 : n \in 1 .. m /\ handlers[n] # handlers[m]
        BY <3>1, <3>3, <4>1
      <4> QED BY <3>1, <3>2, <4>1, <4>2
    <3> QED BY <3>4 DEF m
  <2> QED BY <1>1, <1>9, <2>2, <2>3 DEF Cursor
<1> QED BY <1>8, <1>10 DEF TickedSoundly

LEMMA AbortTickInv == ASSUME Inv, AbortTick PROVE Inv'
<1> USE DEF Inv
<1> DEFINE f == [Top EXCEPT !.next = @ + 1]
           p == handlers[Top.next]
           frames == Append(Front(stack), f)
<1>1. /\ stack # << >> /\ Top.kind = "abort" /\ Top.next <= Len(handlers)
      /\ Tick(p, frames, Aborted(p)) /\ due' = due /\ handlers' = handlers /\ child' = child
  BY DEF AbortTick, Called, Returned
<1>2. /\ Top = stack[Len(stack)] /\ Top \in FrameSet /\ Len(stack) \in 1 .. Len(stack)
      /\ Top.next \in 1 .. Len(handlers) /\ Top.stage = "tick"
  <2>1. Top = stack[Len(stack)] /\ Top \in FrameSet /\ Len(stack) \in 1 .. Len(stack)
    BY <1>1, TopIs
  <2> QED BY <1>1, <2>1, FrameIs, ScheduledIs DEF FrameSound
<1>3. f \in FrameSet /\ f.kind = "abort" /\ f.stage = "tick" /\ f.next = Top.next + 1
  BY <1>1, <1>2 DEF FrameSet, Stages
<1> HIDE DEF f
<1>4. frames \in Seq(FrameSet) /\ Topped(stack, f, frames)
  BY <1>1, <1>3, TopFacts DEF Typed
<1>5. p \in Scheduled /\ p \in Proc
  BY <1>2, ScheduledIs
<1>6. FrameSound(f, Len(stack), Len(handlers)) /\ f.stage \notin Ended /\ Top.stage \notin Ended
  BY <1>1, <1>2, <1>3 DEF FrameSound, Ended
<1>7. frames[Len(stack)] = f
  BY <1>2, <1>4 DEF Topped
<1>8. /\ Aborted(p) \in [Proc -> States]
      /\ \A q \in Proc : Aborted(p)[q] = current[q] \/ (Alive(q) /\ Aborted(p)[q] = "aborted")
  BY <1>5 DEF Aborted, Typed, States, Ended
<1>9. TickedSoundly
  <2>1. due' \subseteq Proc
    BY <1>1 DEF Typed
  <2> HIDE DEF frames, p
  <2> QED BY <1>1, <1>2, <1>4, <1>5, <1>6, <1>7, <1>8, <2>1, TickSound
<1>10. Cursor'
  <2>1. stack' = frames \/ \E g \in FrameSet : stack' = Append(frames, g)
    BY <1>1, <1>5 DEF Tick, Called, Frame, FrameSet, Stages, Ended
  <2>2. stack'[1] = frames[1]
    <3> HIDE DEF frames
    <3>1. Len(frames) \in Nat /\ Len(frames) > 0
      BY <1>2, <1>4, SeqFacts DEF Topped
    <3>2. 1 \in 1 .. Len(frames)
      BY <3>1
    <3> QED BY <2>1, <3>2, <1>4, PushFacts DEF Pushed
  <2>3. frames[1].kind = "update" => frames[1] = stack[1]
    BY <1>2, <1>3, <1>4, <1>7 DEF Topped
  <2> QED BY <1>1, <2>2, <2>3 DEF Cursor
<1> QED BY <1>9, <1>10 DEF TickedSoundly

LEMMA UpdateReturnsInv == ASSUME Inv, UpdateReturns PROVE Inv'
<1> USE DEF Inv
<1> DEFINE p == Top.proc
           f == [Top EXCEPT !.stage = current[p]]
<1>1. /\ stack # << >> /\ Top.kind = "tick" /\ Top.stage = "update"
      /\ handlers' = handlers /\ current' = current /\ child' = child /\ due' = due
  BY DEF UpdateReturns
<1>2. /\ Top = stack[Len(stack)] /\ Top \in FrameSet /\ Len(stack) \in 1 .. Len(stack)
      /\ Len(stack) \in Nat /\ p \in Proc
  <2>1. Top = stack[Len(stack)] /\ Top \in FrameSet /\ Len(stack) \in 1 .. Len(stack)
    BY <1>1, TopIs
  <2> QED BY <1>1, <2>1, FrameIs, TopIs DEF FrameSound
<1>3. "update" \notin Ended
  BY DEF Ended
<1>4. CASE current[p] \notin Ended
  <2>1. stack' = Returned /\ notes' = notes
    BY <1>4 DEF UpdateReturns
  <2> QED BY <1>1, <1>3, <2>1, ReturnedInv
<1>5. CASE current[p] \in Ended
  <2>1. stack' = Append(Front(stack), f) /\ notes' = [notes EXCEPT ![p] = Append(@, current[p])]
    BY <1>5 DEF UpdateReturns, Called, Returned
  <2>2. f \in FrameSet /\ f.kind = "tick" /\ f.proc = p /\ f.stage = current[p]
    BY <1>1, <1>2, <1>5 DEF FrameSet, Stages
  <2> HIDE DEF f
  <2>3. stack' \in Seq(FrameSet) /\ Topped(stack, f, stack')
    BY <1>1, <2>1, <2>2, TopFacts DEF Typed
  <2>4. notes[p] = << >>
    BY <1>1, <1>2, <1>3, <1>5, UntoldUntilOver DEF Ended, Over
  <2>5. notes' \in [Proc -> Seq(Ended)]
        /\ \A q \in Proc : notes'[q] = IF q = p THEN << current[p] >> ELSE notes[q]
    BY <1>2, <1>5, <2>1, <2>4 DEF Typed
  <2> HIDE DEF p
  <2>6. Typed'
    BY <1>1, <2>3, <2>5 DEF Typed
  <2>7. Frames'
    BY <1>1, <1>2, <1>5, <2>2, <2>3, FrameIs DEF Frames, FrameSound, Topped
  <2>8. Telling'
    <3>1. \A k \in 1 .. Len(stack) - 1 : stack'[k].stage \notin Ended
      BY <1>2, <2>3 DEF Telling, Topped
    <3> QED BY <3>1, <1>1, <1>2, <1>5, <2>2, <2>3, <2>5 DEF Telling, Topped
  <2>9. Notified'
    <3> SUFFICES ASSUME NEW q \in Proc PROVE NotesSound(q)'
      BY DEF Notified
    <3>1. CASE q = p
      BY <3>1, <1>1, <1>2, <1>5, <2>2, <2>3, <2>5 DEF NotesSound, Told, Topped
    <3>2. CASE q # p
      <4>1. ~ Told(q)
        BY <1>1, <1>2, <1>3 DEF Told
      <4> QED BY <3>2, <4>1, <1>1, <2>5 DEF Notified, NotesSound
    <3> QED BY <3>1, <3>2
  <2>10. Families'
    BY <1>1 DEF Families, Started, Scheduled
  <2>11. Cursor'
    <3>1. stack'[1].kind = "update" => stack'[1] = stack[1]
      BY <1>1, <1>2, <2>2, <2>3 DEF Topped
    <3> QED BY <1>1, <3>1 DEF Cursor
  <2> QED BY <2>6, <2>7, <2>8, <2>9, <2>10, <2>11
<1> QED BY <1>4, <1>5

LEMMA NotificationReturnsInv == ASSUME Inv, NotificationReturns PROVE Inv'
<1> USE DEF Inv
<1> DEFINE p == Top.proc
<1>1. /\ stack # << >> /\ Top.kind = "tick" /\ Top.stage \in Ended
      /\ current' = [current EXCEPT ![p] = Outcome(Top.stage)] /\ stack' = Front(stack)
      /\ handlers' = handlers /\ child' = child /\ due' = due /\ notes' = notes
  BY DEF NotificationReturns, Returned
<1>2. /\ Top = stack[Len(stack)] /\ Len(stack) \in 1 .. Len(stack) /\ Len(stack) \in Nat
  BY <1>1, TopIs
<1>3. p \in Proc /\ current[p] = Top.stage /\ notes[p] = << Top.stage >>
  BY <1>1, <1>2 DEF Telling
<1>4. stack' \in Seq(FrameSet) /\ Popped(stack, stack')
  BY <1>1, PopFacts DEF Typed
<1>5. /\ current' \in [Proc -> States]
      /\ \A q \in Proc : current'[q] = IF q = p THEN Outcome(Top.stage) ELSE current[q]
      /\ Outcome(Top.stage) \in Over
  BY <1>1, <1>3 DEF Typed, Outcome, States, Over
<1> HIDE DEF p
<1>6. Typed'
  BY <1>1, <1>4, <1>5 DEF Typed
<1>7. Frames'
  BY <1>1, <1>2, <1>4 DEF Frames, Popped
<1>8. Telling'
  <2>1. \A k \in 1 .. Len(stack') : stack'[k].stage \notin Ended
    BY <1>2, <1>4 DEF Telling, Popped
  <2> QED BY <2>1 DEF Telling
<1>9. Notified'
  <2> SUFFICES ASSUME NEW q \in Proc PROVE NotesSound(q)'
    BY DEF Notified
  <2>1. CASE q = p
    BY <2>1, <1>1, <1>3, <1>5 DEF NotesSound, Outcome, Ended
  <2>2. CASE q # p
    <3>1. ~ Told(q)
      BY <2>2, <1>2 DEF Told, p
    <3> QED BY <2>2, <3>1, <1>1, <1>5 DEF Notified, NotesSound
  <2> QED BY <2>1, <2>2
<1>10. Families'
  <2>1. Scheduled' = Scheduled /\ Scheduled \subseteq Proc
    BY <1>1, ScheduledIs DEF Scheduled
  <2>2. \A q \in Proc : child[q] # None => child[q] \in Proc
    BY DEF Typed
  <2>3. /\ current[p] \notin {"idle", "new", "finished"}
        /\ current'[p] \notin {"idle", "new"}
    BY <1>1, <1>3, <1>5 DEF Ended, Over
  <2> QED BY <1>1, <1>3, <1>5, <2>1, <2>2, <2>3 DEF Families, Started
<1>11. Cursor'
  <2>1. stack' # << >> => stack'[1] = stack[1]
    BY <1>2, <1>4, SeqFacts DEF Popped
  <2> QED BY <1>1, <2>1 DEF Cursor
<1> QED BY <1>6, <1>7, <1>8, <1>9, <1>10, <1>11

(* The vector after the check of position n: the process goes, and the one *)
(* that may come instead was not in the vector.                            *)
LEMMA UpdateCheckInv == ASSUME Inv, UpdateCheck PROVE Inv'
<1> USE DEF Inv
<1> DEFINE f == [Top EXCEPT !.stage = "tick", !.next = @ - 1]
           n == Top.next
           p == handlers[n]
           elem == Successor(p)
<1>1. /\ stack # << >> /\ Top.kind = "update" /\ Top.stage = "check"
      /\ handlers' = IF elem = None \/ (elem \in Proc /\ current[elem] = "rejected")
                     THEN Removed(n) ELSE [handlers EXCEPT ![n] = elem]
      /\ stack' = Append(Front(stack), f)
      /\ current' = current /\ child' = child /\ due' = due /\ notes' = notes
  BY DEF UpdateCheck, Called, Returned
<1>2. /\ Top = stack[Len(stack)] /\ Top \in FrameSet /\ Len(stack) = 1
      /\ n \in 1 .. Len(handlers)
  <2>1. Top = stack[Len(stack)] /\ Top \in FrameSet /\ Len(stack) \in 1 .. Len(stack)
    BY <1>1, TopIs
  <2>2. FrameSound(Top, Len(stack), Len(handlers)) /\ Top.next \in Nat
    BY <2>1, FrameIs
  <2>3. Len(stack) = 1 /\ Top.next <= Len(handlers) /\ Top.next > 0
    BY <1>1, <2>2 DEF FrameSound
  <2> QED BY <1>1, <2>1, <2>2, <2>3, ScheduledIs
<1>3. /\ f \in FrameSet /\ f.kind = "update" /\ f.stage = "tick" /\ f.next = n - 1
      /\ f.stage \notin Ended
  <2>1. n - 1 \in Nat
    BY <1>2, ScheduledIs
  <2> QED BY <1>1, <1>2, <2>1 DEF FrameSet, Stages, Ended
<1> HIDE DEF f
<1>4. stack' \in Seq(FrameSet) /\ Topped(stack, f, stack')
  BY <1>1, <1>3, TopFacts DEF Typed
<1>5. /\ Len(stack') = 1 /\ stack' # << >> /\ stack'[1] = f
  BY <1>2, <1>4 DEF Topped
<1>6. /\ p \in Scheduled /\ p \in Proc /\ Scheduled \subseteq Proc /\ Len(handlers) \in Nat
      /\ handlers \in Seq(Proc) /\ IsInjective(handlers)
  BY <1>2, ScheduledIs DEF Typed
<1>7. elem = p \/ (elem = child[p] /\ current[p] = "finished")
  BY DEF Successor
<1>8. /\ handlers' \in Seq(Proc) /\ IsInjective(handlers') /\ Len(handlers') >= n - 1
      /\ \A i \in 1 .. n - 1 : handlers'[i] = handlers[i]
      /\ \/ Scheduled' = Scheduled \/ Scheduled' = Scheduled \ {p}
         \/ /\ Scheduled' = (Scheduled \ {p}) \cup {elem} /\ elem \in Proc \ Scheduled
            /\ elem = child[p] /\ current[p] = "finished"
  <2> HIDE DEF n, p, elem
  <2>1. CASE handlers' = Removed(n)
    <3>1. handlers' \in Seq(Proc) /\ SwapPopped(handlers, n, handlers')
      BY <1>2, <1>6, <2>1, SwapPopFacts DEF Removed
    <3>2. IsInjective(handlers') /\ ToSet(handlers') = ToSet(handlers) \ {p}
      BY <1>2, <1>6, <3>1, SwapPopElements DEF p
    <3>3. Scheduled' = Scheduled \ {p}
      BY <3>2 DEF Scheduled
    <3>4. Len(handlers') >= n - 1 /\ \A i \in 1 .. n - 1 : handlers'[i] = handlers[i]
      BY <1>2, <1>6, <3>1 DEF SwapPopped
    <3> QED BY <3>1, <3>2, <3>3, <3>4
  <2>2. CASE elem = p /\ handlers' = [handlers EXCEPT ![n] = elem]
    <3>1. handlers' = handlers
      BY <1>2, <1>6, <2>2 DEF p
    <3> QED BY <1>2, <1>6, <3>1 DEF Scheduled
  <2>3. CASE elem # p /\ elem # None /\ handlers' = [handlers EXCEPT ![n] = elem]
    <3>1. elem = child[p] /\ current[p] = "finished" /\ elem \in Proc
      BY <1>6, <1>7, <2>3 DEF Typed
    <3>2. elem \notin Scheduled
      BY <1>6, <2>3, <3>1 DEF Families, Started
    <3>3. /\ Len(handlers') = Len(handlers) /\ DOMAIN handlers' = 1 .. Len(handlers)
          /\ \A i \in 1 .. Len(handlers) : handlers'[i] = IF i = n THEN elem ELSE handlers[i]
          /\ handlers' \in Seq(Proc)
      BY <1>2, <1>6, <2>3, <3>1
    <3>4. Scheduled = {handlers[i] : i \in 1 .. Len(handlers)}
          /\ \A i, j \in 1 .. Len(handlers) : handlers[i] = handlers[j] => i = j
      BY ScheduledIs
    <3>5. IsInjective(handlers')
      BY <3>2, <3>3, <3>4 DEF IsInjective
    <3>6. Scheduled' = {handlers'[i] : i \in 1 .. Len(handlers)}
      BY <3>3 DEF Scheduled, ToSet
    <3>7. Scheduled' = (Scheduled \ {p}) \cup {elem}
      BY <1>2, <3>2, <3>3, <3>4, <3>6 DEF p
    <3>8. Len(handlers') >= n - 1 /\ \A i \in 1 .. n - 1 : handlers'[i] = handlers[i]
      BY <1>2, <1>6, <3>3
    <3> QED BY <3>1, <3>2, <3>3, <3>5, <3>7, <3>8
  <2> QED BY <1>1, <2>1, <2>2, <2>3
<1>9. Typed'
  BY <1>1, <1>4, <1>8 DEF Typed
<1>10. Frames'
  <2>1. Len(handlers') \in Nat
    BY <1>8
  <2>2. FrameSound(f, 1, Len(handlers'))
    BY <1>3, <1>8 DEF FrameSound
  <2> QED BY <1>5, <2>2 DEF Frames
<1>11. Telling'
  BY <1>3, <1>5 DEF Telling
<1>12. Notified'
  <2>1. \A q \in Proc : ~ Told(q)
    BY <1>1, <1>2 DEF Told, Ended
  <2> QED BY <1>1, <2>1 DEF Notified, NotesSound
<1>13. Families'
  <2>1. \A q \in Proc : child[q] # None => child[q] \in Proc
    BY DEF Typed
  <2>2. CASE Scheduled' \subseteq Scheduled
    BY <1>1, <1>6, <2>1, <2>2 DEF Families, Started
  <2>3. CASE /\ Scheduled' = (Scheduled \ {p}) \cup {elem} /\ elem \in Proc \ Scheduled
             /\ elem = child[p] /\ current[p] = "finished"
    <3> HIDE DEF p, elem
    <3>1. elem # None /\ child[p] # None
      BY <2>3, NoneAssumption
    <3>2. ASSUME NEW q \in Scheduled' PROVE current[q] # "new"
      BY <1>6, <2>3, <3>1, <3>2 DEF Families
    <3>3. ASSUME NEW q \in Proc, child[q] # None,
                 child[q] \in Scheduled' \/ current[child[q]] # "idle"
          PROVE  current[q] = "finished" /\ q \notin Scheduled'
      <4>1. CASE child[q] = elem
        <5>1. q = p
          BY <1>6, <2>3, <3>1, <4>1 DEF Families
        <5> QED BY <5>1, <1>6, <2>3
      <4>2. CASE child[q] # elem
        <5>1. current[q] = "finished" /\ q \notin Scheduled
          BY <2>3, <3>3, <4>2 DEF Families, Started
        <5>2. q # elem
          BY <5>1, <1>6, <2>3, <3>1 DEF Families, Started
        <5> QED BY <5>1, <5>2, <2>3
      <4> QED BY <4>1, <4>2
    <3> QED BY <1>1, <3>2, <3>3 DEF Families, Started
  <2> QED BY <1>8, <2>2, <2>3
<1>14. Cursor'
  <2>1. due = {handlers[i] : i \in 1 .. n - 1}
    BY <1>1, <1>2 DEF Cursor, Left
  <2>2. Left(f) = n - 1
    BY <1>3 DEF Left
  <2> HIDE DEF n
  <2>3. due' = {handlers'[i] : i \in 1 .. n - 1}
    BY <1>1, <1>8, <2>1
  <2> QED BY <1>5, <2>2, <2>3 DEF Cursor
<1> QED BY <1>9, <1>10, <1>11, <1>12, <1>13, <1>14

-------------------------------------------------------------------------------
LEMMA InitInv == Init => Inv
<1> SUFFICES ASSUME Init PROVE Inv
  OBVIOUS
<1>1. /\ handlers = << >> /\ stack = << >> /\ due = {}
      /\ current = [p \in Proc |-> "new"] /\ child = [p \in Proc |-> None]
      /\ notes = [p \in Proc |-> << >>]
  BY DEF Init
<1>2. Len(stack) = 0 /\ Scheduled = {}
  BY <1>1 DEF Scheduled, ToSet
<1>3. Typed
  BY <1>1 DEF Typed, States, IsInjective
<1>4. Frames /\ Telling /\ Cursor
  BY <1>1, <1>2 DEF Frames, Telling, Cursor
<1>5. Notified
  BY <1>1 DEF Notified, NotesSound, Over
<1>6. Families
  BY <1>1, <1>2 DEF Families, Started
<1> QED BY <1>3, <1>4, <1>5, <1>6 DEF Inv

LEMMA StepInv == Inv /\ [Next]_vars => Inv'
<1> SUFFICES ASSUME Inv, [Next]_vars PROVE Inv'
  OBVIOUS
<1>1. CASE Calls
  BY <1>1, AttachInv, ThenInv, SignalInv, ClearInv, AbortLaterInv, AbortNowInv DEF Calls
<1>2. CASE Update
  BY <1>2, UpdateInv
<1>3. CASE Loops
  BY <1>3, UpdateTickInv, UpdateCheckInv, UpdateEndsInv, AbortTickInv, AbortEndsInv DEF Loops
<1>4. CASE Returns
  BY <1>4, UpdateReturnsInv, NotificationReturnsInv DEF Returns
<1>5. CASE UNCHANGED vars
  BY <1>5 DEF vars, Inv, Typed, Frames, Telling, Notified, NotesSound, Told, Families, Started,
              Scheduled, Cursor
<1> QED BY <1>1, <1>2, <1>3, <1>4, <1>5 DEF Next

-------------------------------------------------------------------------------
(* What the invariant says of the properties.                              *)

LEMMA InvOneTickEach == Inv => OneTickEach
<1> SUFFICES ASSUME Inv PROVE OneTickEach
  OBVIOUS
<1> USE DEF Inv
<1>1. DOMAIN stack = 1 .. Len(stack) /\ Len(stack) \in Nat
  BY DEF Typed
<1>2. TypeOK
  <2> SUFFICES ASSUME NEW k \in DOMAIN stack
               PROVE  /\ stack[k].kind \in {"update", "abort", "tick"}
                      /\ stack[k].kind = "update" => k = 1 /\ stack[k].next <= Len(handlers)
    BY DEF TypeOK, Typed
  <2> QED BY <1>1, FrameIs DEF FrameSet, FrameSound
<1>3. ASSUME stack # << >>, Head(stack).kind = "update"
      PROVE  ToSet(SubSeq(handlers, 1, Left(Head(stack)))) = due
  <2> DEFINE m == Left(stack[1])
  <2>1. Head(stack) = stack[1] /\ 1 \in 1 .. Len(stack)
    BY <1>3 DEF Typed
  <2>2. m \in Nat /\ m <= Len(handlers)
    <3>1. FrameSound(stack[1], 1, Len(handlers)) /\ stack[1].next \in Nat /\ Len(handlers) \in Nat
      BY <2>1, FrameIs, ScheduledIs
    <3> QED BY <1>3, <2>1, <3>1 DEF FrameSound, Left
  <2>3. due = {handlers[i] : i \in 1 .. m}
    BY <1>3, <2>1 DEF Cursor
  <2> HIDE DEF m
  <2>4. PICK t : t = SubSeq(handlers, 1, m)
    OBVIOUS
  <2>5. /\ t \in Seq(Proc) /\ Len(t) = m
        /\ \A i \in 1 .. m : t[i] = handlers[i]
    BY <2>2, <2>4, ScheduledIs DEF Typed
  <2>6. ToSet(t) = {t[i] : i \in 1 .. m}
    BY <2>2, <2>5 DEF ToSet
  <2>7. ToSet(t) = due
    BY <2>3, <2>5, <2>6
  <2> QED BY <2>1, <2>4, <2>7 DEF m
<1> QED BY <1>2, <1>3 DEF OneTickEach, Left

LEMMA InvNotifiedOnce == Inv => NotifiedOnce
<1> SUFFICES ASSUME Inv, NEW p \in Proc
             PROVE  /\ Len(notes[p]) <= 1
                    /\ current[p] = "finished" => notes[p] = << "succeeded" >>
                    /\ current[p] = "rejected" => notes[p] \in {<< "failed" >>, << "aborted" >>}
  BY DEF NotifiedOnce
<1>1. \A x : Len(<< x >>) = 1
  OBVIOUS
<1>2. CASE Told(p)
  <2>1. current[p] \in Ended /\ notes[p] = << current[p] >>
    BY <1>2, ToldIsEnded DEF Inv
  <2>2. Len(notes[p]) = 1
    BY <1>1, <2>1
  <2> QED BY <2>1, <2>2 DEF Ended
<1>3. CASE ~ Told(p)
  <2>1. CASE notes[p] = << >> /\ current[p] \notin Over
    <3>1. Len(notes[p]) = 0
      BY <2>1
    <3> QED BY <2>1, <3>1 DEF Over
  <2>2. CASE notes[p] = << "succeeded" >> /\ current[p] = "finished"
    <3>1. Len(notes[p]) = 1
      BY <1>1, <2>2
    <3> QED BY <2>2, <3>1
  <2>3. CASE notes[p] \in {<< "failed" >>, << "aborted" >>} /\ current[p] = "rejected"
    <3>1. CASE notes[p] = << "failed" >>
      BY <1>1, <2>3, <3>1
    <3>2. CASE notes[p] = << "aborted" >>
      BY <1>1, <2>3, <3>2
    <3> QED BY <2>3, <3>1, <3>2
  <2> QED BY <1>3, <2>1, <2>2, <2>3 DEF Inv, Notified, NotesSound
<1> QED BY <1>2, <1>3

LEMMA InvChildrenOfSuccess == Inv => ChildrenOfSuccess
BY DEF Inv, Families, Started, ChildrenOfSuccess

(* A tick that begins is that of a process nobody told anything, or goes   *)
(* with its first notification.                                            *)
LEMMA TickNotTold ==
  ASSUME Inv, stack # << >>, Top.stage \notin Ended,
         NEW frames \in Seq(FrameSet), Len(frames) = Len(stack), frames # << >>,
         frames[Len(stack)].kind # "tick",
         NEW st, NEW q \in Proc, st[q] = current[q] \/ (Alive(q) /\ st[q] = "aborted"),
         Tick(q, frames, st), NEW p \in Proc, notes[p] # << >>
  PROVE  ~ (Len(stack') > Len(stack) /\ Last(stack').kind = "tick" /\ Last(stack').proc = p)
<1>1. Top = stack[Len(stack)]
  BY TopIs DEF Inv
<1>2. current[p] \in Over
  BY <1>1, UntoldUntilOver DEF Inv
<1>3. CASE q = p
  <2>1. st[q] \notin {"idle", "running"} \cup Ended
    BY <1>2, <1>3 DEF Over, Ended, Alive
  <2>2. stack' = frames
    BY <2>1 DEF Tick
  <2> QED BY <2>2, SeqFacts DEF Inv, Typed
<1>4. CASE q # p
  <2>1. ASSUME NEW stage \in {"update"} \cup Ended,
               stack' = Append(frames, Frame("tick", 0, q, stage))
        PROVE  Last(stack').proc = q
    <3>1. Frame("tick", 0, q, stage) \in FrameSet /\ Frame("tick", 0, q, stage).proc = q
      BY DEF Frame, FrameSet, Stages
    <3>2. PICK f : f = Frame("tick", 0, q, stage)
      OBVIOUS
    <3>3. stack' \in Seq(FrameSet) /\ Pushed(frames, f, stack') /\ f.proc = q
      BY <2>1, <3>1, <3>2, PushFacts
    <3> QED BY <3>3 DEF Pushed, Last
  <2>2. \/ stack' = frames
        \/ \E stage \in {"update"} \cup Ended : stack' = Append(frames, Frame("tick", 0, q, stage))
    BY DEF Tick, Called
  <2>3. CASE stack' = frames
    BY <2>3, SeqFacts DEF Inv, Typed
  <2> QED BY <1>4, <2>1, <2>2, <2>3
<1> QED BY <1>3, <1>4

(* A step with which a tick of p begins.                                   *)
Begins(p) ==
  Len(stack') > Len(stack) /\ Last(stack').kind = "tick" /\ Last(stack').proc = p

LEMMA LoopNotTold ==
  ASSUME Inv, UpdateTick \/ AbortTick, NEW p \in Proc, notes[p] # << >>
  PROVE  ~ Begins(p)
<1>1. stack # << >> /\ Top.kind \in {"update", "abort"}
  BY DEF UpdateTick, AbortTick
<1>2. Top = stack[Len(stack)] /\ Top \in FrameSet /\ Len(stack) \in 1 .. Len(stack)
  BY <1>1, TopIs DEF Inv
<1>3. FrameSound(Top, Len(stack), Len(handlers)) /\ Top.next \in Nat
  BY <1>2, FrameIs DEF Inv
<1>4. Top.stage \notin Ended
  BY <1>1, <1>3 DEF FrameSound, Ended
<1>5. \E q \in Proc, f \in FrameSet : \E st \in {current, Aborted(q)} :
        f.kind # "tick" /\ Tick(q, Append(Front(stack), f), st)
  <2>1. CASE UpdateTick
    <3>1. [Top EXCEPT !.stage = "check"] \in FrameSet /\ [Top EXCEPT !.stage = "check"].kind = Top.kind
      BY <1>2 DEF FrameSet, Stages
    <3>2. Top.next \in 1 .. Len(handlers)
      BY <2>1, <1>3, ScheduledIs DEF UpdateTick, FrameSound, Inv
    <3>3. handlers[Top.next] \in Proc
      BY <3>2, ScheduledIs DEF Inv
    <3>4. Tick(handlers[Top.next], Append(Front(stack), [Top EXCEPT !.stage = "check"]), current)
      BY <2>1 DEF UpdateTick, Called, Returned
    <3> QED BY <1>1, <3>1, <3>3, <3>4
  <2>2. CASE AbortTick
    <3> DEFINE f == [Top EXCEPT !.next = @ + 1]
    <3>1. f \in FrameSet /\ f.kind = Top.kind
      BY <1>2, <1>3 DEF FrameSet
    <3>2. Top.next \in 1 .. Len(handlers)
      BY <2>2, <1>3, ScheduledIs DEF AbortTick, FrameSound, Inv
    <3>3. handlers[Top.next] \in Proc
      BY <3>2, ScheduledIs DEF Inv
    <3>4. Tick(handlers[Top.next], Append(Front(stack), f), Aborted(handlers[Top.next]))
      BY <2>2 DEF AbortTick, Called, Returned
    <3> QED BY <1>1, <3>1, <3>3, <3>4
  <2> QED BY <2>1, <2>2
<1>6. PICK q \in Proc, f \in FrameSet :
        \E st \in {current, Aborted(q)} : f.kind # "tick" /\ Tick(q, Append(Front(stack), f), st)
  BY <1>5
<1>6a. PICK st \in {current, Aborted(q)} : f.kind # "tick" /\ Tick(q, Append(Front(stack), f), st)
  BY <1>6
<1>7. PICK frames : frames = Append(Front(stack), f)
  OBVIOUS
<1>8. frames \in Seq(FrameSet) /\ Topped(stack, f, frames)
  BY <1>1, <1>7, TopFacts DEF Inv, Typed
<1>9. st[q] = current[q] \/ (Alive(q) /\ st[q] = "aborted")
  BY <1>6a DEF Aborted, Inv, Typed
<1> QED BY <1>1, <1>4, <1>6a, <1>7, <1>8, <1>9, TickNotTold DEF Topped, Begins

LEMMA StepNotTold ==
  ASSUME Inv, Next, NEW p \in Proc, notes[p] # << >>
  PROVE  ~ Begins(p)
<1>1. stack \in Seq(FrameSet) /\ Len(stack) \in Nat
  BY DEF Inv, Typed
<1>2. CASE stack' = stack
  BY <1>1, <1>2 DEF Begins
<1>3. CASE AbortNow \/ Update
  <2>1. PICK f : f \in FrameSet /\ f.kind # "tick" /\ stack' = Append(stack, f)
    <3>1. /\ Frame("abort", 1, None, "tick") \in FrameSet
          /\ Frame("update", Len(handlers), None, "tick") \in FrameSet
          /\ Frame("abort", 1, None, "tick").kind = "abort"
          /\ Frame("update", Len(handlers), None, "tick").kind = "update"
      BY ScheduledIs DEF Inv, Frame, FrameSet, Stages
    <3>2. stack = << >> => \A x : << x >> = Append(stack, x)
      OBVIOUS
    <3> QED BY <1>3, <3>1, <3>2 DEF AbortNow, Update, Called
  <2>2. Pushed(stack, f, stack')
    BY <1>1, <2>1, PushFacts
  <2> QED BY <2>1, <2>2 DEF Pushed, Begins, Last
<1>4. CASE UpdateTick \/ AbortTick
  BY <1>4, LoopNotTold
<1>5. CASE stack # << >> /\ \E f \in FrameSet : stack' = Append(Front(stack), f)
  BY <1>1, <1>5, TopFacts DEF Topped, Begins
<1>6. CASE stack # << >> /\ stack' = Front(stack)
  BY <1>1, <1>6, PopFacts DEF Popped, Begins
<1>7. CASE UpdateReturns
  <2>1. Top \in FrameSet /\ Top.proc \in Proc
    <3>1. stack # << >> /\ Top.kind = "tick"
      BY <1>7 DEF UpdateReturns
    <3>2. Top = stack[Len(stack)] /\ Top \in FrameSet /\ Len(stack) \in 1 .. Len(stack)
      BY <3>1, TopIs DEF Inv
    <3> QED BY <3>1, <3>2, FrameIs DEF Inv, FrameSound
  <2>2. current[Top.proc] \in Ended => [Top EXCEPT !.stage = current[Top.proc]] \in FrameSet
    BY <2>1 DEF FrameSet, Stages
  <2> QED BY <1>5, <1>6, <1>7, <2>2 DEF UpdateReturns, Called, Returned
<1>8. CASE UpdateCheck
  <2>1. stack # << >> /\ Top \in FrameSet /\ Top.kind = "update" /\ Top.stage = "check"
    BY <1>8, TopIs DEF UpdateCheck, Inv
  <2>2. Top.next - 1 \in Nat
    BY <2>1, TopIs, FrameIs DEF Inv, FrameSound
  <2>3. [Top EXCEPT !.stage = "tick", !.next = @ - 1] \in FrameSet
    BY <2>1, <2>2 DEF FrameSet, Stages
  <2> QED BY <1>5, <1>8, <2>3 DEF UpdateCheck, Called, Returned
<1> QED BY <1>2, <1>3, <1>4, <1>6, <1>7, <1>8
        DEF Next, Calls, Loops, Returns, Attach, Then, Signal, Clear, AbortLater, UpdateEnds,
            AbortEnds, NotificationReturns, Returned

-------------------------------------------------------------------------------
(* For any processes and any nesting of callbacks: the processes before    *)
(* the cursor of basic_scheduler::update are those that still wait for     *)
(* their tick, and no process is in the vector twice.                      *)
THEOREM SchedulerOneTickEach == Spec => []OneTickEach
BY InitInv, StepInv, InvOneTickEach, PTL DEF Spec

(* A process is told once, and what basic_process::tick tells it is the    *)
(* state it ended in, however abort and the signals cross it.              *)
THEOREM SchedulerNotifiedOnce == Spec => []NotifiedOnce
BY InitInv, StepInv, InvNotifiedOnce, PTL DEF Spec

(* The child that then() assigned runs, or enters the vector, only after   *)
(* its parent has finished.                                                *)
THEOREM SchedulerChildrenOfSuccess == Spec => []ChildrenOfSuccess
BY InitInv, StepInv, InvChildrenOfSuccess, PTL DEF Spec

(* No step of the program or of the scheduler executes a process that has  *)
(* been told how it ended.                                                 *)
THEOREM SchedulerNeverAgain == Spec => NeverAgain
<1>1. Inv /\ [Next]_vars
        => [\A p \in Proc : notes[p] # << >> =>
              ~ (Len(stack') > Len(stack) /\ Last(stack').kind = "tick"
                 /\ Last(stack').proc = p)]_vars
  BY StepNotTold DEF Begins
<1> QED BY <1>1, InitInv, StepInv, PTL DEF Spec, NeverAgain
===============================================================================
