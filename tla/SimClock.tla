------------------------------ MODULE SimClock ------------------------------
(***************************************************************************)
(* SimulatedClock (r30rg-core/src/time.rs): the simulated time source and  *)
(* the heap of scheduled events.  The heap is a multiset of (tick, id)     *)
(* pairs; here it is a set, and two equal pairs are told apart by seq, the *)
(* number of events scheduled before them, which no operation looks at.    *)
(***************************************************************************)
EXTENDS Integers

VARIABLES
  tick,         \* the current tick
  events,       \* the scheduled events: [tick, id, seq]
  scheduled     \* how many events were ever scheduled (only feeds seq)

clockVars == <<tick, events, scheduled>>

Event == [tick : Nat, id : Nat, seq : Nat]

ClockTypeOK ==
  /\ tick \in Nat
  /\ events \subseteq Event
  /\ scheduled \in Nat

ClockInit ==
  /\ tick = 0
  /\ events = {}
  /\ scheduled = 0

-----------------------------------------------------------------------------

\* Mutants of the operators below.
IsDueStrictly(e) == e.tick < tick
PeekDueEvent(e) ==
  (\A f \in events : ~(f.tick < e.tick)) /\ e \in events /\ e.tick <= tick
  /\ UNCHANGED clockVars

\* The derived order of ScheduledEvent: by tick, then by id.
Before(e, f) ==
  \/ e.tick < f.tick
  \/ e.tick = f.tick /\ e.id < f.id

\* e is at the top of the min-heap.
IsNext(e) == e \in events /\ \A f \in events : ~Before(f, e)

IsDue(e) == e.tick <= tick

NothingDue == \A e \in events : ~IsDue(e)

-----------------------------------------------------------------------------

Advance(n) ==
  /\ tick' = tick + n
  /\ UNCHANGED <<events, scheduled>>

Schedule(at, id) ==
  /\ events' = events \cup {[tick |-> at, id |-> id, seq |-> scheduled]}
  /\ scheduled' = scheduled + 1
  /\ UNCHANGED tick

\* next_due_event when it returns e; it returns None when NothingDue.
NextDueEvent(e) ==
  /\ IsNext(e)
  /\ IsDue(e)
  /\ events' = events \ {e}
  /\ UNCHANGED <<tick, scheduled>>

=============================================================================
