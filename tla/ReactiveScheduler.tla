------------------------- MODULE ReactiveScheduler -------------------------
(***************************************************************************)
(* ReactiveScheduler over a behaviour tree.  An event asks for a tick of   *)
(* the tree; the queue is drained by a microtask, one tick at a time.      *)
(* Priorities with ageing choose which event goes first: any may, so the   *)
(* queue is its length.  runUntilSettled has one caller at a time, the     *)
(* loop's tick, and waiter is its promise.                                 *)
(***************************************************************************)
EXTENDS Integers

CONSTANT MaxQueue   \* bound of the events that wait before another is emitted

ASSUME QueueAssumption == MaxQueue \in Nat \ {0}

VARIABLES
  queue,       \* number of events waiting for a tick
  scheduled,   \* a microtask that drains the queue is pending
  ticking,     \* processing: a tick of the tree is under way
  stopped,
  lastResult,  \* status of the last tick of the tree
  waiter       \* "none", "waiting", or what the promise was settled with

schedulerVars == <<queue, scheduled, ticking, stopped, lastResult, waiter>>

SchedulerTypeOK ==
  /\ queue \in 0..(MaxQueue + 1)
  /\ scheduled \in BOOLEAN /\ ticking \in BOOLEAN /\ stopped \in BOOLEAN
  /\ lastResult \in {"running", "terminal"}
  /\ waiter \in {"none", "waiting", "running", "terminal", "error", "cancelled"}

SchedulerInit ==
  /\ queue = 0 /\ scheduled = FALSE /\ ticking = FALSE /\ stopped = FALSE
  /\ lastResult = "running" /\ waiter = "none"

(* resolveSettlers and rejectSettlers. *)
SettleWith(outcome) == waiter' = IF waiter = "waiting" THEN outcome ELSE waiter

(* enqueue, from the blackboard's or the stigmergic field's listener.         *)
Enqueue ==
  /\ ~stopped /\ queue < MaxQueue
  /\ queue' = queue + 1
  /\ scheduled' = (scheduled \/ ~ticking)
  /\ UNCHANGED <<ticking, stopped, lastResult, waiter>>

(* runUntilSettled, with the run's first event or with none.  Mutant: it      *)
(* waits for a tick even when the tree has had its last.                      *)
RunUntilNextTick(initial) ==
  LET pending == IF initial /\ ~stopped THEN queue + 1 ELSE queue IN
  /\ queue' = pending
  /\ scheduled' = (scheduled \/ (~ticking /\ ~stopped /\ pending > 0))
  /\ waiter' = "waiting"
  /\ UNCHANGED <<ticking, stopped, lastResult>>
RunUntilSettled(initial) ==
  LET pending == IF initial /\ ~stopped THEN queue + 1 ELSE queue IN
  /\ queue' = pending
  /\ scheduled' = (scheduled \/ (~ticking /\ ~stopped /\ pending > 0))
  /\ waiter' = IF ~ticking /\ pending = 0 THEN lastResult ELSE "waiting"
  /\ UNCHANGED <<ticking, stopped, lastResult>>

(* The microtask starts to drain the queue, unless it comes too late.         *)
(* Mutant: it does not look whether the scheduler was stopped.                *)
DrainAnyway ==
  /\ scheduled /\ scheduled' = FALSE
  /\ IF ticking THEN UNCHANGED <<queue, ticking>>
     ELSE queue' = queue - 1 /\ ticking' = TRUE
  /\ UNCHANGED <<stopped, lastResult, waiter>>
Drain ==
  /\ scheduled /\ scheduled' = FALSE
  /\ IF ticking \/ stopped THEN UNCHANGED <<queue, ticking>>
     ELSE queue' = queue - 1 /\ ticking' = TRUE
  /\ UNCHANGED <<stopped, lastResult, waiter>>

(* A tick of the tree throws, ends the tree, or leaves it running.            *)
TickThrows ==
  /\ ticking /\ ticking' = FALSE
  /\ stopped' = TRUE
  /\ SettleWith("error")
  /\ UNCHANGED <<queue, scheduled, lastResult>>

TickEndsTree ==
  /\ ticking /\ ticking' = FALSE
  /\ lastResult' = "terminal" /\ stopped' = TRUE
  /\ SettleWith("terminal")
  /\ UNCHANGED <<queue, scheduled>>

(* With more events: the next tick, or a yield when the batch was long, or    *)
(* neither when the scheduler was stopped meanwhile, and nobody is told.      *)
(* Mutant: the yield forgets to schedule the rest.                            *)
TickLeavesMoreUnscheduled ==
  /\ ticking /\ queue > 0
  /\ lastResult' = "running"
  /\ \/ ~stopped /\ queue' = queue - 1 /\ UNCHANGED <<ticking, scheduled>>
     \/ ~stopped /\ ticking' = FALSE /\ UNCHANGED <<queue, scheduled>>
     \/ stopped /\ ticking' = FALSE /\ UNCHANGED <<queue, scheduled>>
  /\ UNCHANGED <<stopped, waiter>>
TickLeavesMore ==
  /\ ticking /\ queue > 0
  /\ lastResult' = "running"
  /\ \/ ~stopped /\ queue' = queue - 1 /\ UNCHANGED <<ticking, scheduled>>
     \/ ~stopped /\ ticking' = FALSE /\ scheduled' = TRUE /\ UNCHANGED queue
     \/ stopped /\ ticking' = FALSE /\ UNCHANGED <<queue, scheduled>>
  /\ UNCHANGED <<stopped, waiter>>

TickEmptiesQueue ==
  /\ ticking /\ ticking' = FALSE /\ queue = 0
  /\ lastResult' = "running"
  /\ SettleWith("running")
  /\ UNCHANGED <<queue, scheduled, stopped>>

TickEnds == TickThrows \/ TickEndsTree \/ TickLeavesMore \/ TickEmptiesQueue
=============================================================================
