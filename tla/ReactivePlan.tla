---------------------------- MODULE ReactivePlan ----------------------------
(***************************************************************************)
(* One call of plan_run_reactive: a ReactiveScheduler driven by an         *)
(* ExecutionLoop, a cancellation handle and the lifecycle registry.  The   *)
(* loop's timer and the run's time limit are macrotasks, and come when no  *)
(* microtask is left; everything else may come in between.                 *)
(***************************************************************************)
EXTENDS ReactiveScheduler, PlanLifecycle

CONSTANT HasTimeout   \* the call has a timeout_ms

ASSUME TimeoutAssumption == HasTimeout \in BOOLEAN

VARIABLES
  loop,        \* state of the ExecutionLoop
  loopTick,    \* its tick: "none", "tick", or its reconcilers,
               \* "report" before an event and "reconcile" without
  firstTick,   \* its tick count is 0
  call,        \* executePlanRunReactive: "running", "stopping" or "returned"
  outcome,     \* runPromise
  cancelled    \* the operation's signal is aborted

runVars == <<loop, loopTick, firstTick, call, outcome, cancelled>>
vars == <<schedulerVars, lifecycleVars, runVars>>

PlanTypeOK ==
  /\ SchedulerTypeOK /\ LifecycleTypeOK
  /\ loop \in {"running", "paused", "idle"}
  /\ loopTick \in {"none", "tick", "report", "reconcile"}
  /\ firstTick \in BOOLEAN /\ cancelled \in BOOLEAN
  /\ call \in {"running", "stopping", "returned"}
  /\ outcome \in {"pending", "finished", "failed", "timeout"}
  /\ loopTick = "tick" <=> waiter # "none"

PlanInit ==
  /\ SchedulerInit /\ LifecycleInit
  /\ loop = "running" /\ loopTick = "none" /\ firstTick = TRUE
  /\ call = "running" /\ outcome = "pending" /\ cancelled = FALSE

NoMicrotask ==
  /\ ~scheduled /\ calls = <<>>
  /\ waiter \in {"none", "waiting"}
  /\ outcome # "pending" => call # "running"

-----------------------------------------------------------------------------
(* The scheduler's own steps; a tick that begins or ends is published.        *)
EventEmitted == Enqueue /\ UNCHANGED <<lifecycleVars, runVars>>
TreeTickBegins ==
  /\ Drain
  /\ IF ticking' /\ ~ticking THEN Progressed ELSE UNCHANGED lifecycleVars
  /\ UNCHANGED runVars
TreeTickEnds == TickEnds /\ Progressed /\ UNCHANGED runVars

(* runTick, up to the await of runUntilSettled.  A cancelled run's loop is    *)
(* idle, so its tick never finds the signal aborted.  Mutant: a tick starts   *)
(* while the last one is still processed.                                     *)
LoopTimerOverlaps ==
  /\ NoMicrotask
  /\ loop = "running"
  /\ IF outcome # "pending"
     THEN loopTick' = "reconcile" /\ UNCHANGED schedulerVars
     ELSE loopTick' = "tick" /\ RunUntilSettled(firstTick)
  /\ UNCHANGED <<lifecycleVars, loop, firstTick, call, outcome, cancelled>>
LoopTimer ==
  /\ NoMicrotask
  /\ loop = "running" /\ loopTick = "none"
  /\ IF outcome # "pending"
     THEN loopTick' = "reconcile" /\ UNCHANGED schedulerVars
     ELSE loopTick' = "tick" /\ RunUntilSettled(firstTick)
  /\ UNCHANGED <<lifecycleVars, loop, firstTick, call, outcome, cancelled>>

(* The tick's continuation: finish, fail, or wait for the next tick.          *)
LoopTickContinues ==
  /\ loopTick = "tick" /\ waiter # "waiting"
  /\ loopTick' = IF waiter \in {"running", "terminal"} THEN "report" ELSE "reconcile"
  /\ waiter' = "none" /\ firstTick' = FALSE
  /\ outcome' = IF outcome # "pending" \/ waiter = "running" THEN outcome
                ELSE IF waiter = "terminal" THEN "finished" ELSE "failed"
  /\ stopped' = (stopped \/ outcome' = "failed")
  /\ UNCHANGED <<queue, scheduled, ticking, lastResult, lifecycleVars, loop, call,
                 cancelled>>

(* The reconcilers have run, and a tick that was not an error is published.   *)
LoopTickEnds ==
  /\ loopTick \in {"report", "reconcile"} /\ loopTick' = "none"
  /\ IF loopTick = "report" THEN Progressed ELSE UNCHANGED lifecycleVars
  /\ UNCHANGED <<schedulerVars, loop, firstTick, call, outcome, cancelled>>

(* The time limit fails the run and stops its scheduler.                      *)
Timeout ==
  /\ HasTimeout /\ NoMicrotask /\ outcome = "pending"
  /\ outcome' = "timeout" /\ stopped' = TRUE
  /\ UNCHANGED <<queue, scheduled, ticking, lastResult, waiter, lifecycleVars, loop,
                 loopTick, firstTick, call, cancelled>>

(* requestCancellation, and its listeners in their order: the scheduler's if  *)
(* it still listens, the run's.                                               *)
Cancel ==
  /\ call # "returned"
  /\ cancelled' = TRUE /\ stopped' = TRUE /\ loop' = "idle"
  /\ IF stopped THEN UNCHANGED waiter ELSE SettleWith("cancelled")
  /\ Aborted
  /\ UNCHANGED <<queue, scheduled, ticking, lastResult, loopTick, firstTick, call, outcome>>

(* plan_pause and plan_resume.  Mutant: a loop in the middle of a tick keeps  *)
(* its timer.                                                                 *)
PauseBetweenTicks ==
  /\ MayPause /\ Call("pause")
  /\ loop' = IF loop = "running" /\ loopTick = "none" THEN "paused" ELSE loop
  /\ UNCHANGED <<schedulerVars, loopTick, firstTick, call, outcome, cancelled>>
Pause ==
  /\ MayPause /\ Call("pause")
  /\ loop' = IF loop = "running" THEN "paused" ELSE loop
  /\ UNCHANGED <<schedulerVars, loopTick, firstTick, call, outcome, cancelled>>
Resume ==
  /\ MayResume /\ Call("resume")
  /\ loop' = IF loop = "paused" THEN "running" ELSE loop
  /\ UNCHANGED <<schedulerVars, loopTick, firstTick, call, outcome, cancelled>>
ControlAnswered == CallDone /\ UNCHANGED <<schedulerVars, runVars>>

(* The call goes on when runPromise is settled: it reports, and stops the     *)
(* scheduler and the loop.  Mutant: the loop is not stopped.                  *)
CallLeavesLoop ==
  /\ call = "running" /\ outcome # "pending"
  /\ call' = "stopping"
  /\ IF outcome = "finished" THEN Completed ELSE Aborted
  /\ stopped' = TRUE
  /\ UNCHANGED <<queue, scheduled, ticking, lastResult, waiter, loop, loopTick, firstTick,
                 outcome, cancelled>>
CallReports ==
  /\ call = "running" /\ outcome # "pending"
  /\ call' = "stopping"
  /\ IF outcome = "finished" THEN Completed ELSE Aborted
  /\ stopped' = TRUE /\ loop' = "idle"
  /\ UNCHANGED <<queue, scheduled, ticking, lastResult, waiter, loopTick, firstTick,
                 outcome, cancelled>>

(* The loop is idle: the operation is unregistered and the call returns.      *)
CallReturns ==
  /\ call = "stopping" /\ loopTick = "none"
  /\ call' = "returned"
  /\ controls' = FALSE
  /\ UNCHANGED <<schedulerVars, lifecycle, calls, loop, loopTick, firstTick, outcome,
                 cancelled>>

PlanNext ==
  \/ EventEmitted \/ TreeTickBegins \/ TreeTickEnds
  \/ LoopTimer \/ LoopTickContinues \/ LoopTickEnds
  \/ Timeout \/ Cancel \/ Pause \/ Resume \/ ControlAnswered
  \/ CallReports \/ CallReturns

(* Microtasks are drained and promises continue; the tools of a tree and the  *)
(* reconcilers end.  The interval's timer is not enabled while a microtask is *)
(* pending, but they are drained again and again: strong fairness.            *)
PlanFairness ==
  /\ WF_vars(TreeTickBegins) /\ WF_vars(TreeTickEnds)
  /\ WF_vars(LoopTickContinues) /\ WF_vars(LoopTickEnds)
  /\ WF_vars(ControlAnswered) /\ WF_vars(CallReports) /\ WF_vars(CallReturns)
  /\ SF_vars(LoopTimer)

PlanSafety == PlanInit /\ [][PlanNext]_vars
PlanSpec == PlanSafety /\ PlanFairness

-----------------------------------------------------------------------------
(* The tick of the loop that waits for the tree is not forgotten: a tick of   *)
(* the tree is under way or about to start, unless the scheduler was stopped  *)
(* with events in its queue.                                                  *)
NoLostWaiter ==
  waiter = "waiting" => ticking \/ scheduled \/ (stopped /\ queue > 0)

(* A run reported as paused has no timer: with no pause or resume under way,  *)
(* "paused" is never shown of a loop that still ticks.                        *)
PausedMeansStopped == lifecycle = "paused" /\ calls = <<>> => loop # "running"

(* Once a run was cancelled, or finished, failed or ran out of time, no tick  *)
(* of its tree begins and no event is accepted any more.                      *)
NoTickOnceOver == [][cancelled \/ outcome # "pending" => queue' = queue]_vars

(* A call whose run finished or failed returns: what stops it is waited for,  *)
(* and ends.                                                                  *)
SettledRunReturns == outcome \in {"finished", "failed"} ~> call = "returned"

(* A tree that ended is reported, even if it ended in a tick that nobody      *)
(* waited for, when it left no event behind and is not paused or cancelled.   *)
TerminalIsReported ==
  lastResult = "terminal" /\ queue = 0 ~>
    outcome # "pending" \/ loop = "paused" \/ cancelled

(* A cancelled run ends: its call returns and its operation is unregistered,  *)
(* "so callers can abort long-running operations without leaking bookkeeping  *)
(* state" (executor/cancel.ts:8-9).                                           *)
CancelledRunReturns == cancelled ~> call = "returned"
=============================================================================
