------------------------ MODULE ReactivePlanProofs ------------------------
(***************************************************************************)
(* Of plan_run_reactive, for every bound on its queue and its controls: a  *)
(* waiting tick of the loop is never forgotten, a paused run does not      *)
(* tick, and a run that is over ticks no more.                             *)
(***************************************************************************)
EXTENDS ReactivePlan, SequenceTheorems, TLAPS

RunTypeOK ==
  /\ SchedulerTypeOK
  /\ loop \in {"running", "paused", "idle"}
  /\ loopTick \in {"none", "tick", "report", "reconcile"}
  /\ firstTick \in BOOLEAN /\ cancelled \in BOOLEAN
  /\ call \in {"running", "stopping", "returned"}
  /\ outcome \in {"pending", "finished", "failed", "timeout"}
  /\ loopTick = "tick" <=> waiter # "none"

(* Only a waiting queue is scheduled, never under a tick, and before its      *)
(* first tick the loop has put nothing in it.  A tree that ended, a run that  *)
(* is over and a cancelled one have a stopped scheduler, and the last an idle *)
(* loop.                                                                      *)
RunInv ==
  /\ RunTypeOK
  /\ NoLostWaiter
  /\ scheduled => ~ticking /\ queue > 0
  /\ firstTick /\ loopTick # "tick" => queue <= MaxQueue
  /\ lastResult = "terminal" \/ waiter = "terminal" => stopped
  /\ outcome # "pending" \/ cancelled => stopped
  /\ cancelled => loop = "idle"

(* The control called last says what the loop's timer does.                   *)
ControlInv ==
  /\ LifecycleTypeOK
  /\ loop \in {"running", "paused", "idle"}
  /\ PausedMeansStopped
  /\ calls # <<>> /\ calls[Len(calls)] = "pause" => loop # "running"

-----------------------------------------------------------------------------
LEMMA RunInvInit == PlanInit => RunInv
<1>1. 0 \in 0..(MaxQueue + 1) /\ 0 <= MaxQueue
  BY QueueAssumption
<1> QED
  BY <1>1, Zenon DEF PlanInit, SchedulerInit, RunInv, RunTypeOK, SchedulerTypeOK,
                     NoLostWaiter

(* A tick of the tree that ends tells the waiting tick of the loop, or leaves *)
(* behind what will.                                                          *)
LEMMA RunInvTickEnds == ASSUME RunInv, TreeTickEnds PROVE RunInv'
<1> USE DEF RunInv, RunTypeOK, SchedulerTypeOK, NoLostWaiter
<1>1. UNCHANGED runVars
  BY DEF TreeTickEnds
<1>2. CASE TickThrows
  BY <1>1, <1>2, QueueAssumption, ZenonT(30) DEF TickThrows, SettleWith, runVars
<1>3. CASE TickEndsTree
  BY <1>1, <1>3, QueueAssumption DEF TickEndsTree, SettleWith, runVars
<1>4. CASE TickLeavesMore
  <2>1. lastResult' = "running" /\ UNCHANGED <<stopped, waiter>> /\ queue > 0 /\ ticking
    BY <1>4 DEF TickLeavesMore
  <2>2. CASE ~stopped /\ queue' = queue - 1 /\ UNCHANGED <<ticking, scheduled>>
    BY <1>1, <2>1, <2>2, QueueAssumption DEF runVars
  <2>3. CASE ~stopped /\ ticking' = FALSE /\ scheduled' = TRUE /\ UNCHANGED queue
    BY <1>1, <2>1, <2>3, QueueAssumption DEF runVars
  <2>4. CASE stopped /\ ticking' = FALSE /\ UNCHANGED <<queue, scheduled>>
    BY <1>1, <2>1, <2>4, QueueAssumption DEF runVars
  <2> QED
    BY <1>4, <2>2, <2>3, <2>4 DEF TickLeavesMore
<1>5. CASE TickEmptiesQueue
  BY <1>1, <1>5, QueueAssumption DEF TickEmptiesQueue, SettleWith, runVars
<1> QED
  BY <1>2, <1>3, <1>4, <1>5 DEF TreeTickEnds, TickEnds

(* A tick of the loop waits only for something that is under way.             *)
LEMMA RunInvLoopTimer == ASSUME RunInv, LoopTimer PROVE RunInv'
<1> USE DEF RunInv, RunTypeOK, SchedulerTypeOK, NoLostWaiter
<1>1. CASE outcome # "pending"
  BY <1>1, QueueAssumption DEF LoopTimer, schedulerVars
<1>2. CASE outcome = "pending"
  <2>1. /\ waiter = "none" /\ loopTick = "none" /\ loopTick' = "tick"
        /\ RunUntilSettled(firstTick)
        /\ UNCHANGED <<loop, firstTick, call, outcome, cancelled>>
    BY <1>2 DEF LoopTimer
  <2>2. queue' \in 0..(MaxQueue + 1) /\ queue' >= queue
    BY <2>1, QueueAssumption DEF RunUntilSettled
  <2>3. UNCHANGED <<ticking, stopped, lastResult>>
    BY <2>1 DEF RunUntilSettled
  <2>4. waiter' \in {"waiting", lastResult}
    BY <2>1 DEF RunUntilSettled
  <2>5. scheduled' \in BOOLEAN /\ (scheduled' => ~ticking /\ queue' > 0)
    BY <2>1, <2>2, QueueAssumption DEF RunUntilSettled
  <2>6. waiter' = "waiting" => ticking \/ scheduled' \/ (stopped /\ queue' > 0)
    <3>1. CASE ticking
      BY <3>1
    <3>3. CASE ~ticking /\ stopped
      <4>1. queue' = queue
        BY <2>1, <3>3 DEF RunUntilSettled
      <4>2. queue \in Nat
        BY QueueAssumption
      <4> QED
        BY <2>1, <3>3, <4>1, <4>2 DEF RunUntilSettled
    <3>2. CASE ~ticking /\ ~stopped
      <4>1. queue' > 0 => scheduled'
        BY <2>1, <3>2 DEF RunUntilSettled
      <4>2. waiter' = "waiting" => queue' # 0
        BY <2>1, <3>2 DEF RunUntilSettled
      <4> QED
        BY <2>2, <4>1, <4>2
    <3> QED
      BY <3>1, <3>2, <3>3
  <2> QED
    BY <2>1, <2>2, <2>3, <2>4, <2>5, <2>6
<1> QED
  BY <1>1, <1>2

LEMMA RunInvStep == RunInv /\ [PlanNext]_vars => RunInv'
<1> SUFFICES ASSUME RunInv, [PlanNext]_vars PROVE RunInv'
  OBVIOUS
<1> USE QueueAssumption
<1> USE DEF RunInv, RunTypeOK, SchedulerTypeOK, NoLostWaiter
<1>1. CASE EventEmitted
  BY <1>1 DEF EventEmitted, Enqueue, runVars
<1>2. CASE TreeTickBegins
  <2>1. scheduled /\ scheduled' = FALSE /\ UNCHANGED <<stopped, lastResult, waiter>>
    BY <1>2 DEF TreeTickBegins, Drain
  <2>2. UNCHANGED <<loop, loopTick, firstTick, call, outcome, cancelled>>
    BY <1>2 DEF TreeTickBegins, runVars
  <2>3. CASE stopped
    BY <1>2, <2>1, <2>2, <2>3, ZenonT(30) DEF TreeTickBegins, Drain
  <2>4. CASE ~stopped
    <3>1. ~ticking /\ queue \in 1..(MaxQueue + 1)
      BY <2>1
    <3>2. queue' = queue - 1 /\ ticking' = TRUE
      BY <1>2, <2>4, <3>1 DEF TreeTickBegins, Drain
    <3>3. /\ queue' \in 0..(MaxQueue + 1)
          /\ firstTick' /\ loopTick' # "tick" => queue' <= MaxQueue
      BY <2>2, <3>1, <3>2
    <3>4. ticking' /\ ~scheduled' /\ scheduled' \in BOOLEAN /\ ticking' \in BOOLEAN
      BY <2>1, <3>2
    <3> QED
      BY <2>1, <2>2, <3>3, <3>4, ZenonT(30)
  <2> QED
    BY <2>3, <2>4
<1>3. CASE LoopTickContinues
  BY <1>3 DEF LoopTickContinues
<1>4. CASE LoopTickEnds
  BY <1>4 DEF LoopTickEnds, schedulerVars
<1>5. CASE Timeout
  BY <1>5 DEF Timeout
<1>6. CASE Cancel
  BY <1>6 DEF Cancel, SettleWith
<1>7. CASE Pause
  BY <1>7 DEF Pause, schedulerVars
<1>8. CASE Resume
  BY <1>8 DEF Resume, schedulerVars
<1>9. CASE ControlAnswered
  BY <1>9 DEF ControlAnswered, schedulerVars, runVars
<1>10. CASE CallReports
  BY <1>10 DEF CallReports
<1>11. CASE CallReturns
  BY <1>11 DEF CallReturns, schedulerVars
<1>12. CASE UNCHANGED vars
  BY <1>12 DEF vars, schedulerVars, runVars
<1> QED
  BY <1>1, <1>2, <1>3, <1>4, <1>5, <1>6, <1>7, <1>8, <1>9, <1>10, <1>11, <1>12,
     RunInvTickEnds, RunInvLoopTimer DEF PlanNext

-----------------------------------------------------------------------------
LEMMA ControlInvInit == PlanInit => ControlInv
<1>1. <<>> \in Seq({"pause", "resume"})
  BY EmptySeq
<1> QED
  BY <1>1 DEF PlanInit, LifecycleInit, ControlInv, LifecycleTypeOK, PausedMeansStopped

(* A control is called: the loop's timer already is what it asks for.         *)
LEMMA ControlInvCall ==
  ASSUME ControlInv, NEW kind \in {"pause", "resume"}, Call(kind),
         loop' \in {"running", "paused", "idle"},
         kind = "pause" => loop' # "running"
  PROVE  ControlInv'
<1>1. /\ calls' \in Seq({"pause", "resume"}) /\ Len(calls') = Len(calls) + 1
      /\ calls'[Len(calls')] = kind /\ calls' # <<>>
  BY AppendProperties DEF Call, ControlInv, LifecycleTypeOK
<1> QED
  BY <1>1 DEF Call, ControlInv, LifecycleTypeOK, PausedMeansStopped

(* A control is answered: the last of them decides the state that stays.      *)
LEMMA ControlInvDone == ASSUME ControlInv, ControlAnswered PROVE ControlInv'
<1>1. /\ calls \in Seq({"pause", "resume"}) /\ calls # <<>>
      /\ calls' = Tail(calls) /\ UNCHANGED <<controls, loop>>
      /\ lifecycle' = IF Head(calls) = "pause" THEN "paused" ELSE "running"
  BY DEF ControlAnswered, CallDone, ControlInv, LifecycleTypeOK, runVars
<1>2. /\ calls' \in Seq({"pause", "resume"}) /\ Len(calls') = Len(calls) - 1
      /\ \A i \in 1 .. Len(calls') : calls'[i] = calls[i + 1]
      /\ Head(calls) = calls[1] /\ Len(calls) \in Nat \ {0}
  BY <1>1, HeadTailProperties, EmptySeq, LenProperties
<1>3. CASE calls' = <<>>
  <2>1. Len(calls) = 1
    BY <1>2, <1>3
  <2> QED
    BY <1>1, <1>2, <1>3, <2>1 DEF ControlInv, LifecycleTypeOK, PausedMeansStopped
<1>4. CASE calls' # <<>>
  <2>1. Len(calls') \in Nat \ {0}
    BY <1>2, <1>4, EmptySeq, LenProperties
  <2>2. calls'[Len(calls')] = calls[Len(calls)]
    BY <1>2, <2>1
  <2> QED
    BY <1>1, <1>2, <1>4, <2>2 DEF ControlInv, LifecycleTypeOK, PausedMeansStopped
<1> QED
  BY <1>3, <1>4

LEMMA ControlInvStep == ControlInv /\ [PlanNext]_vars => ControlInv'
<1> SUFFICES ASSUME ControlInv, [PlanNext]_vars PROVE ControlInv'
  OBVIOUS
<1>1. CASE Pause
  <2>1. loop' \in {"running", "paused", "idle"} /\ loop' # "running" /\ Call("pause")
    BY <1>1 DEF Pause, ControlInv
  <2> QED
    BY <2>1, ControlInvCall
<1>2. CASE Resume
  <2>1. loop' \in {"running", "paused", "idle"} /\ Call("resume")
    BY <1>2 DEF Resume, ControlInv
  <2> QED
    BY <2>1, ControlInvCall
<1>3. CASE ControlAnswered
  BY <1>3, ControlInvDone
<1> USE DEF ControlInv, LifecycleTypeOK, PausedMeansStopped
<1>4. CASE EventEmitted
  BY <1>4 DEF EventEmitted, lifecycleVars, runVars
<1>5. CASE TreeTickBegins
  BY <1>5 DEF TreeTickBegins, Progressed, Over, lifecycleVars, runVars
<1>6. CASE TreeTickEnds
  BY <1>6 DEF TreeTickEnds, Progressed, Over, runVars
<1>7. CASE LoopTimer \/ LoopTickContinues \/ Timeout
  BY <1>7 DEF LoopTimer, LoopTickContinues, Timeout, lifecycleVars
<1>8. CASE LoopTickEnds
  BY <1>8 DEF LoopTickEnds, Progressed, Over, lifecycleVars
<1>9. CASE Cancel
  BY <1>9 DEF Cancel, Aborted
<1>10. CASE CallReports
  BY <1>10 DEF CallReports, Completed, Aborted
<1>11. CASE CallReturns
  BY <1>11 DEF CallReturns
<1>12. CASE UNCHANGED vars
  BY <1>12 DEF vars, lifecycleVars, runVars
<1> QED
  BY <1>1, <1>2, <1>3, <1>4, <1>5, <1>6, <1>7, <1>8, <1>9, <1>10, <1>11, <1>12 DEF PlanNext

-----------------------------------------------------------------------------
(* Every variable keeps its type, and what the loop's tick waits for is there *)
(* exactly while it waits.                                                    *)
THEOREM PlanTypeCorrect == PlanSafety => []PlanTypeOK
<1>1. RunInv /\ ControlInv => PlanTypeOK
  BY DEF RunInv, RunTypeOK, ControlInv, PlanTypeOK
<1> QED
  BY <1>1, RunInvInit, RunInvStep, ControlInvInit, ControlInvStep, PTL DEF PlanSafety

(* runUntilSettled never waits for a tick that nothing will bring, except     *)
(* when the scheduler was stopped with events in its queue.                   *)
THEOREM WaiterNeverLost == PlanSafety => []NoLostWaiter
<1>1. RunInv => NoLostWaiter
  BY DEF RunInv
<1> QED
  BY <1>1, RunInvInit, RunInvStep, PTL DEF PlanSafety

(* plan_pause and plan_resume in any number and order: a run shown as paused  *)
(* has no timer.                                                              *)
THEOREM PausedRunStopped == PlanSafety => []PausedMeansStopped
<1>1. ControlInv => PausedMeansStopped
  BY DEF ControlInv
<1> QED
  BY <1>1, ControlInvInit, ControlInvStep, PTL DEF PlanSafety

(* After a cancellation, a time limit or its end, the run takes no event out  *)
(* of its queue and none in.                                                  *)
THEOREM OverRunIsStill == PlanSafety => NoTickOnceOver
<1>1. RunInv /\ [PlanNext]_vars => (cancelled \/ outcome # "pending" => queue' = queue)
  <2> SUFFICES ASSUME RunInv, [PlanNext]_vars, cancelled \/ outcome # "pending"
               PROVE  queue' = queue
    OBVIOUS
  <2>1. stopped /\ (loop = "running" => outcome # "pending")
    BY DEF RunInv
  <2>2. CASE TreeTickEnds
    BY <2>1, <2>2 DEF TreeTickEnds, TickEnds, TickThrows, TickEndsTree, TickLeavesMore,
                      TickEmptiesQueue
  <2>3. CASE UNCHANGED schedulerVars \/ UNCHANGED vars
    BY <2>3 DEF vars, schedulerVars
  <2> QED
    BY <2>1, <2>2, <2>3 DEF PlanNext, EventEmitted, Enqueue, TreeTickBegins, Drain, LoopTimer,
       LoopTickContinues, LoopTickEnds, Timeout, Cancel, Pause, Resume, ControlAnswered,
       CallReports, CallReturns
<1> QED
  BY <1>1, RunInvInit, RunInvStep, PTL DEF PlanSafety, NoTickOnceOver
=============================================================================
