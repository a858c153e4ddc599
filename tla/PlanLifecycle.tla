--------------------------- MODULE PlanLifecycle ---------------------------
(***************************************************************************)
(* PlanLifecycleRegistry for one run.  pause and resume call the control   *)
(* the run attached, then await its answer, and set the state in a later   *)
(* microtask, whatever the state has become.  Their continuations run in   *)
(* the order of the calls.                                                 *)
(***************************************************************************)
EXTENDS Sequences, Integers

CONSTANT MaxCalls   \* bound of the pauses and resumes under way at once

ASSUME CallsAssumption == MaxCalls \in Nat

VARIABLES
  lifecycle,   \* state of the snapshot
  controls,    \* the pause and resume controls are attached
  calls        \* pauses and resumes that await their control

lifecycleVars == <<lifecycle, controls, calls>>

Over == lifecycle \in {"done", "failed"}

LifecycleTypeOK ==
  /\ lifecycle \in {"running", "paused", "done", "failed"}
  /\ controls \in BOOLEAN
  /\ calls \in Seq({"pause", "resume"})

LifecycleInit == lifecycle = "running" /\ controls = TRUE /\ calls = <<>>

(* recordEvent: start, tick, loop and node; complete; error and cancel.       *)
Progressed ==
  /\ lifecycle' = IF Over THEN lifecycle ELSE "running"
  /\ UNCHANGED <<controls, calls>>
Completed == lifecycle' = "done" /\ controls' = FALSE /\ UNCHANGED calls
Aborted == lifecycle' = "failed" /\ controls' = FALSE /\ UNCHANGED calls

(* pause and resume, up to their await.                                       *)
MayPause == lifecycle = "running" /\ controls
MayResume == lifecycle = "paused" /\ controls
Call(kind) ==
  /\ Len(calls) < MaxCalls
  /\ calls' = Append(calls, kind)
  /\ UNCHANGED <<lifecycle, controls>>

(* Their continuation.                                                        *)
CallDone ==
  /\ calls # <<>>
  /\ lifecycle' = IF Head(calls) = "pause" THEN "paused" ELSE "running"
  /\ calls' = Tail(calls)
  /\ UNCHANGED controls
=============================================================================
