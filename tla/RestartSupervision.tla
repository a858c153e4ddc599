------------------------- MODULE RestartSupervision -------------------------
(***************************************************************************)
(* OneForOneSupervisor for one supervision key: a circuit breaker, an      *)
(* exponential back-off and a quota of restarts per window.  acquire asks  *)
(* the breaker, computes how long to wait and sleeps; what happens while   *)
(* it sleeps does not change its wait.  Its events are left out.           *)
(***************************************************************************)
EXTENDS CircuitBreaker, Sequences

CONSTANTS
  MinBackoff, MaxBackoff,   \* bounds of the delay after a failure, which doubles
  Quota,                    \* restarts per window, None for no limit
  Window                    \* the sliding minute

ASSUME RestartAssumption ==
  /\ MinBackoff \in Nat /\ MaxBackoff \in Nat /\ MinBackoff <= MaxBackoff
  /\ Quota \in (Nat \ {0}) \cup {None} /\ Window \in Nat

VARIABLES
  now,
  breaker,
  backoff,    \* consecutive failures, the last delay and when it ends
  restarts    \* restartTimestamps, oldest first

supervisionVars == <<breaker, backoff, restarts>>

NewBackoff == [attempts |-> 0, delay |-> MinBackoff, allowedAt |-> 0]

SupervisionTypeOK ==
  /\ now \in Nat
  /\ breaker \in Breaker
  /\ backoff.attempts \in Nat /\ backoff.delay \in MinBackoff..MaxBackoff
  /\ restarts \in Seq(0..now)

SupervisionInit ==
  /\ now = 1 /\ breaker = NewBreaker /\ backoff = NewBackoff /\ restarts = <<>>

(* bumpBackoff. *)
Bumped(b, at) ==
  LET delay == IF b.attempts = 0 THEN MinBackoff ELSE Min({MaxBackoff, b.delay * 2})
  IN  [attempts |-> b.attempts + 1, delay |-> delay, allowedAt |-> at + delay]

(* pruneRestartHistory, which drops from the front, and computeQuotaWait.     *)
Recent(at) ==
  LET expired == {i \in 1..Len(restarts) : \A j \in 1..i : restarts[j] < at - Window}
  IN  SubSeq(restarts, Cardinality(expired) + 1, Len(restarts))
QuotaWait(at) ==
  IF Quota = None \/ Len(Recent(at)) < Quota THEN 0
  ELSE Max({0, Head(Recent(at)) + Window - at})
Wait(at) == Max({0, backoff.allowedAt - at, QuotaWait(at)})

(* The first half of acquire, up to its sleep, and the second.                *)
TakeSlot ==
  /\ Admits(Refreshed(breaker, now))
  /\ breaker' = Admitted(Refreshed(breaker, now))
  /\ restarts' = IF Quota = None THEN restarts ELSE Recent(now)
  /\ UNCHANGED backoff
RecordRestart ==
  /\ restarts' = Append(Recent(now), now)
  /\ UNCHANGED <<breaker, backoff>>

(* succeed and fail of a ticket, which settles once.                          *)
TicketSucceeds(origin) ==
  /\ breaker' = Settled(breaker, origin, TRUE, now)
  /\ backoff' = NewBackoff
  /\ UNCHANGED restarts
TicketFails(origin) ==
  /\ breaker' = Settled(breaker, origin, FALSE, now)
  /\ backoff' = Bumped(backoff, now)
  /\ UNCHANGED restarts

(* recordCrash and recordSuccess, called at the exit of a process.            *)
RecordCrash ==
  /\ breaker' = Failed(breaker, now)
  /\ backoff' = Bumped(backoff, now)
  /\ UNCHANGED restarts
RecordSuccess ==
  /\ breaker' = Succeeded(breaker)
  /\ backoff' = NewBackoff
  /\ UNCHANGED restarts
=============================================================================
