--------------------------- MODULE CircuitBreaker ---------------------------
(***************************************************************************)
(* CircuitBreaker as functions of its state.  An attempt remembers the     *)
(* state it was admitted in; the breaker does not remember its attempts,   *)
(* so one may settle in any later state.  openedAt is only reported.       *)
(***************************************************************************)
EXTENDS Integers, FiniteSetsExt

CONSTANTS
  FailThreshold,      \* consecutive failures that open the breaker
  Cooldown,           \* time it stays open
  HalfOpenMax,        \* attempts admitted at once while half-open
  HalfOpenSuccesses,  \* successes that close it again
  None                \* the null of the code

ASSUME BreakerAssumption ==
  /\ FailThreshold \in Nat \ {0} /\ Cooldown \in Nat
  /\ HalfOpenMax \in Nat \ {0} /\ HalfOpenSuccesses \in Nat \ {0}
  /\ None \notin Nat

BreakerStates == {"closed", "open", "half-open"}
Breaker == [state : BreakerStates, failures : 0..FailThreshold,
            retryAt : Nat \cup {None}, inFlight : 0..HalfOpenMax,
            successes : 0..HalfOpenSuccesses]

NewBreaker ==
  [state |-> "closed", failures |-> 0, retryAt |-> None, inFlight |-> 0, successes |-> 0]

(* transitionToClosed keeps the count of failures, which recordSuccess resets. *)
Closed(b) == [b EXCEPT !.state = "closed", !.retryAt = None, !.inFlight = 0, !.successes = 0]

Opened(b, at) ==
  [state |-> "open", failures |-> FailThreshold, retryAt |-> at + Cooldown,
   inFlight |-> 0, successes |-> 0]

(* refreshState: an open breaker becomes half-open when its cooldown ends.    *)
Refreshed(b, at) ==
  IF b.state = "open" /\ b.retryAt # None /\ at >= b.retryAt
  THEN [b EXCEPT !.state = "half-open", !.inFlight = 0, !.successes = 0, !.retryAt = None]
  ELSE b

(* tryAcquire, on a refreshed breaker.  Mutant: a half-open breaker admits    *)
(* anyone.                                                                    *)
AdmitsAnyone(b) == b.state # "open"
Admits(b) ==
  \/ b.state = "closed"
  \/ b.state = "half-open" /\ b.inFlight < HalfOpenMax
Admitted(b) == IF b.state = "half-open" THEN [b EXCEPT !.inFlight = @ + 1] ELSE b

Released(b) == [b EXCEPT !.inFlight = Max({0, @ - 1})]

(* recordSuccess and recordFailure. *)
Succeeded(b) ==
  LET c == [b EXCEPT !.failures = 0] IN
  IF c.state # "half-open" THEN Closed(c)
  ELSE LET probe == [Released(c) EXCEPT !.successes = @ + 1]
       IN  IF probe.successes >= HalfOpenSuccesses THEN Closed(probe) ELSE probe

Failed(b, at) ==
  CASE b.state = "half-open" -> Opened(b, at)
    [] b.state = "open" ->
         [b EXCEPT !.failures = FailThreshold,
                   !.retryAt = IF @ = None THEN at + Cooldown ELSE Max({@, at + Cooldown})]
    [] OTHER -> LET c == [b EXCEPT !.failures = @ + 1]
                IN  IF c.failures >= FailThreshold THEN Opened(c, at) ELSE c

(* completeAttempt: an attempt admitted half-open gives its slot back, in     *)
(* whatever state the breaker is by then.                                     *)
Settled(b, origin, success, at) ==
  LET c == IF origin = "half-open" THEN Released(b) ELSE b
  IN  IF success THEN Succeeded(c) ELSE Failed(c, at)
=============================================================================
