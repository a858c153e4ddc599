---------------------------- MODULE GraphContext ----------------------------
(***************************************************************************)
(* What the graph lock manager and the graph transaction manager share:     *)
(* graph identifiers, the wall clock (Date.now) and the deadlines both      *)
(* derive from a time-to-live.  A synchronous handler reads the clock       *)
(* several times; the modules built on this one let it run within a single  *)
(* instant.                                                                 *)
(***************************************************************************)
EXTENDS Integers

CONSTANTS
  GraphIds,   \* non-empty graph identifiers
  None,       \* the null of the code: no ttl, no deadline, no owner
  MaxNow      \* bound on the clock, for model checking

ASSUME ClockAssumption == None \notin Int /\ MaxNow \in Int

VARIABLE now    \* milliseconds; starts above 0, as the epoch clock does

ClockInit == now = 1

(* Time passes between two handlers. *)
Tick == now < MaxNow /\ now' = now + 1

(* The deadline of a ttl granted now; a missing or non-positive ttl never   *)
(* expires.                                                                 *)
Deadline(ttl) == IF ttl = None \/ ttl <= 0 THEN None ELSE now + ttl

(* A deadline is reached at the instant it names, not after it. *)
Expired(deadline) == deadline # None /\ deadline <= now
=============================================================================
