--------------------------- MODULE ChildSupervisor ---------------------------
(***************************************************************************)
(* ChildSupervisor with its ChildrenIndex and its child runtimes, over the *)
(* restart supervision of one command.  A creation is one call of          *)
(* createChild or registerHttpChild, cut at its awaits; it also names the  *)
(* process it starts.  A process that exits before its runtime is attached *)
(* is recorded when it is attached: the same as exiting just after.        *)
(*                                                                         *)
(* ChildrenIndex throws for an unknown child.  Thrown in a tool's handler  *)
(* that only refuses the call; thrown by a listener of the runtime, or     *)
(* twice by the exit handler, nobody catches it and Node ends the process: *)
(* down.                                                                   *)
(*                                                                         *)
(* A process may exit in the middle of a line.  Nobody reads what its      *)
(* runtime has buffered of it until a tool does (child_collect, the plan   *)
(* tools, child_stream), and the runtime then reports it as a message of   *)
(* a child that is gone.  Such a process is unread.                        *)
(***************************************************************************)
EXTENDS RestartSupervision

CONSTANTS
  ChildIds,
  Creations,
  MaxChildren,   \* the safety limit, None for none
  MaxNow         \* bound of the clock

LifecycleStates == {"starting", "ready", "running", "idle", "stopping",
                    "terminated", "killed", "error"}
ProcessStates == {"none", "alive", "dead", "unread"}

ASSUME ChildAssumption ==
  /\ MaxChildren \in Nat \cup {None} /\ MaxNow \in Nat
  /\ IsFiniteSet(Creations)
  /\ None \notin LifecycleStates \cup BreakerStates \cup ChildIds \cup Creations

VARIABLES
  creations,         \* creation -> where its call stands
  process,           \* creation -> the state of its process
  forced,            \* creations whose live process is being killed by force
  attached,          \* creations whose runtime the supervisor listens to
  runtimes,          \* child -> the creation its runtime comes from
  logicalChildren,   \* children served over HTTP
  index,             \* child -> its state in ChildrenIndex
  ended,             \* children whose record there has an endedAt
  keyed,             \* children with an entry in supervisionKeyByChild
  watchdogs,         \* children with an idle watchdog
  down,              \* the orchestrator has ended on an uncaught error
  collectedAlive     \* history: a live child was collected

childVars == <<creations, process, forced, attached, runtimes, logicalChildren, index,
               ended, keyed, watchdogs, down, collectedAlive>>
vars == <<now, supervisionVars, childVars>>

Stages == {"idle", "sandbox", "retrying", "sleeping", "starting", "awaiting",
           "tearing", "directories", "manifest", "unopened", "done"}

ChildrenTypeOK ==
  /\ SupervisionTypeOK
  /\ \A c \in Creations :
       /\ creations[c].stage \in Stages
       /\ creations[c].id \in ChildIds \cup {None}
       /\ creations[c].wake \in Nat
       /\ creations[c].ticket \in {"closed", "half-open", None}
       /\ creations[c].ticket # None =>
            creations[c].stage \in {"sleeping", "starting", "awaiting", "tearing"}
  /\ process \in [Creations -> ProcessStates]
  /\ forced \cup attached \subseteq Creations
  /\ runtimes \in [ChildIds -> Creations \cup {None}]
  /\ index \in [ChildIds -> LifecycleStates \cup {None}]
  /\ logicalChildren \cup ended \cup keyed \cup watchdogs \subseteq ChildIds
  /\ down \in BOOLEAN /\ collectedAlive \in BOOLEAN

-----------------------------------------------------------------------------
Id(c) == creations[c].id
Stage(c) == creations[c].stage
MoveTo(c, stage) == creations' = [creations EXCEPT ![c].stage = stage]
Finish(c) == creations' = [creations EXCEPT ![c] = [@ EXCEPT !.stage = "done", !.ticket = None]]

(* updateState, when the child is known. *)
SetState(id, state) == index' = [index EXCEPT ![id] = state]
SetKnown(id, state) ==
  index' = [index EXCEPT ![id] = IF @ = None THEN None ELSE state]

(* countActiveChildren, and the limit as createChild and registerHttpChild    *)
(* check it.                                                                  *)
ActiveChildren ==
  Cardinality({id \in ChildIds : runtimes[id] # None /\ process[runtimes[id]] = "alive"})
  + Cardinality(logicalChildren)
WithinLimit == MaxChildren # None => ActiveChildren < MaxChildren

-----------------------------------------------------------------------------
ChildrenInit ==
  /\ SupervisionInit
  /\ creations = [c \in Creations |->
                    [stage |-> "idle", id |-> None, wake |-> 0, ticket |-> None]]
  /\ process = [c \in Creations |-> "none"]
  /\ forced = {} /\ attached = {}
  /\ runtimes = [id \in ChildIds |-> None]
  /\ index = [id \in ChildIds |-> None]
  /\ logicalChildren = {} /\ ended = {} /\ keyed = {} /\ watchdogs = {}
  /\ down = FALSE /\ collectedAlive = FALSE

(* Time passes, up to the bound and as long as somebody sleeps.               *)
Tick ==
  /\ now < MaxNow \/ \E c \in Creations :
       Stage(c) \in {"retrying", "sleeping"} /\ creations[c].wake > now
  /\ now' = now + 1
  /\ UNCHANGED <<supervisionVars, childVars>>

(* createChild checks the identifier and the limit, then prepares a sandbox.  *)
CreateChild(c, id) ==
  /\ Stage(c) = "idle" /\ runtimes[id] = None /\ WithinLimit
  /\ creations' = [creations EXCEPT ![c] = [@ EXCEPT !.stage = "sandbox", !.id = id]]
  /\ UNCHANGED <<now, supervisionVars, process, forced, attached, runtimes,
                 logicalChildren, index, ended, keyed, watchdogs, down,
                 collectedAlive>>

(* It then asks for a ticket.  Refused by an open breaker it waits for the    *)
(* retry time and asks once more; refused otherwise the call fails.           *)
Acquire(c) ==
  LET b == Refreshed(breaker, now)
      asking == Stage(c) = "sandbox" \/ (Stage(c) = "retrying" /\ creations[c].wake <= now)
  IN
  /\ asking
  /\ \/ /\ TakeSlot
        /\ creations' = [creations EXCEPT ![c] =
             [@ EXCEPT !.stage = "sleeping", !.wake = now + Wait(now), !.ticket = b.state]]
     \/ /\ ~Admits(b)
        /\ breaker' = b
        /\ IF Stage(c) = "sandbox" /\ b.retryAt # None
           THEN creations' = [creations EXCEPT ![c] =
                                [@ EXCEPT !.stage = "retrying", !.wake = b.retryAt]]
           ELSE creations' = [creations EXCEPT ![c] = [@ EXCEPT !.stage = "done", !.wake = 0]]
        /\ UNCHANGED <<backoff, restarts>>
  /\ UNCHANGED <<now, process, forced, attached, runtimes, logicalChildren, index,
                 ended, keyed, watchdogs, down, collectedAlive>>

(* acquire wakes up and createChild starts the process.                       *)
Start(c) ==
  /\ Stage(c) = "sleeping" /\ creations[c].wake <= now
  /\ RecordRestart
  /\ creations' = [creations EXCEPT ![c] = [@ EXCEPT !.stage = "starting", !.wake = 0]]
  /\ UNCHANGED <<now, process, forced, attached, runtimes, logicalChildren, index,
                 ended, keyed, watchdogs, down, collectedAlive>>

(* startChildRuntime rejects: there is nothing to tear down.  Mutant: the     *)
(* ticket is left unsettled.                                                  *)
SpawnFailsQuietly(c) ==
  /\ Stage(c) = "starting"
  /\ Finish(c)
  /\ keyed' = keyed \ {Id(c)}
  /\ UNCHANGED <<now, supervisionVars, process, forced, attached, runtimes,
                 logicalChildren, index, ended, watchdogs, down, collectedAlive>>
SpawnFails(c) ==
  /\ Stage(c) = "starting"
  /\ TicketFails(creations[c].ticket)
  /\ Finish(c)
  /\ keyed' = keyed \ {Id(c)}
  /\ UNCHANGED <<now, process, forced, attached, runtimes, logicalChildren, index,
                 ended, watchdogs, down, collectedAlive>>

(* The catch block with a runtime in hand: whatever is registered under the   *)
(* identifier is let go, even when another creation registered it.  Mutant:   *)
(* the child is struck from the index before its process has exited.          *)
GiveUpAndForget(c) ==
  /\ MoveTo(c, "tearing")
  /\ keyed' = keyed \ {Id(c)}
  /\ runtimes' = [runtimes EXCEPT ![Id(c)] = None]
  /\ watchdogs' = watchdogs \ {Id(c)}
  /\ SetKnown(Id(c), None)
GiveUp(c) ==
  /\ MoveTo(c, "tearing")
  /\ keyed' = keyed \ {Id(c)}
  /\ runtimes' = [runtimes EXCEPT ![Id(c)] = None]
  /\ watchdogs' = watchdogs \ {Id(c)}
  /\ SetKnown(Id(c), "stopping")

(* The process runs; an identifier already in the index is a duplicate.       *)
SpawnedDuplicate(c) ==
  /\ Stage(c) = "starting" /\ index[Id(c)] # None
  /\ process' = [process EXCEPT ![c] = "alive"]
  /\ GiveUp(c)
  /\ UNCHANGED <<now, supervisionVars, forced, attached, logicalChildren, ended,
                 down, collectedAlive>>

(* Else it is registered and listened to, and createChild returns or waits    *)
(* for its ready message.                                                     *)
Spawned(c, waitForReady) ==
  /\ Stage(c) = "starting" /\ index[Id(c)] = None
  /\ process' = [process EXCEPT ![c] = "alive"]
  /\ SetState(Id(c), "starting")
  /\ runtimes' = [runtimes EXCEPT ![Id(c)] = c]
  /\ keyed' = keyed \cup {Id(c)}
  /\ attached' = attached \cup {c}
  /\ watchdogs' = watchdogs \cup {Id(c)}
  /\ IF waitForReady
     THEN MoveTo(c, "awaiting") /\ UNCHANGED supervisionVars
     ELSE Finish(c) /\ TicketSucceeds(creations[c].ticket)
  /\ UNCHANGED <<now, forced, logicalChildren, ended, down, collectedAlive>>

(* A listener of the runtime of c finds its child in the index and sets its   *)
(* state, or throws.                                                          *)
Report(c, state) ==
  /\ SetKnown(Id(c), state)
  /\ down' = (index[Id(c)] = None)

Ready(c) ==
  /\ Stage(c) = "awaiting" /\ process[c] = "alive"
  /\ Report(c, "ready")
  /\ IF index[Id(c)] = None
     THEN UNCHANGED <<creations, supervisionVars>>
     ELSE Finish(c) /\ TicketSucceeds(creations[c].ticket)
  /\ UNCHANGED <<now, process, forced, attached, runtimes, logicalChildren, ended,
                 keyed, watchdogs, collectedAlive>>

(* Any other message of a child that is listened to.                          *)
Message(c, state) ==
  /\ c \in attached /\ process[c] = "alive"
  /\ state = "ready" => Stage(c) # "awaiting"
  /\ Report(c, state)
  /\ UNCHANGED <<now, supervisionVars, creations, process, forced, attached,
                 runtimes, logicalChildren, ended, keyed, watchdogs,
                 collectedAlive>>

(* The ready message does not come in time.                                   *)
ReadyTimeout(c) ==
  /\ Stage(c) = "awaiting"
  /\ GiveUp(c)
  /\ UNCHANGED <<now, supervisionVars, process, forced, attached, logicalChildren,
                 ended, down, collectedAlive>>

(* The shutdown of a creation that failed ends: the process has exited, or    *)
(* outlived the forced kill too.                                              *)
TornDown(c) ==
  /\ Stage(c) = "tearing"
  /\ forced' = IF process[c] = "alive" THEN forced \cup {c} ELSE forced
  /\ TicketFails(creations[c].ticket)
  /\ Finish(c)
  /\ UNCHANGED <<now, process, attached, runtimes, logicalChildren, index, ended,
                 keyed, watchdogs, down, collectedAlive>>

(* recordExit.  Mutant: only the exit of a child that has its supervision key *)
(* is recorded.                                                               *)
ExitState(c, clean) ==
  CASE c \in forced -> "killed" [] clean -> "terminated" [] OTHER -> "error"
RecordExitOfKeyed(c, clean) ==
  IF Id(c) \in keyed
  THEN Report(c, ExitState(c, clean)) /\ ended' = ended \cup {Id(c)}
  ELSE UNCHANGED <<index, ended, down>>
RecordExit(c, clean) ==
  /\ Report(c, ExitState(c, clean))
  /\ ended' = IF index[Id(c)] = None THEN ended ELSE ended \cup {Id(c)}

(* The process of c exits, with status 0 or not, and the exit is recorded     *)
(* when the runtime is attached.  It may leave a line nobody has read yet.    *)
Exit(c, clean, unread) ==
  LET id == Id(c)
      crash == c \notin forced /\ ~clean
  IN
  /\ process[c] = "alive" /\ (unread => c \in attached)
  /\ process' = [process EXCEPT ![c] = IF unread THEN "unread" ELSE "dead"]
  /\ forced' = forced \ {c}
  /\ IF c \notin attached
     THEN UNCHANGED <<supervisionVars, index, ended, keyed, watchdogs, down>>
     ELSE /\ RecordExit(c, clean)
          /\ watchdogs' = watchdogs \ {id}
          /\ IF id \in keyed /\ index[id] # None
             THEN /\ IF crash THEN RecordCrash ELSE RecordSuccess
                  /\ keyed' = keyed \ {id}
             ELSE UNCHANGED <<supervisionVars, keyed>>
  /\ UNCHANGED <<now, creations, attached, runtimes, logicalChildren, collectedAlive>>

(* collect and stream flush what the runtime has buffered, and collect does   *)
(* so again after its await: one that began while the child was listed may    *)
(* read the last line at any time, even once the runtime has been let go.  A  *)
(* creation may still wait for that line.  When gc has removed the child the  *)
(* listener throws, in the tool's handler, and the line stays unread.         *)
ReadLate(c, state) ==
  /\ c \in attached /\ process[c] = "unread" /\ index[Id(c)] # None
  /\ process' = [process EXCEPT ![c] = "dead"]
  /\ SetKnown(Id(c), state)
  /\ IF state = "ready" /\ Stage(c) = "awaiting"
     THEN Finish(c) /\ TicketSucceeds(creations[c].ticket)
     ELSE UNCHANGED <<creations, supervisionVars>>
  /\ UNCHANGED <<now, forced, attached, runtimes, logicalChildren, ended, keyed,
                 watchdogs, down, collectedAlive>>

(* A child that has been silent for long is idle; the watchdog of one that    *)
(* failed stops.                                                              *)
Watchdog(id) ==
  /\ id \in watchdogs
  /\ \/ index[id] \in {"starting", "ready"} /\ SetState(id, "idle") /\ UNCHANGED watchdogs
     \/ index[id] \in {None, "terminated", "killed", "error"}
        /\ watchdogs' = watchdogs \ {id} /\ UNCHANGED index
  /\ UNCHANGED <<now, supervisionVars, creations, process, forced, attached,
                 runtimes, logicalChildren, ended, keyed, down, collectedAlive>>

(* send marks a child as running once its message is written: the write of a  *)
(* call that began while the child was listed may end at any time.            *)
Sent(id) ==
  /\ \E c \in attached : Id(c) = id
  /\ SetKnown(id, "running")
  /\ UNCHANGED <<now, supervisionVars, creations, process, forced, attached,
                 runtimes, logicalChildren, ended, keyed, watchdogs, down,
                 collectedAlive>>

(* cancel and kill: the state first, then the shutdown, which returns at once *)
(* when the process has exited.  A cancel whose signal is ignored for too     *)
(* long forces too.                                                           *)
Stop(id, byForce) ==
  /\ runtimes[id] # None /\ id \notin logicalChildren /\ index[id] # None
  /\ SetState(id, "stopping")
  /\ forced' = IF byForce /\ process[runtimes[id]] = "alive"
               THEN forced \cup {runtimes[id]} ELSE forced
  /\ UNCHANGED <<now, supervisionVars, creations, process, attached, runtimes,
                 logicalChildren, ended, keyed, watchdogs, down, collectedAlive>>

(* gc forgets the child, whatever its state.                                   *)
Gc(id) ==
  /\ index' = [index EXCEPT ![id] = None]
  /\ ended' = ended \ {id}
  /\ runtimes' = [runtimes EXCEPT ![id] = None]
  /\ logicalChildren' = logicalChildren \ {id}
  /\ watchdogs' = watchdogs \ {id}
  /\ collectedAlive' = (collectedAlive \/
       \E c \in attached : Id(c) = id /\ process[c] = "alive")
  /\ UNCHANGED <<now, supervisionVars, creations, process, forced, attached, keyed,
                 down>>

(* registerHttpChild: the checks and its directories, the index and its       *)
(* manifest, the session.  When the manifest cannot be written the record     *)
(* stays, with no session behind it.                                          *)
RegisterHttpChild(c, id) ==
  /\ Stage(c) = "idle" /\ runtimes[id] = None /\ id \notin logicalChildren /\ WithinLimit
  /\ creations' = [creations EXCEPT ![c] = [@ EXCEPT !.stage = "directories", !.id = id]]
  /\ UNCHANGED <<now, supervisionVars, process, forced, attached, runtimes,
                 logicalChildren, index, ended, keyed, watchdogs, down,
                 collectedAlive>>
IndexHttpChild(c) ==
  /\ Stage(c) = "directories"
  /\ IF index[Id(c)] = None
     THEN SetState(Id(c), "ready") /\ MoveTo(c, "manifest")
     ELSE Finish(c) /\ UNCHANGED index
  /\ UNCHANGED <<now, supervisionVars, process, forced, attached, runtimes,
                 logicalChildren, ended, keyed, watchdogs, down, collectedAlive>>
OpenHttpChild(c) ==
  /\ Stage(c) = "manifest"
  /\ logicalChildren' = logicalChildren \cup {Id(c)}
  /\ Finish(c)
  /\ UNCHANGED <<now, supervisionVars, process, forced, attached, runtimes, index,
                 ended, keyed, watchdogs, down, collectedAlive>>

PreparationFails(c) ==
  /\ Stage(c) \in {"sandbox", "directories", "manifest"}
  /\ MoveTo(c, IF Stage(c) = "manifest" THEN "unopened" ELSE "done")
  /\ UNCHANGED <<now, supervisionVars, process, forced, attached, runtimes,
                 logicalChildren, index, ended, keyed, watchdogs, down,
                 collectedAlive>>

(* finalizeLogicalChild, by cancel or by kill.                                *)
StopHttpChild(id, byForce) ==
  /\ id \in logicalChildren /\ index[id] # None
  /\ SetState(id, IF byForce THEN "killed" ELSE "terminated")
  /\ ended' = ended \cup {id}
  /\ logicalChildren' = logicalChildren \ {id}
  /\ UNCHANGED <<now, supervisionVars, creations, process, forced, attached,
                 runtimes, keyed, watchdogs, down, collectedAlive>>

CreationStep(c) ==
  \/ \E id \in ChildIds : CreateChild(c, id) \/ RegisterHttpChild(c, id)
  \/ Acquire(c) \/ Start(c) \/ SpawnFails(c) \/ SpawnedDuplicate(c)
  \/ \E waitForReady \in BOOLEAN : Spawned(c, waitForReady)
  \/ Ready(c) \/ ReadyTimeout(c) \/ TornDown(c)
  \/ IndexHttpChild(c) \/ OpenHttpChild(c) \/ PreparationFails(c)

ProcessStep(c) ==
  \/ \E state \in {"ready", "idle", "error"} : Message(c, state) \/ ReadLate(c, state)
  \/ \E clean \in BOOLEAN, unread \in BOOLEAN : Exit(c, clean, unread)

ToolCall(id) ==
  \/ Sent(id) \/ Gc(id) \/ Watchdog(id)
  \/ \E flag \in BOOLEAN : Stop(id, flag) \/ StopHttpChild(id, flag)

ChildrenNext ==
  /\ ~down
  /\ \/ Tick
     \/ \E c \in Creations : CreationStep(c) \/ ProcessStep(c)
     \/ \E id \in ChildIds : ToolCall(id)

ChildrenSpec == ChildrenInit /\ [][ChildrenNext]_vars

-----------------------------------------------------------------------------
(* The breaker never locks its command out: when it is half-open with all its *)
(* slots taken, a creation that holds one is still under way and will settle  *)
(* its ticket, whatever failed, slept, exited or was torn down in between.    *)
SlotsAreHeld ==
  breaker.state = "half-open" =>
    breaker.inFlight <= Cardinality({c \in Creations : creations[c].ticket = "half-open"})

(* No death is missed, however creations, tear-downs, collections and exits   *)
(* cross: a record without an end belongs to a live process that is listened  *)
(* to, or to an HTTP child that is open, being opened or, for want of a       *)
(* manifest, was never opened.  The state is no such witness: the last line   *)
(* of a dead child, read late, makes it look ready.                           *)
DeathIsOnRecord ==
  \A id \in ChildIds :
    index[id] # None /\ id \notin ended =>
      \/ \E c \in attached : Id(c) = id /\ process[c] = "alive"
      \/ id \in logicalChildren
      \/ \E c \in Creations : Id(c) = id /\ Stage(c) \in {"manifest", "unopened"}

(* Nothing a child does brings the orchestrator down, except after gc has     *)
(* removed a live child from the index.                                       *)
OnlyCollectionKills == down => collectedAlive

(* "the supervisor refuses to spawn new children beyond the maximum           *)
(* threshold" (children/supervisor.ts:144).                                   *)
ChildLimit == MaxChildren # None => ActiveChildren <= MaxChildren
=============================================================================
