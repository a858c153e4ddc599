----------------------- MODULE ChildSupervisorProofs -----------------------
(***************************************************************************)
(* What holds of the child supervisor for any number of creations and of   *)
(* identifiers, any breaker, back-off and quota, and any clock.            *)
(***************************************************************************)
EXTENDS ChildSupervisor, FiniteSetTheorems, SequenceTheorems, TLAPS

CreationShape ==
  /\ DOMAIN creations = Creations
  /\ \A c \in Creations : DOMAIN creations[c] = {"stage", "id", "wake", "ticket"}

CreationsInv ==
  /\ CreationShape
  /\ \A c \in Creations :
       /\ Id(c) \in ChildIds \cup {None}
       /\ Stage(c) \in Stages
       /\ Stage(c) # "idle" => Id(c) \in ChildIds
       /\ creations[c].ticket \in {"closed", "half-open", None}
       /\ creations[c].ticket # None =>
            Stage(c) \in {"sleeping", "starting", "awaiting", "tearing"}

(* A creation is listened to from the moment it is registered, and its child  *)
(* stays in the index while it lives, unless it was collected.                *)
ListedInv ==
  /\ process \in [Creations -> ProcessStates]
  /\ index \in [ChildIds -> LifecycleStates \cup {None}]
  /\ attached \subseteq Creations
  /\ \A c \in attached : Stage(c) \in {"awaiting", "tearing", "done"}
  /\ \A c \in Creations : Stage(c) = "awaiting" => c \in attached
  /\ \A c \in attached : process[c] = "alive" /\ ~collectedAlive => index[Id(c)] # None

ChildrenInv == CreationsInv /\ ListedInv /\ DeathIsOnRecord /\ OnlyCollectionKills

-----------------------------------------------------------------------------
(* What a step does to the creation it is about.                              *)
Moved(c, stage, id, ticket) ==
  /\ CreationShape'
  /\ Stage(c)' = stage /\ Id(c)' = id /\ creations'[c].ticket = ticket
  /\ \A d \in Creations \ {c} : creations'[d] = creations[d]

LEMMA MoveToMoves ==
  ASSUME CreationShape, NEW c \in Creations, NEW stage, MoveTo(c, stage)
  PROVE  Moved(c, stage, Id(c), creations[c].ticket)
BY DEF CreationShape, MoveTo, Moved, Stage, Id

LEMMA FinishMoves ==
  ASSUME CreationShape, NEW c \in Creations, Finish(c)
  PROVE  Moved(c, "done", Id(c), None)
BY DEF CreationShape, Finish, Moved, Stage, Id

LEMMA MovedKeepsCreations ==
  ASSUME CreationsInv, NEW c \in Creations, NEW stage \in Stages, NEW id \in ChildIds \cup {None},
         NEW ticket \in {"closed", "half-open", None},
         stage # "idle" => id \in ChildIds,
         ticket # None => stage \in {"sleeping", "starting", "awaiting", "tearing"},
         Moved(c, stage, id, ticket)
  PROVE  CreationsInv'
BY DEF CreationsInv, Moved, Stage, Id

-----------------------------------------------------------------------------
Observed == <<process, attached, index, logicalChildren, ended, down, collectedAlive>>

(* A creation that goes on, without touching a process or the index.          *)
LEMMA GoesOn ==
  ASSUME ChildrenInv, NEW c \in Creations, NEW stage \in Stages, NEW id \in ChildIds \cup {None},
         NEW ticket \in {"closed", "half-open", None},
         stage # "idle" => id \in ChildIds,
         ticket # None => stage \in {"sleeping", "starting", "awaiting", "tearing"},
         Moved(c, stage, id, ticket), UNCHANGED Observed,
         Stage(c) \notin {"manifest", "unopened"}, stage # "awaiting",
         c \in attached => id = Id(c) /\ stage \in {"tearing", "done"}
  PROVE  ChildrenInv'
<1>1. CreationsInv'
  BY MovedKeepsCreations DEF ChildrenInv
<1>2. /\ \A d \in Creations \ {c} : Stage(d)' = Stage(d) /\ Id(d)' = Id(d)
      /\ Stage(c)' = stage /\ Id(c)' = id
  BY DEF Moved, Stage, Id
<1>3. ListedInv'
  BY <1>2 DEF ListedInv, ChildrenInv, Observed
<1>4. DeathIsOnRecord'
  BY <1>2 DEF DeathIsOnRecord, ListedInv, ChildrenInv, Observed
<1>5. OnlyCollectionKills'
  BY DEF OnlyCollectionKills, ChildrenInv, Observed
<1> QED
  BY <1>1, <1>3, <1>4, <1>5 DEF ChildrenInv

(* The index may change while no creation does, as long as nobody is struck   *)
(* from it or added, and no HTTP child closes without an end.                 *)
LEMMA OtherStates ==
  ASSUME ChildrenInv, UNCHANGED <<creations, process, attached, down, collectedAlive>>,
         index' \in [ChildIds -> LifecycleStates \cup {None}],
         \A id \in ChildIds : index[id] # None <=> index'[id] # None,
         \A id \in ended : id \in ended',
         \A id \in logicalChildren : id \in logicalChildren' \/ id \in ended'
  PROVE  ChildrenInv'
<1>1. CreationsInv'
  BY DEF CreationsInv, CreationShape, ChildrenInv, Stage, Id
<1>2. \A c \in Creations : Stage(c)' = Stage(c) /\ Id(c)' = Id(c)
  BY DEF Stage, Id
<1>3. ListedInv'
  <2>1. \A c \in attached : Id(c) \in ChildIds
    BY DEF ListedInv, ChildrenInv, CreationsInv
  <2> QED
    BY <1>2, <2>1 DEF ListedInv, ChildrenInv
<1>4. DeathIsOnRecord'
  BY <1>2 DEF DeathIsOnRecord, ListedInv, ChildrenInv
<1>5. OnlyCollectionKills'
  BY DEF OnlyCollectionKills, ChildrenInv
<1> QED
  BY <1>1, <1>3, <1>4, <1>5 DEF ChildrenInv

-----------------------------------------------------------------------------
LEMMA CreateChildStep ==
  ASSUME ChildrenInv, NEW c \in Creations, NEW id \in ChildIds,
         CreateChild(c, id) \/ RegisterHttpChild(c, id)
  PROVE  ChildrenInv'
<1>1. PICK stage \in {"sandbox", "directories"} :
        creations' = [creations EXCEPT ![c] = [@ EXCEPT !.stage = stage, !.id = id]]
  BY DEF CreateChild, RegisterHttpChild
<1>2. Moved(c, stage, id, creations[c].ticket)
  BY <1>1 DEF Moved, Stage, Id, ChildrenInv, CreationsInv, CreationShape
<1>3. Stage(c) = "idle" /\ UNCHANGED Observed
  BY DEF CreateChild, RegisterHttpChild, Observed
<1>4. creations[c].ticket = None /\ c \notin attached
  BY <1>3 DEF ChildrenInv, CreationsInv, ListedInv
<1>5. stage \in Stages
  BY DEF Stages
<1> QED
  BY <1>2, <1>3, <1>4, <1>5, GoesOn

LEMMA AcquireStep ==
  ASSUME ChildrenInv, NEW c \in Creations, Acquire(c)
  PROVE  ChildrenInv'
<1> DEFINE b == Refreshed(breaker, now)
<1>1. Stage(c) \in {"sandbox", "retrying"} /\ UNCHANGED Observed
  BY DEF Acquire, Observed
<1>2. Id(c) \in ChildIds /\ c \notin attached /\ creations[c].ticket = None
  BY <1>1 DEF ChildrenInv, CreationsInv, ListedInv
<1>3. CASE TakeSlot /\ creations' = [creations EXCEPT ![c] =
             [@ EXCEPT !.stage = "sleeping", !.wake = now + Wait(now), !.ticket = b.state]]
  <2>1. b.state \in {"closed", "half-open"}
    BY <1>3 DEF TakeSlot, Admits
  <2> HIDE DEF b
  <2>2. Moved(c, "sleeping", Id(c), b.state)
    BY <1>3 DEF Moved, Stage, Id, ChildrenInv, CreationsInv, CreationShape
  <2> QED
    BY <1>1, <1>2, <2>1, <2>2, GoesOn DEF Stages
<1>4. ASSUME NEW stage \in {"retrying", "done"}, NEW wake,
             creations' = [creations EXCEPT ![c] = [@ EXCEPT !.stage = stage, !.wake = wake]]
      PROVE  ChildrenInv'
  <2>1. Moved(c, stage, Id(c), None)
    BY <1>2, <1>4 DEF Moved, Stage, Id, ChildrenInv, CreationsInv, CreationShape
  <2>2. stage \in Stages
    BY DEF Stages
  <2> QED
    BY <1>1, <1>2, <2>1, <2>2, GoesOn
<1> HIDE DEF b
<1> QED
  BY <1>3, <1>4 DEF Acquire, b

LEMMA StartStep ==
  ASSUME ChildrenInv, NEW c \in Creations, Start(c)
  PROVE  ChildrenInv'
<1>1. Stage(c) = "sleeping" /\ UNCHANGED Observed
  BY DEF Start, Observed
<1>2. Moved(c, "starting", Id(c), creations[c].ticket)
  BY DEF Start, Moved, Stage, Id, ChildrenInv, CreationsInv, CreationShape
<1>3. Id(c) \in ChildIds /\ c \notin attached /\ creations[c].ticket \in {"closed", "half-open", None}
  BY <1>1 DEF ChildrenInv, CreationsInv, ListedInv
<1> QED
  BY <1>1, <1>2, <1>3, GoesOn DEF Stages

LEMMA SpawnFailsStep ==
  ASSUME ChildrenInv, NEW c \in Creations, SpawnFails(c)
  PROVE  ChildrenInv'
<1>1. Stage(c) = "starting" /\ UNCHANGED Observed /\ Finish(c)
  BY DEF SpawnFails, Observed
<1>2. Moved(c, "done", Id(c), None)
  BY <1>1, FinishMoves DEF ChildrenInv, CreationsInv
<1>3. Id(c) \in ChildIds /\ c \notin attached
  BY <1>1 DEF ChildrenInv, CreationsInv, ListedInv
<1> QED
  BY <1>1, <1>2, <1>3, GoesOn DEF Stages

LEMMA TornDownStep ==
  ASSUME ChildrenInv, NEW c \in Creations, TornDown(c)
  PROVE  ChildrenInv'
<1>1. Stage(c) = "tearing" /\ UNCHANGED Observed /\ Finish(c)
  BY DEF TornDown, Observed
<1>2. Moved(c, "done", Id(c), None)
  BY <1>1, FinishMoves DEF ChildrenInv, CreationsInv
<1>3. Id(c) \in ChildIds
  BY <1>1 DEF ChildrenInv, CreationsInv
<1> QED
  BY <1>1, <1>2, <1>3, GoesOn DEF Stages

(* The catch block changes the state of a child that is known, and no more.   *)
LEMMA GiveUpMoves ==
  ASSUME ChildrenInv, NEW c \in Creations, GiveUp(c), Stage(c) # "idle"
  PROVE  /\ Moved(c, "tearing", Id(c), creations[c].ticket) /\ Id(c) \in ChildIds
         /\ index' \in [ChildIds -> LifecycleStates \cup {None}]
         /\ \A id \in ChildIds : index[id] # None <=> index'[id] # None
<1>1. Moved(c, "tearing", Id(c), creations[c].ticket)
  BY MoveToMoves DEF GiveUp, ChildrenInv, CreationsInv
<1>2. Id(c) \in ChildIds
  BY DEF ChildrenInv, CreationsInv
<1>3. index' = [index EXCEPT ![Id(c)] = IF @ = None THEN None ELSE "stopping"]
  BY DEF GiveUp, SetKnown
<1>4. "stopping" \in LifecycleStates /\ None \notin LifecycleStates
  BY ChildAssumption DEF LifecycleStates
<1> QED
  BY <1>1, <1>2, <1>3, <1>4 DEF ChildrenInv, ListedInv

LEMMA GiveUpStep ==
  ASSUME ChildrenInv, NEW c \in Creations, SpawnedDuplicate(c) \/ ReadyTimeout(c)
  PROVE  ChildrenInv'
<1>1. /\ Stage(c) \in {"starting", "awaiting"} /\ GiveUp(c)
      /\ UNCHANGED <<attached, logicalChildren, ended, down, collectedAlive>>
  BY DEF SpawnedDuplicate, ReadyTimeout
<1>2. /\ process' \in [Creations -> ProcessStates]
      /\ \A d \in attached : process'[d] = process[d]
  BY DEF SpawnedDuplicate, ReadyTimeout, ChildrenInv, ListedInv, ProcessStates
<1>3. /\ Moved(c, "tearing", Id(c), creations[c].ticket) /\ Id(c) \in ChildIds
      /\ index' \in [ChildIds -> LifecycleStates \cup {None}]
      /\ \A id \in ChildIds : index[id] # None <=> index'[id] # None
  BY <1>1, GiveUpMoves
<1>4. CreationsInv'
  <2>1. creations[c].ticket \in {"closed", "half-open", None}
    BY DEF ChildrenInv, CreationsInv
  <2> QED
    BY <1>3, <2>1, MovedKeepsCreations DEF ChildrenInv, Stages
<1>5. /\ \A d \in Creations \ {c} : Stage(d)' = Stage(d) /\ Id(d)' = Id(d)
      /\ Stage(c)' = "tearing" /\ Id(c)' = Id(c)
  BY <1>3 DEF Moved, Stage, Id
<1>6. ListedInv'
  <2>1. \A d \in attached : Id(d) \in ChildIds
    BY DEF ListedInv, ChildrenInv, CreationsInv
  <2> QED
    BY <1>1, <1>2, <1>3, <1>5, <2>1 DEF ListedInv, ChildrenInv
<1>7. DeathIsOnRecord'
  BY <1>1, <1>2, <1>3, <1>5 DEF DeathIsOnRecord, ListedInv, ChildrenInv
<1>8. OnlyCollectionKills'
  BY <1>1 DEF OnlyCollectionKills, ChildrenInv
<1> QED
  BY <1>4, <1>6, <1>7, <1>8 DEF ChildrenInv

LEMMA SpawnedStep ==
  ASSUME ChildrenInv, NEW c \in Creations, NEW waitForReady \in BOOLEAN, Spawned(c, waitForReady)
  PROVE  ChildrenInv'
<1>1. /\ Stage(c) = "starting" /\ index' = [index EXCEPT ![Id(c)] = "starting"]
      /\ process' = [process EXCEPT ![c] = "alive"] /\ attached' = attached \cup {c}
      /\ UNCHANGED <<logicalChildren, ended, down, collectedAlive>>
      /\ MoveTo(c, "awaiting") \/ Finish(c)
  BY DEF Spawned, SetState
<1>2. Id(c) \in ChildIds /\ creations[c].ticket \in {"closed", "half-open", None}
  BY <1>1 DEF ChildrenInv, CreationsInv
<1>3. PICK stage \in {"awaiting", "done"}, ticket \in {"closed", "half-open", None} :
        /\ Moved(c, stage, Id(c), ticket)
        /\ ticket # None => stage = "awaiting"
  BY <1>1, <1>2, MoveToMoves, FinishMoves DEF ChildrenInv, CreationsInv
<1>4. CreationsInv'
  BY <1>2, <1>3, MovedKeepsCreations DEF ChildrenInv, Stages
<1>5. /\ \A d \in Creations \ {c} : Stage(d)' = Stage(d) /\ Id(d)' = Id(d)
      /\ Stage(c)' = stage /\ Id(c)' = Id(c)
  BY <1>3 DEF Moved, Stage, Id
<1>6. "starting" \in LifecycleStates /\ None \notin LifecycleStates
  BY ChildAssumption DEF LifecycleStates
<1>7. ListedInv'
  <2>1. \A d \in attached : Id(d) \in ChildIds
    BY DEF ListedInv, ChildrenInv, CreationsInv
  <2> QED
    BY <1>1, <1>2, <1>5, <1>6, <2>1 DEF ListedInv, ChildrenInv, ProcessStates
<1>8. DeathIsOnRecord'
  BY <1>1, <1>2, <1>5 DEF DeathIsOnRecord, ListedInv, ChildrenInv
<1>9. OnlyCollectionKills'
  BY <1>1 DEF OnlyCollectionKills, ChildrenInv
<1> QED
  BY <1>4, <1>7, <1>8, <1>9 DEF ChildrenInv

(* What an attached child reports keeps the invariant, whether it lives or is *)
(* read late, and whether its creation ends on it or not.                     *)
LEMMA ReportStep ==
  ASSUME ChildrenInv, NEW c \in attached, NEW state \in {"ready", "idle", "error"},
         SetKnown(Id(c), state), CreationsInv', OnlyCollectionKills',
         \/ process[c] = "alive" /\ UNCHANGED process
         \/ process[c] = "unread" /\ process' = [process EXCEPT ![c] = "dead"],
         \A d \in Creations : Id(d)' = Id(d),
         \A d \in Creations : Stage(d)' = Stage(d) \/ (d = c /\ Stage(d)' = "done"),
         UNCHANGED <<attached, logicalChildren, ended, collectedAlive>>
  PROVE  ChildrenInv'
<1>1. c \in Creations /\ Stage(c) \in {"awaiting", "tearing", "done"} /\ Id(c) \in ChildIds
  BY DEF ChildrenInv, ListedInv, CreationsInv
<1>2. index' = [index EXCEPT ![Id(c)] = IF @ = None THEN None ELSE state]
  BY DEF SetKnown
<1>3. state \in LifecycleStates /\ None \notin LifecycleStates
  BY ChildAssumption DEF LifecycleStates
<1>4. /\ process' \in [Creations -> ProcessStates]
      /\ \A d \in attached : process'[d] = "alive" <=> process[d] = "alive"
  BY <1>1 DEF ListedInv, ChildrenInv, ProcessStates
<1>5. \A id \in ChildIds : index[id] # None <=> index'[id] # None
  BY <1>2, <1>3 DEF ListedInv, ChildrenInv
<1>6. ListedInv'
  <2>1. \A d \in attached : Id(d) \in ChildIds
    BY DEF ListedInv, ChildrenInv, CreationsInv
  <2> QED
    BY <1>1, <1>2, <1>3, <1>4, <2>1 DEF ListedInv, ChildrenInv
<1>7. DeathIsOnRecord'
  BY <1>1, <1>4, <1>5 DEF DeathIsOnRecord, ListedInv, ChildrenInv
<1> QED
  BY <1>6, <1>7 DEF ChildrenInv

(* A live child whose report is not listed was collected.                     *)
LEMMA LiveReport ==
  ASSUME ChildrenInv, NEW c \in attached, process[c] = "alive", NEW state,
         Report(c, state), UNCHANGED collectedAlive
  PROVE  SetKnown(Id(c), state) /\ OnlyCollectionKills'
BY DEF Report, OnlyCollectionKills, ListedInv, ChildrenInv

(* A creation either ends on what its child reports, or does not move.        *)
LEMMA EndsOrStays ==
  ASSUME ChildrenInv, NEW c \in attached, UNCHANGED creations \/ Finish(c)
  PROVE  /\ CreationsInv' /\ \A d \in Creations : Id(d)' = Id(d)
         /\ \A d \in Creations : Stage(d)' = Stage(d) \/ (d = c /\ Stage(d)' = "done")
<1>1. c \in Creations /\ Id(c) \in ChildIds
  BY DEF ChildrenInv, ListedInv, CreationsInv
<1>2. CASE UNCHANGED creations
  BY <1>2 DEF ChildrenInv, CreationsInv, CreationShape, Stage, Id
<1>3. CASE Finish(c)
  <2>1. Moved(c, "done", Id(c), None)
    BY <1>1, <1>3, FinishMoves DEF ChildrenInv, CreationsInv
  <2>2. CreationsInv'
    BY <1>1, <2>1, MovedKeepsCreations DEF ChildrenInv, Stages
  <2> QED
    BY <2>1, <2>2 DEF Moved, Stage, Id
<1> QED
  BY <1>2, <1>3

LEMMA ReadyStep ==
  ASSUME ChildrenInv, NEW c \in Creations, Ready(c)
  PROVE  ChildrenInv'
<1>1. /\ Stage(c) = "awaiting" /\ process[c] = "alive" /\ Report(c, "ready")
      /\ UNCHANGED creations \/ Finish(c)
      /\ UNCHANGED <<process, attached, logicalChildren, ended, collectedAlive>>
  BY DEF Ready
<1>2. c \in attached
  BY <1>1 DEF ChildrenInv, ListedInv
<1> QED
  BY <1>1, <1>2, EndsOrStays, LiveReport, ReportStep

LEMMA MessageStep ==
  ASSUME ChildrenInv, NEW c \in Creations, NEW state \in {"ready", "idle", "error"},
         Message(c, state)
  PROVE  ChildrenInv'
BY EndsOrStays, LiveReport, ReportStep DEF Message

LEMMA ReadLateStep ==
  ASSUME ChildrenInv, NEW c \in Creations, NEW state \in {"ready", "idle", "error"},
         ReadLate(c, state)
  PROVE  ChildrenInv'
<1>1. /\ c \in attached /\ process[c] = "unread" /\ SetKnown(Id(c), state)
      /\ process' = [process EXCEPT ![c] = "dead"]
      /\ UNCHANGED creations \/ Finish(c)
      /\ UNCHANGED <<attached, logicalChildren, ended, down, collectedAlive>>
  BY DEF ReadLate
<1>2. OnlyCollectionKills'
  BY <1>1 DEF OnlyCollectionKills, ChildrenInv
<1> QED
  BY <1>1, <1>2, EndsOrStays, ReportStep

LEMMA ExitStep ==
  ASSUME ChildrenInv, NEW c \in Creations, NEW clean \in BOOLEAN, NEW unread \in BOOLEAN,
         Exit(c, clean, unread)
  PROVE  ChildrenInv'
<1>1. /\ process[c] = "alive"
      /\ process' = [process EXCEPT ![c] = IF unread THEN "unread" ELSE "dead"]
      /\ UNCHANGED <<creations, attached, logicalChildren, collectedAlive>>
  BY DEF Exit
<1>2. CreationsInv'
  BY <1>1 DEF ChildrenInv, CreationsInv, CreationShape, Stage, Id
<1>3. \A d \in Creations : Stage(d)' = Stage(d) /\ Id(d)' = Id(d)
  BY <1>1 DEF Stage, Id
<1>4. /\ process' \in [Creations -> ProcessStates] /\ process'[c] # "alive"
      /\ \A d \in Creations \ {c} : process'[d] = process[d]
  BY <1>1 DEF ListedInv, ChildrenInv, ProcessStates
<1>5. CASE c \notin attached
  <2>1. UNCHANGED <<index, ended, down>>
    BY <1>5 DEF Exit
  <2>2. ListedInv'
    BY <1>1, <1>3, <1>4, <1>5, <2>1 DEF ListedInv, ChildrenInv
  <2>3. DeathIsOnRecord'
    BY <1>1, <1>3, <1>4, <1>5, <2>1 DEF DeathIsOnRecord, ListedInv, ChildrenInv
  <2>4. OnlyCollectionKills'
    BY <1>1, <2>1 DEF OnlyCollectionKills, ChildrenInv
  <2> QED
    BY <1>2, <2>2, <2>3, <2>4 DEF ChildrenInv
<1>6. CASE c \in attached
  <2>1. PICK state \in {"killed", "terminated", "error"} : Report(c, state)
    <3>1. Report(c, ExitState(c, clean))
      BY <1>6 DEF Exit, RecordExit
    <3>2. ExitState(c, clean) \in {"killed", "terminated", "error"}
      BY DEF ExitState
    <3> QED
      BY <3>1, <3>2
  <2>2. /\ index' = [index EXCEPT ![Id(c)] = IF @ = None THEN None ELSE state]
        /\ ended' = IF index[Id(c)] = None THEN ended ELSE ended \cup {Id(c)}
    BY <1>6, <2>1 DEF Exit, RecordExit, Report, SetKnown
  <2>3. state \in LifecycleStates /\ None \notin LifecycleStates
    BY ChildAssumption DEF LifecycleStates
  <2>4. \A d \in attached : Id(d) \in ChildIds
    BY DEF ListedInv, ChildrenInv, CreationsInv
  <2>5. ListedInv'
    BY <1>1, <1>3, <1>4, <1>6, <2>2, <2>3, <2>4 DEF ListedInv, ChildrenInv
  <2>6. DeathIsOnRecord'
    <3>1. \A id \in ChildIds : index[id] # None <=> index'[id] # None
      BY <2>2, <2>3 DEF ListedInv, ChildrenInv
    <3> SUFFICES ASSUME NEW id \in ChildIds, index'[id] # None, id \notin ended'
                 PROVE  \/ \E d \in attached : Id(d) = id /\ process'[d] = "alive"
                        \/ id \in logicalChildren
                        \/ \E d \in Creations : Id(d) = id /\ Stage(d) \in {"manifest", "unopened"}
      BY <1>1, <1>3, <2>4 DEF DeathIsOnRecord, ListedInv, ChildrenInv
    <3>2. index[id] # None /\ id \notin ended /\ id # Id(c)
      BY <2>2, <3>1
    <3> QED
      BY <1>4, <3>2 DEF DeathIsOnRecord, ListedInv, ChildrenInv
  <2>7. OnlyCollectionKills'
    BY <1>1, <1>6, <2>1, LiveReport
  <2> QED
    BY <1>2, <2>5, <2>6, <2>7 DEF ChildrenInv
<1> QED
  BY <1>5, <1>6

LEMMA GcStep ==
  ASSUME ChildrenInv, NEW id \in ChildIds, Gc(id)
  PROVE  ChildrenInv'
<1>1. /\ index' = [index EXCEPT ![id] = None] /\ logicalChildren' = logicalChildren \ {id}
      /\ ended' = ended \ {id}
      /\ collectedAlive' = (collectedAlive \/
            \E c \in attached : Id(c) = id /\ process[c] = "alive")
      /\ UNCHANGED <<creations, process, attached, down>>
  BY DEF Gc
<1>2. CreationsInv'
  BY <1>1 DEF ChildrenInv, CreationsInv, CreationShape, Stage, Id
<1>3. \A d \in Creations : Stage(d)' = Stage(d) /\ Id(d)' = Id(d)
  BY <1>1 DEF Stage, Id
<1>4. \A d \in attached : Id(d) \in ChildIds
  BY DEF ListedInv, ChildrenInv, CreationsInv
<1>5. ListedInv'
  BY <1>1, <1>3, <1>4 DEF ListedInv, ChildrenInv
<1>6. DeathIsOnRecord'
  BY <1>1, <1>3, <1>4 DEF DeathIsOnRecord, ListedInv, ChildrenInv
<1>7. OnlyCollectionKills'
  BY <1>1 DEF OnlyCollectionKills, ChildrenInv
<1> QED
  BY <1>2, <1>5, <1>6, <1>7 DEF ChildrenInv

LEMMA IndexHttpChildStep ==
  ASSUME ChildrenInv, NEW c \in Creations, IndexHttpChild(c)
  PROVE  ChildrenInv'
<1>1. /\ Stage(c) = "directories"
      /\ UNCHANGED <<process, attached, logicalChildren, ended, down, collectedAlive>>
  BY DEF IndexHttpChild
<1>2. Id(c) \in ChildIds /\ c \notin attached /\ creations[c].ticket = None
  BY <1>1 DEF ChildrenInv, CreationsInv, ListedInv
<1>3. CASE SetState(Id(c), "ready") /\ MoveTo(c, "manifest")
  <2>1. index' = [index EXCEPT ![Id(c)] = "ready"] /\ Moved(c, "manifest", Id(c), None)
    BY <1>2, <1>3, MoveToMoves DEF SetState, ChildrenInv, CreationsInv
  <2>2. CreationsInv'
    BY <1>2, <2>1, MovedKeepsCreations DEF ChildrenInv, Stages
  <2>3. /\ \A d \in Creations \ {c} : Stage(d)' = Stage(d) /\ Id(d)' = Id(d)
        /\ Stage(c)' = "manifest" /\ Id(c)' = Id(c)
    BY <2>1 DEF Moved, Stage, Id
  <2>4. "ready" \in LifecycleStates /\ None \notin LifecycleStates
    BY ChildAssumption DEF LifecycleStates
  <2>5. \A d \in attached : Id(d) \in ChildIds
    BY DEF ListedInv, ChildrenInv, CreationsInv
  <2>6. ListedInv'
    BY <1>1, <1>2, <2>1, <2>3, <2>4, <2>5 DEF ListedInv, ChildrenInv
  <2>7. DeathIsOnRecord'
    BY <1>1, <1>2, <2>1, <2>3 DEF DeathIsOnRecord, ListedInv, ChildrenInv
  <2>8. OnlyCollectionKills'
    BY <1>1 DEF OnlyCollectionKills, ChildrenInv
  <2> QED
    BY <2>2, <2>6, <2>7, <2>8 DEF ChildrenInv
<1>4. CASE Finish(c) /\ UNCHANGED index
  <2>1. Moved(c, "done", Id(c), None)
    BY <1>4, FinishMoves DEF ChildrenInv, CreationsInv
  <2> QED
    BY <1>1, <1>2, <1>4, <2>1, GoesOn DEF Stages, Observed
<1> QED
  BY <1>3, <1>4 DEF IndexHttpChild

LEMMA OpenHttpChildStep ==
  ASSUME ChildrenInv, NEW c \in Creations, OpenHttpChild(c)
  PROVE  ChildrenInv'
<1>1. /\ Stage(c) = "manifest" /\ logicalChildren' = logicalChildren \cup {Id(c)}
      /\ Finish(c) /\ UNCHANGED <<process, attached, index, ended, down, collectedAlive>>
  BY DEF OpenHttpChild
<1>2. Id(c) \in ChildIds /\ c \notin attached
  BY <1>1 DEF ChildrenInv, CreationsInv, ListedInv
<1>3. Moved(c, "done", Id(c), None)
  BY <1>1, FinishMoves DEF ChildrenInv, CreationsInv
<1>4. CreationsInv'
  BY <1>2, <1>3, MovedKeepsCreations DEF ChildrenInv, Stages
<1>5. /\ \A d \in Creations \ {c} : Stage(d)' = Stage(d) /\ Id(d)' = Id(d)
      /\ Stage(c)' = "done" /\ Id(c)' = Id(c)
  BY <1>3 DEF Moved, Stage, Id
<1>6. ListedInv'
  BY <1>1, <1>2, <1>5 DEF ListedInv, ChildrenInv
<1>7. DeathIsOnRecord'
  BY <1>1, <1>5 DEF DeathIsOnRecord, ListedInv, ChildrenInv
<1>8. OnlyCollectionKills'
  BY <1>1 DEF OnlyCollectionKills, ChildrenInv
<1> QED
  BY <1>4, <1>6, <1>7, <1>8 DEF ChildrenInv

LEMMA PreparationFailsStep ==
  ASSUME ChildrenInv, NEW c \in Creations, PreparationFails(c)
  PROVE  ChildrenInv'
<1>1. /\ Stage(c) \in {"sandbox", "directories", "manifest"} /\ UNCHANGED Observed
      /\ MoveTo(c, IF Stage(c) = "manifest" THEN "unopened" ELSE "done")
  BY DEF PreparationFails, Observed
<1>2. Id(c) \in ChildIds /\ c \notin attached /\ creations[c].ticket = None
  BY <1>1 DEF ChildrenInv, CreationsInv, ListedInv
<1>3. CASE Stage(c) # "manifest"
  <2>1. Moved(c, "done", Id(c), None)
    BY <1>1, <1>2, <1>3, MoveToMoves DEF ChildrenInv, CreationsInv
  <2> QED
    BY <1>1, <1>2, <1>3, <2>1, GoesOn DEF Stages
<1>4. CASE Stage(c) = "manifest"
  <2>1. Moved(c, "unopened", Id(c), None)
    BY <1>1, <1>2, <1>4, MoveToMoves DEF ChildrenInv, CreationsInv
  <2>2. CreationsInv'
    BY <1>2, <2>1, MovedKeepsCreations DEF ChildrenInv, Stages
  <2>3. /\ \A d \in Creations \ {c} : Stage(d)' = Stage(d) /\ Id(d)' = Id(d)
        /\ Stage(c)' = "unopened" /\ Id(c)' = Id(c)
    BY <2>1 DEF Moved, Stage, Id
  <2>4. ListedInv'
    BY <1>1, <1>2, <2>3 DEF ListedInv, ChildrenInv, Observed
  <2>5. DeathIsOnRecord'
    BY <1>1, <2>3 DEF DeathIsOnRecord, ListedInv, ChildrenInv, Observed
  <2>6. OnlyCollectionKills'
    BY <1>1 DEF OnlyCollectionKills, ChildrenInv, Observed
  <2> QED
    BY <2>2, <2>4, <2>5, <2>6 DEF ChildrenInv
<1> QED
  BY <1>3, <1>4

(* The watchdog, send, cancel and kill, which leave the creations alone.      *)
LEMMA OtherCallStep ==
  ASSUME ChildrenInv, NEW id \in ChildIds, NEW flag \in BOOLEAN,
         Sent(id) \/ Watchdog(id) \/ Stop(id, flag) \/ StopHttpChild(id, flag)
  PROVE  ChildrenInv'
<1>1. UNCHANGED <<creations, process, attached, down, collectedAlive>>
  BY DEF Watchdog, Sent, Stop, StopHttpChild
<1>2. index \in [ChildIds -> LifecycleStates \cup {None}]
  BY DEF ChildrenInv, ListedInv
<1>3. /\ {"idle", "running", "stopping", "killed", "terminated"} \subseteq LifecycleStates
      /\ None \notin LifecycleStates /\ None \notin {"starting", "ready"}
  BY ChildAssumption DEF LifecycleStates
<1>4. CASE Watchdog(id)
  BY <1>1, <1>2, <1>3, <1>4, OtherStates DEF Watchdog, SetState
<1>5. CASE Sent(id)
  BY <1>1, <1>2, <1>3, <1>5, OtherStates DEF Sent, SetKnown
<1>6. CASE Stop(id, flag)
  BY <1>1, <1>2, <1>3, <1>6, OtherStates DEF Stop, SetState
<1>7. CASE StopHttpChild(id, flag)
  BY <1>1, <1>2, <1>3, <1>7, OtherStates DEF StopHttpChild, SetState
<1> QED
  BY <1>4, <1>5, <1>6, <1>7

-----------------------------------------------------------------------------
LEMMA ChildrenInvInit == ASSUME ChildrenInit PROVE ChildrenInv
BY DEF ChildrenInit, ChildrenInv, CreationsInv, CreationShape, ListedInv, DeathIsOnRecord,
       OnlyCollectionKills, ProcessStates, Id, Stage, Stages

LEMMA ChildrenInvStep == ASSUME ChildrenInv, [ChildrenNext]_vars PROVE ChildrenInv'
<1>1. CASE UNCHANGED vars \/ Tick
  <2>1. UNCHANGED <<creations, process, attached, index, logicalChildren, ended, down,
                    collectedAlive>>
    BY <1>1 DEF vars, childVars, Tick
  <2> QED
    BY <2>1, OtherStates DEF ChildrenInv, ListedInv
<1>2. ASSUME NEW c \in Creations, CreationStep(c) PROVE ChildrenInv'
  BY <1>2, CreateChildStep, AcquireStep, StartStep, SpawnFailsStep, GiveUpStep, SpawnedStep,
     ReadyStep, TornDownStep, IndexHttpChildStep, OpenHttpChildStep, PreparationFailsStep
  DEF CreationStep
<1>3. ASSUME NEW c \in Creations, ProcessStep(c) PROVE ChildrenInv'
  BY <1>3, MessageStep, ReadLateStep, ExitStep DEF ProcessStep
<1>4. ASSUME NEW id \in ChildIds, ToolCall(id) PROVE ChildrenInv'
  BY <1>4, GcStep, OtherCallStep DEF ToolCall
<1> QED
  BY <1>1, <1>2, <1>3, <1>4 DEF ChildrenNext

LEMMA ChildrenInvHolds == ChildrenSpec => []ChildrenInv
<1> QED
  BY ChildrenInvInit, ChildrenInvStep, PTL DEF ChildrenSpec

(* A record without an end belongs to a live process that is listened to, or  *)
(* to an HTTP child open, being opened or left without its manifest, whatever *)
(* fails, sleeps, exits, is torn down or is collected, and whatever the last  *)
(* line of a dead process says (children/supervisor.ts, childRuntime.ts).     *)
THEOREM NoDeathIsMissed == ChildrenSpec => []DeathIsOnRecord
<1>1. ChildrenInv => DeathIsOnRecord
  BY DEF ChildrenInv
<1> QED
  BY <1>1, ChildrenInvHolds, PTL

(* Only a collected child that is still alive can bring the orchestrator down *)
(* by what it reports (children/supervisor.ts, state/childrenIndex.ts).       *)
THEOREM OnlyCollectionEnds == ChildrenSpec => []OnlyCollectionKills
<1>1. ChildrenInv => OnlyCollectionKills
  BY DEF ChildrenInv
<1> QED
  BY <1>1, ChildrenInvHolds, PTL

-----------------------------------------------------------------------------
(* The slots of the breaker.  No operation of the breaker makes it half-open  *)
(* with a slot taken, but the admission of an attempt that takes one.         *)
SlotShape(b) ==
  /\ DOMAIN b = {"state", "failures", "retryAt", "inFlight", "successes"}
  /\ b.state \in BreakerStates /\ b.inFlight \in Nat

LEMMA MaxOfZero == \A n \in Int : Max({0, n}) = IF n < 0 THEN 0 ELSE n
<1> TAKE n \in Int
<1> DEFINE m == IF n < 0 THEN 0 ELSE n
<1>1. m \in {0, n} /\ \A y \in {0, n} : m >= y
  OBVIOUS
<1>2. \A x \in {0, n} : (\A y \in {0, n} : x >= y) => x = m
  OBVIOUS
<1> HIDE DEF m
<1>3. Max({0, n}) = m
  BY <1>1, <1>2 DEF Max
<1> QED
  BY <1>3 DEF m

LEMMA RefreshedSlots ==
  ASSUME NEW b, SlotShape(b), NEW at
  PROVE  /\ SlotShape(Refreshed(b, at))
         /\ Refreshed(b, at) = b \/ Refreshed(b, at).inFlight = 0
BY DEF Refreshed, SlotShape, BreakerStates

LEMMA ReleasedSlots ==
  ASSUME NEW b, SlotShape(b)
  PROVE  /\ SlotShape(Released(b)) /\ Released(b).state = b.state
         /\ Released(b).inFlight <= b.inFlight
         /\ Released(b).inFlight > 0 => Released(b).inFlight = b.inFlight - 1
<1>1. Max({0, b.inFlight - 1}) = IF b.inFlight = 0 THEN 0 ELSE b.inFlight - 1
  BY MaxOfZero DEF SlotShape
<1> QED
  BY <1>1 DEF Released, SlotShape

LEMMA FailedSlots ==
  ASSUME NEW b, SlotShape(b), NEW at
  PROVE  SlotShape(Failed(b, at)) /\ Failed(b, at).state # "half-open"
<1>1. CASE b.state = "half-open"
  BY <1>1 DEF Failed, Opened, SlotShape, BreakerStates
<1>2. CASE b.state = "open"
  BY <1>2 DEF Failed, SlotShape, BreakerStates
<1>3. CASE b.state = "closed"
  <2> DEFINE c == [b EXCEPT !.failures = @ + 1]
  <2>1. SlotShape(c) /\ c.state = "closed"
    BY <1>3 DEF SlotShape
  <2>2. SlotShape(Opened(c, at)) /\ Opened(c, at).state = "open"
    BY DEF Opened, SlotShape, BreakerStates
  <2>3. Failed(b, at) = IF c.failures >= FailThreshold THEN Opened(c, at) ELSE c
    BY <1>3 DEF Failed
  <2> HIDE DEF c
  <2> QED
    BY <2>1, <2>2, <2>3
<1> QED
  BY <1>1, <1>2, <1>3 DEF SlotShape, BreakerStates

LEMMA SucceededSlots ==
  ASSUME NEW b, SlotShape(b)
  PROVE  /\ SlotShape(Succeeded(b))
         /\ Succeeded(b).state = "half-open" =>
              b.state = "half-open" /\ Succeeded(b).inFlight <= b.inFlight
<1> DEFINE c == [b EXCEPT !.failures = 0]
           probe == [Released(c) EXCEPT !.successes = @ + 1]
<1>1. SlotShape(c) /\ c.state = b.state /\ c.inFlight = b.inFlight
  BY DEF SlotShape
<1>2. \A d : SlotShape(d) => SlotShape(Closed(d)) /\ Closed(d).state = "closed"
  BY DEF Closed, SlotShape, BreakerStates
<1>3. SlotShape(probe) /\ probe.state = b.state /\ probe.inFlight <= b.inFlight
  <2> HIDE DEF c
  <2>1. /\ SlotShape(Released(c)) /\ Released(c).state = c.state
        /\ Released(c).inFlight <= c.inFlight
    BY <1>1, ReleasedSlots
  <2> QED
    BY <1>1, <2>1 DEF SlotShape
<1>4. Succeeded(b) = IF c.state # "half-open" THEN Closed(c)
                     ELSE IF probe.successes >= HalfOpenSuccesses THEN Closed(probe) ELSE probe
  BY DEF Succeeded
<1> HIDE DEF c, probe
<1> QED
  BY <1>1, <1>2, <1>3, <1>4

LEMMA SettledSlots ==
  ASSUME NEW b, SlotShape(b), NEW origin, NEW success \in BOOLEAN, NEW at
  PROVE  /\ SlotShape(Settled(b, origin, success, at))
         /\ Settled(b, origin, success, at).state = "half-open" =>
              /\ b.state = "half-open"
              /\ Settled(b, origin, success, at).inFlight <= b.inFlight
              /\ origin = "half-open" /\ Settled(b, origin, success, at).inFlight > 0 =>
                   Settled(b, origin, success, at).inFlight <= b.inFlight - 1
<1> DEFINE c == IF origin = "half-open" THEN Released(b) ELSE b
<1>1. /\ SlotShape(c) /\ c.state = b.state /\ c.inFlight <= b.inFlight
      /\ origin = "half-open" /\ c.inFlight > 0 => c.inFlight = b.inFlight - 1
  <2>1. CASE origin = "half-open"
    BY <2>1, ReleasedSlots
  <2>2. CASE origin # "half-open"
    BY <2>2 DEF SlotShape
  <2> QED
    BY <2>1, <2>2
<1>2. Settled(b, origin, success, at) = IF success THEN Succeeded(c) ELSE Failed(c, at)
  BY DEF Settled
<1>3. /\ SlotShape(Succeeded(c)) /\ SlotShape(Failed(c, at)) /\ Failed(c, at).state # "half-open"
      /\ Succeeded(c).state = "half-open" =>
           c.state = "half-open" /\ Succeeded(c).inFlight <= c.inFlight
  BY <1>1, SucceededSlots, FailedSlots
<1>4. b.inFlight \in Nat /\ c.inFlight \in Nat /\ Succeeded(c).inFlight \in Nat
  BY <1>1, <1>3 DEF SlotShape
<1> HIDE DEF c
<1> QED
  BY <1>1, <1>2, <1>3, <1>4

-----------------------------------------------------------------------------
Holders == {c \in Creations : creations[c].ticket = "half-open"}
SlotsInv == CreationsInv /\ SlotShape(breaker) /\ SlotsAreHeld

LEMMA HoldersAreFinite ==
  \A S \in SUBSET Creations : IsFiniteSet(S) /\ Cardinality(S) \in Nat
BY ChildAssumption, FS_Subset, FS_CardinalityType

(* A step that leaves the tickets alone and gives no slot away.               *)
LEMMA SameHolders ==
  ASSUME SlotsInv, CreationsInv', Holders' = Holders, SlotShape(breaker)',
         breaker'.state = "half-open" =>
           \/ breaker'.inFlight = 0
           \/ breaker.state = "half-open" /\ breaker'.inFlight <= breaker.inFlight
  PROVE  SlotsInv'
<1>1. Cardinality(Holders) \in Nat
  BY HoldersAreFinite DEF Holders
<1>2. /\ SlotsAreHeld <=> (breaker.state = "half-open" => breaker.inFlight <= Cardinality(Holders))
      /\ SlotsAreHeld' <=>
           (breaker'.state = "half-open" => breaker'.inFlight <= Cardinality(Holders)')
  BY DEF SlotsAreHeld, Holders
<1> QED
  BY <1>1, <1>2 DEF SlotsInv, SlotShape

(* A creation that takes a slot is a new holder.                              *)
LEMMA OneMoreHolder ==
  ASSUME SlotsInv, CreationsInv', NEW c \in Creations \ Holders,
         Holders' = Holders \cup {c}, SlotShape(breaker)',
         breaker'.state = "half-open" =>
           \/ breaker'.inFlight = 1
           \/ breaker.state = "half-open" /\ breaker'.inFlight = breaker.inFlight + 1
  PROVE  SlotsInv'
<1>1. IsFiniteSet(Holders) /\ Cardinality(Holders) \in Nat
  BY HoldersAreFinite DEF Holders
<1>2. Cardinality(Holders)' = Cardinality(Holders) + 1
  BY <1>1, FS_AddElement
<1>3. /\ SlotsAreHeld <=> (breaker.state = "half-open" => breaker.inFlight <= Cardinality(Holders))
      /\ SlotsAreHeld' <=>
           (breaker'.state = "half-open" => breaker'.inFlight <= Cardinality(Holders)')
  BY DEF SlotsAreHeld, Holders
<1> QED
  BY <1>1, <1>2, <1>3 DEF SlotsInv, SlotShape

(* A creation whose ticket settles gives its slot back, if it held one.       *)
LEMMA OneHolderLess ==
  ASSUME SlotsInv, CreationsInv', NEW c \in Creations, Holders' = Holders \ {c},
         NEW success \in BOOLEAN, breaker' = Settled(breaker, creations[c].ticket, success, now)
  PROVE  SlotsInv'
<1> DEFINE origin == creations[c].ticket
<1>1. /\ SlotShape(breaker')
      /\ breaker'.state = "half-open" =>
           /\ breaker.state = "half-open" /\ breaker'.inFlight <= breaker.inFlight
           /\ origin = "half-open" /\ breaker'.inFlight > 0 =>
                breaker'.inFlight <= breaker.inFlight - 1
  <2> HIDE DEF origin
  <2>1. SlotShape(breaker) /\ breaker' = Settled(breaker, origin, success, now)
    BY DEF SlotsInv, origin
  <2> QED
    BY <2>1, SettledSlots
<1>2. CASE origin # "half-open"
  <2>1. Holders' = Holders
    BY <1>2 DEF Holders
  <2> QED
    BY <1>1, <2>1, SameHolders
<1>3. CASE origin = "half-open"
  <2>1. c \in Holders
    BY <1>3 DEF Holders
  <2>2. IsFiniteSet(Holders) /\ Cardinality(Holders) \in Nat
    BY HoldersAreFinite DEF Holders
  <2>3. Cardinality(Holders)' = Cardinality(Holders) - 1 /\ Cardinality(Holders) >= 1
    <3>1. Cardinality(Holders \ {c}) = Cardinality(Holders) - 1
      BY <2>1, <2>2, FS_RemoveElement
    <3>2. Cardinality(Holders \ {c}) \in Nat
      BY HoldersAreFinite DEF Holders
    <3> QED
      BY <2>2, <3>1, <3>2
  <2>4. /\ SlotsAreHeld <=>
             (breaker.state = "half-open" => breaker.inFlight <= Cardinality(Holders))
        /\ SlotsAreHeld' <=>
             (breaker'.state = "half-open" => breaker'.inFlight <= Cardinality(Holders)')
    BY DEF SlotsAreHeld, Holders
  <2>5. breaker.inFlight \in Nat /\ breaker'.inFlight \in Nat
    BY <1>1 DEF SlotsInv, SlotShape
  <2>6. breaker'.state = "half-open" => breaker'.inFlight <= Cardinality(Holders)'
    <3> HAVE breaker'.state = "half-open"
    <3>1. breaker.inFlight <= Cardinality(Holders) /\ (breaker'.inFlight > 0 =>
            breaker'.inFlight <= breaker.inFlight - 1)
      BY <1>1, <1>3, <2>4 DEF SlotsInv
    <3> QED
      BY <2>2, <2>3, <2>5, <3>1
  <2> QED
    BY <1>1, <2>4, <2>6 DEF SlotsInv
<1> QED
  BY <1>2, <1>3

-----------------------------------------------------------------------------
LEMMA HoldersMove ==
  ASSUME NEW c \in Creations, NEW stage, NEW id, NEW ticket, Moved(c, stage, id, ticket)
  PROVE  /\ ticket = creations[c].ticket => Holders' = Holders
         /\ ticket # "half-open" => Holders' = Holders \ {c}
         /\ ticket = "half-open" => Holders' = Holders \cup {c}
<1>1. \A d \in Creations : d \in Holders' <=> creations'[d].ticket = "half-open"
  BY DEF Holders
<1>2. \A d \in Creations : d \in Holders <=> creations[d].ticket = "half-open"
  BY DEF Holders
<1>3. Holders \subseteq Creations /\ Holders' \subseteq Creations
  BY DEF Holders
<1>4. /\ creations'[c].ticket = ticket
      /\ \A d \in Creations \ {c} : creations'[d].ticket = creations[d].ticket
  BY DEF Moved
<1> QED
  BY <1>1, <1>2, <1>3, <1>4

(* A creation that asks for a ticket.                                         *)
LEMMA AcquireSlots ==
  ASSUME SlotsInv, CreationsInv', NEW c \in Creations, Acquire(c)
  PROVE  SlotsInv'
<1> DEFINE b == Refreshed(breaker, now)
<1>1. SlotShape(b) /\ (b = breaker \/ b.inFlight = 0)
  BY RefreshedSlots DEF SlotsInv
<1>2. creations[c].ticket = None /\ c \notin Holders
  <2>1. None # "half-open"
    BY ChildAssumption DEF BreakerStates
  <2>2. Stage(c) \in {"sandbox", "retrying"}
    BY DEF Acquire
  <2> QED
    BY <2>1, <2>2 DEF SlotsInv, CreationsInv, Holders
<1>3. CASE TakeSlot /\ creations' = [creations EXCEPT ![c] =
             [@ EXCEPT !.stage = "sleeping", !.wake = now + Wait(now), !.ticket = b.state]]
  <2>1. breaker' = Admitted(b)
    BY <1>3 DEF TakeSlot
  <2> HIDE DEF b
  <2>2. Moved(c, "sleeping", Id(c), b.state)
    BY <1>3 DEF Moved, Stage, Id, SlotsInv, CreationsInv, CreationShape
  <2>3. CASE b.state = "half-open"
    <3>1. SlotShape(breaker') /\ breaker'.inFlight = b.inFlight + 1
      BY <1>1, <2>1, <2>3 DEF Admitted, SlotShape
    <3>2. Holders' = Holders \cup {c}
      BY <2>2, <2>3, HoldersMove
    <3>3. breaker'.inFlight = 1 \/ (breaker.state = "half-open"
                                    /\ breaker'.inFlight = breaker.inFlight + 1)
      BY <1>1, <2>3, <3>1
    <3> QED
      BY <1>2, <3>1, <3>2, <3>3, OneMoreHolder
  <2>4. CASE b.state # "half-open"
    <3>1. breaker' = b
      BY <2>1, <2>4 DEF Admitted
    <3>2. Holders' = Holders
      BY <1>2, <2>2, <2>4, HoldersMove
    <3> QED
      BY <1>1, <2>4, <3>1, <3>2, SameHolders
  <2> QED
    BY <2>3, <2>4
<1>4. ASSUME NEW stage, NEW wake, breaker' = b,
             creations' = [creations EXCEPT ![c] = [@ EXCEPT !.stage = stage, !.wake = wake]]
      PROVE  SlotsInv'
  <2> HIDE DEF b
  <2>1. Moved(c, stage, Id(c), creations[c].ticket)
    BY <1>4 DEF Moved, Stage, Id, SlotsInv, CreationsInv, CreationShape
  <2>2. Holders' = Holders
    BY <2>1, HoldersMove
  <2>3. breaker'.state = "half-open" =>
           \/ breaker'.inFlight = 0
           \/ breaker.state = "half-open" /\ breaker'.inFlight <= breaker.inFlight
    BY <1>1, <1>4 DEF SlotShape
  <2> QED
    BY <1>1, <1>4, <2>2, <2>3, SameHolders
<1>5. \/ TakeSlot /\ creations' = [creations EXCEPT ![c] =
             [@ EXCEPT !.stage = "sleeping", !.wake = now + Wait(now), !.ticket = b.state]]
      \/ \E stage, wake : /\ breaker' = b
                          /\ creations' = [creations EXCEPT ![c] =
                               [@ EXCEPT !.stage = stage, !.wake = wake]]
  BY DEF Acquire
<1> HIDE DEF b
<1> QED
  BY <1>3, <1>4, <1>5

(* A creation that ends or is torn down: SpawnFails, TornDown, and Spawned    *)
(* and Ready when they return.                                                *)
LEMMA SettleSlots ==
  ASSUME SlotsInv, CreationsInv', NEW c \in Creations, Finish(c),
         TicketSucceeds(creations[c].ticket) \/ TicketFails(creations[c].ticket)
  PROVE  SlotsInv'
<1>1. Holders' = Holders \ {c}
  <2>1. Moved(c, "done", Id(c), None)
    BY FinishMoves DEF SlotsInv, CreationsInv
  <2>2. None # "half-open"
    BY ChildAssumption DEF BreakerStates
  <2> QED
    BY <2>1, <2>2, HoldersMove
<1>2. PICK success \in BOOLEAN : breaker' = Settled(breaker, creations[c].ticket, success, now)
  BY DEF TicketSucceeds, TicketFails
<1> QED
  BY <1>1, <1>2, OneHolderLess

(* Steps of a creation that leave its ticket and the breaker alone.           *)
LEMMA KeepSlots ==
  ASSUME SlotsInv, CreationsInv', NEW c \in Creations, NEW stage, NEW id,
         Moved(c, stage, id, creations[c].ticket), UNCHANGED breaker
  PROVE  SlotsInv'
<1>1. Holders' = Holders
  BY HoldersMove
<1> QED
  BY <1>1, SameHolders DEF SlotsInv, SlotShape

LEMMA CreationSlots ==
  ASSUME SlotsInv, CreationsInv', NEW c \in Creations, CreationStep(c)
  PROVE  SlotsInv'
<1>1. CASE \E id \in ChildIds : CreateChild(c, id) \/ RegisterHttpChild(c, id)
  <2>1. PICK stage, id :
          creations' = [creations EXCEPT ![c] = [@ EXCEPT !.stage = stage, !.id = id]]
    BY <1>1 DEF CreateChild, RegisterHttpChild
  <2>2. UNCHANGED breaker
    BY <1>1 DEF CreateChild, RegisterHttpChild, supervisionVars
  <2>3. Moved(c, stage, id, creations[c].ticket)
    BY <2>1 DEF Moved, Stage, Id, SlotsInv, CreationsInv, CreationShape
  <2> QED
    BY <2>2, <2>3, KeepSlots
<1>2. CASE Start(c)
  <2>1. UNCHANGED breaker
    BY <1>2 DEF Start, RecordRestart
  <2>2. Moved(c, "starting", Id(c), creations[c].ticket)
    BY <1>2 DEF Start, Moved, Stage, Id, SlotsInv, CreationsInv, CreationShape
  <2> QED
    BY <2>1, <2>2, KeepSlots
<1>3. CASE SpawnFails(c) \/ TornDown(c)
  BY <1>3, SettleSlots DEF SpawnFails, TornDown
<1>4. ASSUME NEW stage, MoveTo(c, stage), UNCHANGED breaker PROVE SlotsInv'
  BY <1>4, MoveToMoves, KeepSlots DEF SlotsInv, CreationsInv
<1>5. CASE SpawnedDuplicate(c) \/ ReadyTimeout(c)
  BY <1>4, <1>5 DEF SpawnedDuplicate, ReadyTimeout, GiveUp, supervisionVars
<1>6. CASE \E waitForReady \in BOOLEAN : Spawned(c, waitForReady)
  BY <1>4, <1>6, SettleSlots DEF Spawned, supervisionVars
<1>7. CASE Ready(c)
  <2>1. CASE UNCHANGED <<creations, supervisionVars>>
    <3>1. Holders' = Holders /\ UNCHANGED breaker
      BY <2>1 DEF Holders, supervisionVars
    <3> QED
      BY <3>1, SameHolders DEF SlotsInv, SlotShape
  <2> QED
    BY <1>7, <2>1, SettleSlots DEF Ready
<1>8. CASE IndexHttpChild(c)
  <2>1. UNCHANGED breaker
    BY <1>8 DEF IndexHttpChild, supervisionVars
  <2>2. CASE Stage(c) = "directories" /\ Finish(c)
    <3>1. creations[c].ticket = None
      BY <2>2 DEF SlotsInv, CreationsInv
    <3> QED
      BY <2>1, <2>2, <3>1, FinishMoves, KeepSlots DEF SlotsInv, CreationsInv
  <2> QED
    BY <1>4, <1>8, <2>1, <2>2 DEF IndexHttpChild
<1>9. CASE OpenHttpChild(c)
  <2>1. UNCHANGED breaker /\ Stage(c) = "manifest" /\ Finish(c)
    BY <1>9 DEF OpenHttpChild, supervisionVars
  <2>2. creations[c].ticket = None
    BY <2>1 DEF SlotsInv, CreationsInv
  <2> QED
    BY <2>1, <2>2, FinishMoves, KeepSlots DEF SlotsInv, CreationsInv
<1>10. CASE PreparationFails(c)
  BY <1>4, <1>10 DEF PreparationFails, supervisionVars
<1> QED
  BY <1>1, <1>2, <1>3, <1>5, <1>6, <1>7, <1>8, <1>9, <1>10, AcquireSlots DEF CreationStep

LEMMA SlotsInvStep ==
  ASSUME SlotsInv, CreationsInv', [ChildrenNext]_vars
  PROVE  SlotsInv'
<1>1. ASSUME UNCHANGED creations, SlotShape(breaker)',
             breaker'.state = "half-open" =>
               breaker.state = "half-open" /\ breaker'.inFlight <= breaker.inFlight
      PROVE  SlotsInv'
  <2>1. Holders' = Holders
    BY <1>1 DEF Holders
  <2> QED
    BY <1>1, <2>1, SameHolders
<1>2. ASSUME UNCHANGED <<creations, breaker>> PROVE SlotsInv'
  BY <1>1, <1>2 DEF SlotsInv, SlotShape
<1>3. CASE UNCHANGED vars \/ Tick
  BY <1>2, <1>3 DEF vars, childVars, supervisionVars, Tick
<1>4. ASSUME NEW c \in Creations, ProcessStep(c) PROVE SlotsInv'
  <2>1. ASSUME NEW state, Message(c, state) PROVE SlotsInv'
    BY <1>2, <2>1 DEF Message, supervisionVars
  <2>2. ASSUME NEW state, ReadLate(c, state) PROVE SlotsInv'
    <3>1. CASE UNCHANGED <<creations, supervisionVars>>
      BY <1>2, <3>1 DEF supervisionVars
    <3>2. CASE Finish(c) /\ TicketSucceeds(creations[c].ticket)
      BY <3>2, SettleSlots
    <3> QED
      BY <2>2, <3>1, <3>2 DEF ReadLate
  <2>3. ASSUME NEW clean, NEW unread, Exit(c, clean, unread) PROVE SlotsInv'
    <3>1. UNCHANGED creations
          /\ (UNCHANGED breaker \/ breaker' = Failed(breaker, now) \/ breaker' = Succeeded(breaker))
      BY <2>3 DEF Exit, supervisionVars, RecordCrash, RecordSuccess
    <3> QED
      BY <1>1, <1>2, <3>1, FailedSlots, SucceededSlots DEF SlotsInv
  <2> QED
    BY <1>4, <2>1, <2>2, <2>3 DEF ProcessStep
<1>5. ASSUME NEW id \in ChildIds, ToolCall(id) PROVE SlotsInv'
  BY <1>2, <1>5 DEF ToolCall, Gc, Watchdog, Sent, Stop, StopHttpChild, supervisionVars
<1> QED
  BY <1>3, <1>4, <1>5, CreationSlots DEF ChildrenNext

(* A half-open breaker counts no slot that no creation holds: none is lost to *)
(* a spawn that fails, a ready message that never comes or a process that     *)
(* exits (infra/circuitBreaker.ts, children/supervisionStrategy.ts).          *)
THEOREM NoSlotIsLost == ChildrenSpec => []SlotsAreHeld
<1>1. ChildrenInit => SlotsInv
  <2>1. ASSUME ChildrenInit PROVE CreationsInv /\ SlotShape(breaker) /\ breaker.state = "closed"
    BY <2>1, ChildrenInvInit DEF ChildrenInv, ChildrenInit, SupervisionInit, NewBreaker, SlotShape,
       BreakerStates
  <2> QED
    BY <2>1 DEF SlotsInv, SlotsAreHeld
<1>2. ChildrenInv => CreationsInv
  BY DEF ChildrenInv
<1>3. SlotsInv => SlotsAreHeld
  BY DEF SlotsInv
<1> QED
  BY <1>1, <1>2, <1>3, SlotsInvStep, ChildrenInvHolds, PTL DEF ChildrenSpec

-----------------------------------------------------------------------------
(* Types.  The operations of the breaker return a breaker, and those of the   *)
(* restart history a history.                                                 *)
LEMMA MaxOfThree ==
  ASSUME NEW a \in Int, NEW b \in Int, NEW c \in Int
  PROVE  /\ Max({a, b, c}) \in {a, b, c}
         /\ \A x \in {a, b, c} : Max({a, b, c}) >= x
<1>1. \E m \in {a, b, c} : \A x \in {a, b, c} : m >= x
  <2>1. CASE a >= b /\ a >= c
    BY <2>1
  <2>2. CASE b >= a /\ b >= c
    BY <2>2
  <2>3. CASE c >= a /\ c >= b
    BY <2>3
  <2> QED
    BY <2>1, <2>2, <2>3
<1> QED
  BY <1>1 DEF Max

LEMMA MinOfTwo ==
  ASSUME NEW a \in Int, NEW b \in Int
  PROVE  Min({a, b}) \in {a, b}
<1>1. \E m \in {a, b} : \A x \in {a, b} : m <= x
  OBVIOUS
<1> QED
  BY <1>1 DEF Min

LEMMA BreakerFields ==
  \A b \in Breaker :
    /\ b.state \in BreakerStates /\ b.failures \in 0..FailThreshold
    /\ b.retryAt \in Nat \cup {None} /\ b.inFlight \in 0..HalfOpenMax
    /\ b.successes \in 0..HalfOpenSuccesses
BY DEF Breaker

LEMMA OpenedIsBreaker == \A b : \A at \in Nat : Opened(b, at) \in Breaker
BY BreakerAssumption DEF Opened, Breaker, BreakerStates

(* A breaker is its five fields, and any of them can be replaced.             *)
LEMMA BreakerOf ==
  ASSUME NEW b, NEW state \in BreakerStates, NEW failures \in 0..FailThreshold,
         NEW retryAt \in Nat \cup {None}, NEW inFlight \in 0..HalfOpenMax,
         NEW successes \in 0..HalfOpenSuccesses,
         b = [state |-> state, failures |-> failures, retryAt |-> retryAt,
              inFlight |-> inFlight, successes |-> successes]
  PROVE  b \in Breaker
BY DEF Breaker

LEMMA BreakerIs ==
  \A b \in Breaker : b = [state |-> b.state, failures |-> b.failures, retryAt |-> b.retryAt,
                         inFlight |-> b.inFlight, successes |-> b.successes]
BY DEF Breaker

(* A transition of the breaker replaces four fields at once; a probe has      *)
(* counted its success before.                                                *)
LEMMA Replaced ==
  ASSUME NEW b \in Breaker, NEW count \in Nat, NEW s \in BreakerStates,
         NEW r \in Nat \cup {None}, NEW i \in 0..HalfOpenMax, NEW n \in 0..HalfOpenSuccesses
  PROVE  /\ [b EXCEPT !.state = s, !.retryAt = r, !.inFlight = i, !.successes = n] \in Breaker
         /\ [b EXCEPT !.state = s, !.inFlight = i, !.successes = n, !.retryAt = r] \in Breaker
         /\ [[b EXCEPT !.successes = count] EXCEPT
               !.state = s, !.retryAt = r, !.inFlight = i, !.successes = n] \in Breaker
BY DEF Breaker

LEMMA ClosedIsBreaker ==
  ASSUME NEW b \in Breaker, NEW count \in Nat
  PROVE  Closed(b) \in Breaker /\ Closed([b EXCEPT !.successes = count]) \in Breaker
<1>1. /\ 0 \in 0..HalfOpenMax /\ 0 \in 0..HalfOpenSuccesses
      /\ "closed" \in BreakerStates /\ None \in Nat \cup {None}
  BY BreakerAssumption DEF BreakerStates
<1> QED
  BY <1>1, Replaced DEF Closed

LEMMA ReleasedIsBreaker == \A b \in Breaker : Released(b) \in Breaker
<1> TAKE b \in Breaker
<1>1. b.inFlight \in 0..HalfOpenMax /\ HalfOpenMax \in Nat
  BY BreakerFields, BreakerAssumption
<1>2. Max({0, b.inFlight - 1}) = IF b.inFlight - 1 < 0 THEN 0 ELSE b.inFlight - 1
  BY <1>1, MaxOfZero
<1>3. Max({0, b.inFlight - 1}) \in 0..HalfOpenMax
  BY <1>1, <1>2
<1> QED
  BY <1>3 DEF Released, Breaker

LEMMA RefreshedIsBreaker == \A b \in Breaker, at \in Nat : Refreshed(b, at) \in Breaker
<1>1. /\ 0 \in Nat /\ 0 \in 0..HalfOpenMax /\ 0 \in 0..HalfOpenSuccesses
      /\ "half-open" \in BreakerStates /\ None \in Nat \cup {None}
  BY BreakerAssumption DEF BreakerStates
<1> QED
  BY <1>1, Replaced DEF Refreshed

LEMMA AdmittedIsBreaker == \A b \in Breaker : Admits(b) => Admitted(b) \in Breaker
<1> TAKE b \in Breaker
<1>1. b.state = "half-open" /\ Admits(b) => b.inFlight + 1 \in 0..HalfOpenMax
  BY BreakerFields, BreakerAssumption DEF Admits
<1> QED
  BY <1>1 DEF Admitted, Breaker

LEMMA SucceededIsBreaker == \A b \in Breaker : Succeeded(b) \in Breaker
<1> TAKE b \in Breaker
<1> DEFINE c == [b EXCEPT !.failures = 0]
           probe == [Released(c) EXCEPT !.successes = @ + 1]
<1>1. c \in Breaker
  BY BreakerAssumption DEF Breaker
<1>2. Released(c) \in Breaker
  <2> HIDE DEF c
  <2> QED  BY <1>1, ReleasedIsBreaker
<1>3. Succeeded(b) = IF c.state # "half-open" THEN Closed(c)
                     ELSE IF probe.successes >= HalfOpenSuccesses THEN Closed(probe) ELSE probe
  BY DEF Succeeded
<1> HIDE DEF c
<1>4. Released(c).successes \in Nat /\ HalfOpenSuccesses \in Nat
  BY <1>2, BreakerFields, BreakerAssumption
<1>5. probe = [state |-> Released(c).state, failures |-> Released(c).failures,
               retryAt |-> Released(c).retryAt, inFlight |-> Released(c).inFlight,
               successes |-> Released(c).successes + 1]
  BY <1>2, BreakerIs
<1>6. probe.successes = Released(c).successes + 1
  BY <1>5
<1>7. ~(probe.successes >= HalfOpenSuccesses) => probe \in Breaker
  <2> SUFFICES ASSUME ~(probe.successes >= HalfOpenSuccesses) PROVE probe \in Breaker
    OBVIOUS
  <2> HIDE DEF probe
  <2>1. Released(c).successes + 1 \in 0..HalfOpenSuccesses
    BY <1>4, <1>6
  <2> QED
    BY <1>2, <1>5, <2>1, BreakerFields, BreakerOf
<1>8. Closed(probe) \in Breaker
  <2>1. Released(c).successes + 1 \in Nat
    BY <1>4
  <2> QED
    BY <1>2, <2>1, ClosedIsBreaker
<1>9. Closed(c) \in Breaker
  BY <1>1, ClosedIsBreaker
<1> HIDE DEF probe
<1> QED
  BY <1>3, <1>7, <1>8, <1>9

LEMMA FailedIsBreaker == \A b \in Breaker, at \in Nat : Failed(b, at) \in Breaker
<1> TAKE b \in Breaker, at \in Nat
<1>1. /\ b.state \in BreakerStates /\ b.failures \in 0..FailThreshold
      /\ b.retryAt \in Nat \cup {None} /\ FailThreshold \in Nat \ {0} /\ Cooldown \in Nat
  BY BreakerFields, BreakerAssumption
<1>2. CASE b.state = "half-open"
  <2>1. Failed(b, at) = Opened(b, at)
    BY <1>2 DEF Failed
  <2> QED
    BY <2>1, OpenedIsBreaker
<1>3. CASE b.state = "open"
  <2> DEFINE retryAt == IF b.retryAt = None THEN at + Cooldown
                        ELSE Max({b.retryAt, at + Cooldown})
  <2>1. retryAt \in Nat
    <3>1. CASE b.retryAt = None
      BY <1>1, <3>1
    <3>2. CASE b.retryAt # None
      <4>1. b.retryAt \in Int /\ at + Cooldown \in Int
        BY <1>1, <3>2
      <4>2. {b.retryAt, at + Cooldown} = {b.retryAt, at + Cooldown, at + Cooldown}
        OBVIOUS
      <4>3. Max({b.retryAt, at + Cooldown}) \in {b.retryAt, at + Cooldown}
        BY <4>1, <4>2, MaxOfThree
      <4> QED
        BY <1>1, <3>2, <4>3
    <3> QED
      BY <3>1, <3>2
  <2>2. Failed(b, at) = [b EXCEPT !.failures = FailThreshold, !.retryAt = retryAt]
    BY <1>3 DEF Failed
  <2> HIDE DEF retryAt
  <2>3. Failed(b, at) = [state |-> b.state, failures |-> FailThreshold, retryAt |-> retryAt,
                         inFlight |-> b.inFlight, successes |-> b.successes]
    BY <2>2, BreakerIs
  <2>4. FailThreshold \in 0..FailThreshold
    BY <1>1
  <2> QED
    BY <2>1, <2>3, <2>4, BreakerFields, BreakerOf
<1>4. CASE b.state = "closed"
  <2> DEFINE c == [b EXCEPT !.failures = @ + 1]
  <2>1. Failed(b, at) = IF c.failures >= FailThreshold THEN Opened(c, at) ELSE c
    BY <1>4 DEF Failed
  <2>2. c.failures = b.failures + 1
    BY DEF Breaker
  <2>3. ~(c.failures >= FailThreshold) => c \in Breaker
    <3> SUFFICES ASSUME ~(c.failures >= FailThreshold) PROVE c \in Breaker
      OBVIOUS
    <3>1. b.failures + 1 \in 0..FailThreshold
      BY <1>1, <2>2
    <3> QED
      BY <3>1 DEF Breaker
  <2>4. Opened(c, at) \in Breaker
    BY OpenedIsBreaker
  <2> HIDE DEF c
  <2> QED
    BY <2>1, <2>3, <2>4
<1> QED
  BY <1>1, <1>2, <1>3, <1>4 DEF BreakerStates

LEMMA SettledIsBreaker ==
  \A b \in Breaker, success \in BOOLEAN, at \in Nat :
    \A origin : Settled(b, origin, success, at) \in Breaker
BY ReleasedIsBreaker, SucceededIsBreaker, FailedIsBreaker DEF Settled

LEMMA RecentTypes ==
  ASSUME now \in Nat, restarts \in Seq(0..now), NEW at \in Int
  PROVE  Recent(at) \in Seq(0..now)
<1> DEFINE expired == {i \in 1..Len(restarts) : \A j \in 1..i : restarts[j] < at - Window}
<1>1. Len(restarts) \in Nat
  OBVIOUS
<1>2. IsFiniteSet(1..Len(restarts)) /\ Cardinality(1..Len(restarts)) = Len(restarts)
  <2> DEFINE n == Len(restarts)
  <2>1. 1 \in Int /\ n \in Int /\ n >= 0
    BY <1>1
  <2> HIDE DEF n
  <2>2. /\ IsFiniteSet(1..n)
        /\ Cardinality(1..n) = IF 1 > n THEN 0 ELSE n - 1 + 1
    BY <2>1, FS_Interval
  <2>3. Cardinality(1..n) = n
    BY <2>1, <2>2
  <2> QED
    BY <2>2, <2>3 DEF n
<1>3. Cardinality(expired) \in Nat /\ Cardinality(expired) <= Len(restarts)
  <2>1. expired \subseteq 1..Len(restarts)
    OBVIOUS
  <2> HIDE DEF expired
  <2>2. IsFiniteSet(expired) /\ Cardinality(expired) <= Cardinality(1..Len(restarts))
    BY <1>2, <2>1, FS_Subset
  <2> QED
    BY <1>2, <2>2, FS_CardinalityType
<1>4. Recent(at) = SubSeq(restarts, Cardinality(expired) + 1, Len(restarts))
  BY DEF Recent
<1> HIDE DEF expired
<1>5. /\ Cardinality(expired) + 1 \in 1..Len(restarts) + 1
      /\ Len(restarts) \in (Cardinality(expired) + 1) - 1..Len(restarts)
  BY <1>1, <1>3
<1> QED
  BY <1>4, <1>5, SubSeqProperties

SupervisionInv ==
  /\ SupervisionTypeOK
  /\ backoff.allowedAt \in Nat

LEMMA WaitTypes ==
  ASSUME SupervisionInv
  PROVE  Wait(now) \in Nat
<1>1. /\ now \in Nat /\ restarts \in Seq(0..now) /\ backoff.allowedAt \in Nat
      /\ Window \in Nat /\ Quota \in (Nat \ {0}) \cup {None}
  BY RestartAssumption DEF SupervisionInv, SupervisionTypeOK
<1>2. QuotaWait(now) \in Nat
  <2>1. CASE Quota = None \/ Len(Recent(now)) < Quota
    BY <2>1 DEF QuotaWait
  <2>2. CASE ~(Quota = None \/ Len(Recent(now)) < Quota)
    <3>1. Recent(now) \in Seq(0..now)
      BY <1>1, RecentTypes
    <3>2. Len(Recent(now)) \in Nat /\ Quota \in Nat \ {0}
      BY <1>1, <2>2, <3>1
    <3>3. Len(Recent(now)) >= Quota
      BY <2>2, <3>2
    <3>4. Head(Recent(now)) \in 0..now
      <4> DEFINE recent == Recent(now)
      <4>1. recent \in Seq(0..now) /\ Len(recent) >= 1
        BY <3>1, <3>2, <3>3
      <4> HIDE DEF recent
      <4>2. recent # <<>>
        BY <4>1
      <4>3. Head(recent) \in 0..now
        BY <4>1, <4>2, HeadTailProperties
      <4> QED
        BY <4>3 DEF recent
    <3>5. Head(Recent(now)) + Window - now \in Int
      BY <1>1, <3>4
    <3>6. Max({0, Head(Recent(now)) + Window - now}) \in Nat
      BY <3>5, MaxOfZero
    <3> QED
      BY <2>2, <3>6 DEF QuotaWait
  <2> QED
    BY <2>1, <2>2
<1>3. backoff.allowedAt - now \in Int
  BY <1>1
<1>4. /\ Max({0, backoff.allowedAt - now, QuotaWait(now)}) \in
           {0, backoff.allowedAt - now, QuotaWait(now)}
      /\ Max({0, backoff.allowedAt - now, QuotaWait(now)}) >= 0
  <2> DEFINE x == backoff.allowedAt - now
             y == QuotaWait(now)
  <2>1. x \in Int /\ y \in Int /\ 0 \in Int
    BY <1>2, <1>3
  <2> HIDE DEF x, y
  <2>2. Max({0, x, y}) \in {0, x, y} /\ Max({0, x, y}) >= 0
    BY <2>1, MaxOfThree
  <2> QED
    BY <2>2 DEF x, y
<1> QED
  BY <1>2, <1>3, <1>4 DEF Wait

(* What every call of the supervision does to the types of its state.         *)
LEMMA BackoffTypes ==
  ASSUME SupervisionInv, UNCHANGED <<now, restarts>>, breaker' \in Breaker,
         backoff' \in {backoff, NewBackoff, Bumped(backoff, now)}
  PROVE  SupervisionInv'
<1>1. /\ now \in Nat /\ backoff.attempts \in Nat /\ backoff.delay \in MinBackoff..MaxBackoff
      /\ backoff.allowedAt \in Nat /\ restarts \in Seq(0..now)
      /\ MinBackoff \in Nat /\ MaxBackoff \in Nat /\ MinBackoff <= MaxBackoff
  BY RestartAssumption DEF SupervisionInv, SupervisionTypeOK
<1>2. CASE backoff' \in {backoff, NewBackoff}
  BY <1>1, <1>2 DEF SupervisionInv, SupervisionTypeOK, NewBackoff
<1>3. CASE backoff' = Bumped(backoff, now)
  <2> DEFINE delay == IF backoff.attempts = 0 THEN MinBackoff
                      ELSE Min({MaxBackoff, backoff.delay * 2})
  <2>1. delay \in MinBackoff..MaxBackoff
    <3>1. backoff.delay * 2 \in Int /\ backoff.delay * 2 >= MinBackoff
      BY <1>1
    <3>2. \E m \in {MaxBackoff, backoff.delay * 2} :
            \A x \in {MaxBackoff, backoff.delay * 2} : m <= x
      BY <1>1, <3>1
    <3>3. /\ Min({MaxBackoff, backoff.delay * 2}) \in {MaxBackoff, backoff.delay * 2}
          /\ Min({MaxBackoff, backoff.delay * 2}) <= MaxBackoff
      BY <3>2 DEF Min
    <3> QED
      BY <1>1, <3>1, <3>3
  <2>2. backoff' = [attempts |-> backoff.attempts + 1, delay |-> delay,
                    allowedAt |-> now + delay]
    BY <1>3 DEF Bumped
  <2> HIDE DEF delay
  <2>3. /\ backoff'.attempts = backoff.attempts + 1 /\ backoff'.delay = delay
        /\ backoff'.allowedAt = now + delay
    BY <2>2
  <2> QED
    BY <1>1, <2>1, <2>3 DEF SupervisionInv, SupervisionTypeOK
<1> QED
  BY <1>2, <1>3

LEMMA SettledTypes ==
  ASSUME SupervisionInv, UNCHANGED now,
         \/ \E origin : TicketSucceeds(origin) \/ TicketFails(origin)
         \/ RecordCrash \/ RecordSuccess
  PROVE  SupervisionInv'
<1>1. breaker \in Breaker /\ now \in Nat
  BY DEF SupervisionInv, SupervisionTypeOK
<1>2. breaker' \in Breaker
  <2>1. TRUE \in BOOLEAN /\ FALSE \in BOOLEAN
    OBVIOUS
  <2>2. \A origin : /\ Settled(breaker, origin, TRUE, now) \in Breaker
                    /\ Settled(breaker, origin, FALSE, now) \in Breaker
    BY <1>1, <2>1, SettledIsBreaker
  <2> QED
    BY <1>1, <2>2, FailedIsBreaker, SucceededIsBreaker
    DEF TicketSucceeds, TicketFails, RecordCrash, RecordSuccess
<1>3. UNCHANGED restarts /\ backoff' \in {backoff, NewBackoff, Bumped(backoff, now)}
  BY DEF TicketSucceeds, TicketFails, RecordCrash, RecordSuccess
<1> QED
  BY <1>2, <1>3, BackoffTypes

LEMMA HistoryTypes ==
  ASSUME SupervisionInv, UNCHANGED now, UNCHANGED backoff, breaker' \in Breaker,
         restarts' \in {restarts, Recent(now), Append(Recent(now), now)}
  PROVE  SupervisionInv'
<1>1. now \in Nat /\ restarts \in Seq(0..now)
  BY DEF SupervisionInv, SupervisionTypeOK
<1>2. Recent(now) \in Seq(0..now)
  BY <1>1, RecentTypes
<1>3. Append(Recent(now), now) \in Seq(0..now)
  BY <1>1, <1>2
<1> QED
  BY <1>1, <1>2, <1>3 DEF SupervisionInv, SupervisionTypeOK

-----------------------------------------------------------------------------
WakesInv == \A c \in Creations : creations[c].wake \in Nat
RegistryInv ==
  /\ forced \subseteq Creations
  /\ runtimes \in [ChildIds -> Creations \cup {None}]
  /\ logicalChildren \cup ended \cup keyed \cup watchdogs \subseteq ChildIds
  /\ down \in BOOLEAN /\ collectedAlive \in BOOLEAN

ChildTypesInv == SupervisionInv /\ WakesInv /\ RegistryInv

LEMMA MovedWakes ==
  ASSUME CreationShape, WakesInv, NEW c \in Creations,
         \/ \E stage : MoveTo(c, stage)
         \/ Finish(c)
         \/ \E stage, id : creations' = [creations EXCEPT ![c] =
                                           [@ EXCEPT !.stage = stage, !.id = id]]
         \/ \E stage, ticket : \E wake \in Nat :
              creations' = [creations EXCEPT ![c] =
                              [@ EXCEPT !.stage = stage, !.wake = wake, !.ticket = ticket]]
         \/ \E stage : \E wake \in Nat :
              creations' = [creations EXCEPT ![c] = [@ EXCEPT !.stage = stage, !.wake = wake]]
  PROVE  WakesInv'
<1>1. \A d \in Creations \ {c} : creations'[d] = creations[d]
  BY DEF CreationShape, MoveTo, Finish
<1>2. creations'[c].wake \in Nat
  BY DEF CreationShape, WakesInv, MoveTo, Finish
<1> QED
  BY <1>1, <1>2 DEF WakesInv

LEMMA SameSupervision ==
  ASSUME SupervisionInv, UNCHANGED <<now, supervisionVars>>
  PROVE  SupervisionInv'
BY DEF SupervisionInv, SupervisionTypeOK, supervisionVars

LEMMA AcquireTypes ==
  ASSUME CreationsInv, ChildTypesInv, NEW c \in Creations, Acquire(c)
  PROVE  ChildTypesInv'
<1> DEFINE b == Refreshed(breaker, now)
<1>1. /\ SupervisionInv /\ breaker \in Breaker /\ now \in Nat
  BY DEF ChildTypesInv, SupervisionInv, SupervisionTypeOK
<1>2. b \in Breaker
  BY <1>1, RefreshedIsBreaker
<1>3. RegistryInv'
  BY DEF Acquire, ChildTypesInv, RegistryInv
<1>4. UNCHANGED now
  BY DEF Acquire
<1>5. CASE TakeSlot /\ creations' = [creations EXCEPT ![c] =
             [@ EXCEPT !.stage = "sleeping", !.wake = now + Wait(now), !.ticket = b.state]]
  <2>1. Admitted(b) \in Breaker
    BY <1>2, <1>5, AdmittedIsBreaker DEF TakeSlot
  <2>2. SupervisionInv'
    BY <1>1, <1>4, <1>5, <2>1, HistoryTypes DEF TakeSlot
  <2>3. now + Wait(now) \in Nat
    BY <1>1, WaitTypes
  <2>4. WakesInv'
    BY <1>5, <2>3, MovedWakes DEF ChildTypesInv, CreationsInv
  <2> QED
    BY <1>3, <2>2, <2>4 DEF ChildTypesInv
<1>6. CASE /\ ~Admits(b) /\ breaker' = b
           /\ IF Stage(c) = "sandbox" /\ b.retryAt # None
              THEN creations' = [creations EXCEPT ![c] =
                                   [@ EXCEPT !.stage = "retrying", !.wake = b.retryAt]]
              ELSE creations' = [creations EXCEPT ![c] = [@ EXCEPT !.stage = "done", !.wake = 0]]
           /\ UNCHANGED <<backoff, restarts>>
  <2>1. SupervisionInv'
    BY <1>1, <1>2, <1>4, <1>6, HistoryTypes
  <2>2. b.retryAt # None => b.retryAt \in Nat
    BY <1>2, BreakerFields
  <2>3. WakesInv'
    <3> HIDE DEF b
    <3> QED
      BY <1>6, <2>2, MovedWakes DEF ChildTypesInv, CreationsInv
  <2> QED
    BY <1>3, <2>1, <2>3 DEF ChildTypesInv
<1> QED
  BY <1>5, <1>6 DEF Acquire

LEMMA CreationTypes ==
  ASSUME CreationsInv, ChildTypesInv, NEW c \in Creations, CreationStep(c)
  PROVE  ChildTypesInv'
<1>1. CreationShape /\ SupervisionInv /\ WakesInv /\ RegistryInv
  BY DEF CreationsInv, ChildTypesInv
<1>2. CASE \E id \in ChildIds : CreateChild(c, id) \/ RegisterHttpChild(c, id)
  <2>1. UNCHANGED <<now, supervisionVars, forced, runtimes, logicalChildren, keyed, watchdogs,
                    ended, down, collectedAlive>>
    BY <1>2 DEF CreateChild, RegisterHttpChild
  <2>2. WakesInv'
    BY <1>1, <1>2, MovedWakes DEF CreateChild, RegisterHttpChild
  <2> QED
    BY <1>1, <2>1, <2>2, SameSupervision DEF ChildTypesInv, RegistryInv
<1>3. CASE Start(c)
  <2>1. SupervisionInv'
    BY <1>1, <1>3, HistoryTypes DEF Start, RecordRestart, SupervisionInv, SupervisionTypeOK
  <2>2. WakesInv'
    BY <1>1, <1>3, MovedWakes DEF Start
  <2> QED
    BY <1>1, <1>3, <2>1, <2>2 DEF Start, ChildTypesInv, RegistryInv
<1>4. CASE SpawnFails(c) \/ TornDown(c)
  <2>1. SupervisionInv'
    BY <1>1, <1>4, SettledTypes DEF SpawnFails, TornDown
  <2>2. WakesInv'
    BY <1>1, <1>4, MovedWakes DEF SpawnFails, TornDown
  <2>3. RegistryInv'
    BY <1>1, <1>4 DEF SpawnFails, TornDown, RegistryInv
  <2> QED
    BY <2>1, <2>2, <2>3 DEF ChildTypesInv
<1>5. CASE SpawnedDuplicate(c) \/ ReadyTimeout(c)
  <2>1. GiveUp(c) /\ UNCHANGED <<now, supervisionVars, forced, logicalChildren, ended, down,
                                 collectedAlive>>
    BY <1>5 DEF SpawnedDuplicate, ReadyTimeout
  <2>2. WakesInv'
    BY <1>1, <2>1, MovedWakes DEF GiveUp
  <2>3. RegistryInv'
    BY <1>1, <2>1 DEF GiveUp, RegistryInv
  <2> QED
    BY <1>1, <2>1, <2>2, <2>3, SameSupervision DEF ChildTypesInv
<1>6. ASSUME NEW waitForReady \in BOOLEAN, Spawned(c, waitForReady)
      PROVE  ChildTypesInv'
  <2>1. SupervisionInv'
    BY <1>1, <1>6, SettledTypes, SameSupervision DEF Spawned
  <2>2. WakesInv'
    BY <1>1, <1>6, MovedWakes DEF Spawned
  <2>3. Id(c) \in ChildIds
    <3>1. Stage(c) # "idle"
      BY <1>6 DEF Spawned
    <3> QED
      BY <3>1 DEF CreationsInv
  <2>4. RegistryInv'
    BY <1>1, <1>6, <2>3 DEF Spawned, RegistryInv
  <2> QED
    BY <2>1, <2>2, <2>4 DEF ChildTypesInv
<1>7. CASE Ready(c)
  <2>1. SupervisionInv'
    BY <1>1, <1>7, SettledTypes, SameSupervision DEF Ready
  <2>2. WakesInv'
    <3>1. CASE Finish(c)
      BY <1>1, <3>1, MovedWakes
    <3>2. CASE UNCHANGED creations
      BY <1>1, <3>2 DEF WakesInv
    <3> QED
      BY <1>7, <3>1, <3>2 DEF Ready
  <2>3. RegistryInv'
    BY <1>1, <1>7 DEF Ready, Report, RegistryInv
  <2> QED
    BY <2>1, <2>2, <2>3 DEF ChildTypesInv
<1>8. CASE IndexHttpChild(c) \/ OpenHttpChild(c) \/ PreparationFails(c)
  <2>1. /\ UNCHANGED <<now, supervisionVars, forced, runtimes, ended, keyed, watchdogs, down,
                       collectedAlive>>
        /\ (\E stage : MoveTo(c, stage)) \/ Finish(c)
    BY <1>8 DEF IndexHttpChild, OpenHttpChild, PreparationFails
  <2>2. WakesInv'
    BY <1>1, <2>1, MovedWakes
  <2>3. Id(c) \in ChildIds
    <3>1. Stage(c) # "idle"
      BY <1>8 DEF IndexHttpChild, OpenHttpChild, PreparationFails
    <3> QED
      BY <3>1 DEF CreationsInv
  <2>4. logicalChildren' \in {logicalChildren, logicalChildren \cup {Id(c)}}
    BY <1>8 DEF IndexHttpChild, OpenHttpChild, PreparationFails
  <2>5. RegistryInv'
    BY <1>1, <2>1, <2>3, <2>4 DEF RegistryInv
  <2> QED
    BY <1>1, <2>1, <2>2, <2>5, SameSupervision DEF ChildTypesInv
<1> QED
  BY <1>2, <1>3, <1>4, <1>5, <1>6, <1>7, <1>8, AcquireTypes DEF CreationStep

LEMMA ProcessTypes ==
  ASSUME CreationsInv, ListedInv, ChildTypesInv, NEW c \in Creations, ProcessStep(c)
  PROVE  ChildTypesInv'
<1>1. SupervisionInv /\ WakesInv /\ RegistryInv
  BY DEF ChildTypesInv
<1>2. ASSUME NEW state, Message(c, state) PROVE ChildTypesInv'
  <2>1. RegistryInv' /\ WakesInv'
    BY <1>1, <1>2 DEF Message, Report, RegistryInv, WakesInv
  <2> QED
    BY <1>1, <1>2, <2>1, SameSupervision DEF Message, ChildTypesInv
<1>3. ASSUME NEW state, ReadLate(c, state) PROVE ChildTypesInv'
  <2>1. SupervisionInv'
    BY <1>1, <1>3, SettledTypes, SameSupervision DEF ReadLate
  <2>2. WakesInv'
    <3>1. CASE Finish(c)
      BY <1>1, <3>1, MovedWakes DEF CreationsInv
    <3>2. CASE UNCHANGED creations
      BY <1>1, <3>2 DEF WakesInv
    <3> QED
      BY <1>3, <3>1, <3>2 DEF ReadLate
  <2>3. RegistryInv'
    BY <1>1, <1>3 DEF ReadLate, RegistryInv
  <2> QED
    BY <2>1, <2>2, <2>3 DEF ChildTypesInv
<1>4. ASSUME NEW clean, NEW unread, Exit(c, clean, unread) PROVE ChildTypesInv'
  <2>1. UNCHANGED <<now, creations, runtimes, logicalChildren, collectedAlive>>
    BY <1>4 DEF Exit
  <2>2. CASE c \notin attached
    BY <1>1, <1>4, <2>1, <2>2, SameSupervision DEF Exit, ChildTypesInv, RegistryInv, WakesInv
  <2>3. CASE c \in attached
    <3>1. Id(c) \in ChildIds
      BY <2>3 DEF CreationsInv, ListedInv
    <3>2. ended' \subseteq ChildIds /\ down' \in BOOLEAN
      BY <1>1, <1>4, <2>3, <3>1 DEF Exit, RecordExit, Report, RegistryInv
    <3>3. forced' \subseteq forced /\ keyed' \subseteq keyed /\ watchdogs' \subseteq watchdogs
      BY <1>4, <2>3 DEF Exit
    <3>4. RegistryInv'
      BY <1>1, <2>1, <3>2, <3>3 DEF RegistryInv
    <3>5. SupervisionInv'
      BY <1>1, <1>4, <2>3, SettledTypes, SameSupervision DEF Exit
    <3> QED
      BY <1>1, <2>1, <3>4, <3>5 DEF ChildTypesInv, WakesInv
  <2> QED
    BY <2>2, <2>3
<1> QED
  BY <1>2, <1>3, <1>4 DEF ProcessStep

LEMMA ToolTypes ==
  ASSUME ChildTypesInv, NEW id \in ChildIds, ToolCall(id)
  PROVE  ChildTypesInv'
<1>1. SupervisionInv /\ WakesInv /\ RegistryInv
  BY DEF ChildTypesInv
<1>2. UNCHANGED <<now, supervisionVars, creations>>
  BY DEF ToolCall, Gc, Watchdog, Sent, Stop, StopHttpChild
<1>3. ASSUME NEW flag \in BOOLEAN, Stop(id, flag) PROVE RegistryInv'
  <2>1. runtimes[id] \in Creations
    BY <1>1, <1>3 DEF Stop, RegistryInv
  <2> QED
    BY <1>1, <1>3, <2>1 DEF Stop, RegistryInv
<1>4. ASSUME Gc(id) PROVE RegistryInv'
  <2>1. collectedAlive' \in BOOLEAN
    BY <1>1, <1>4 DEF Gc, RegistryInv
  <2> QED
    BY <1>1, <1>4, <2>1 DEF Gc, RegistryInv
<1>5. RegistryInv'
  BY <1>1, <1>3, <1>4 DEF ToolCall, Watchdog, Sent, StopHttpChild, RegistryInv
<1> QED
  BY <1>1, <1>2, <1>5, SameSupervision DEF ChildTypesInv, WakesInv

LEMMA ChildTypesStep ==
  ASSUME CreationsInv, ListedInv, ChildTypesInv, [ChildrenNext]_vars
  PROVE  ChildTypesInv'
<1>1. CASE UNCHANGED vars
  BY <1>1, SameSupervision DEF vars, childVars, ChildTypesInv, WakesInv, RegistryInv
<1>2. CASE Tick
  <2>1. UNCHANGED <<supervisionVars, childVars>> /\ now' = now + 1
    BY <1>2 DEF Tick
  <2>2. now \in Nat /\ restarts \in Seq(0..now)
    BY DEF ChildTypesInv, SupervisionInv, SupervisionTypeOK
  <2>3. restarts \in Seq(0..now')
    <3>1. 0..now \subseteq 0..now'
      BY <2>1, <2>2
    <3> QED
      BY <2>2, <3>1, SeqMonotonic
  <2>4. SupervisionInv'
    BY <2>1, <2>2, <2>3 DEF supervisionVars, ChildTypesInv, SupervisionInv, SupervisionTypeOK
  <2> QED
    BY <2>1, <2>4 DEF childVars, ChildTypesInv, WakesInv, RegistryInv
<1> QED
  BY <1>1, <1>2, CreationTypes, ProcessTypes, ToolTypes DEF ChildrenNext

(* Whatever the children do, the breaker never counts more failures, slots or *)
(* successes than its thresholds allow, the delay stays within its bounds,    *)
(* and only a creation under way holds a ticket                               *)
(* (infra/circuitBreaker.ts, children/supervisionStrategy.ts).                *)
THEOREM ChildrenTyping == ChildrenSpec => []ChildrenTypeOK
<1>1. ChildrenInit => ChildTypesInv
  <2> SUFFICES ASSUME ChildrenInit PROVE ChildTypesInv
    OBVIOUS
  <2>1. NewBreaker \in Breaker
    BY BreakerAssumption DEF NewBreaker, Breaker, BreakerStates
  <2>2. SupervisionInv
    BY <2>1, RestartAssumption
    DEF ChildrenInit, SupervisionInit, SupervisionInv, SupervisionTypeOK, NewBackoff
  <2>3. WakesInv /\ RegistryInv
    BY DEF ChildrenInit, WakesInv, RegistryInv
  <2> QED
    BY <2>2, <2>3 DEF ChildTypesInv
<1>2. ChildrenInv /\ ChildTypesInv => ChildrenTypeOK
  BY DEF ChildrenInv, CreationsInv, ListedInv, ChildTypesInv, SupervisionInv, WakesInv, RegistryInv,
         ChildrenTypeOK, Stage, Id
<1>3. ChildrenInv => CreationsInv /\ ListedInv
  BY DEF ChildrenInv
<1> QED
  BY <1>1, <1>2, <1>3, ChildTypesStep, ChildrenInvHolds, PTL DEF ChildrenSpec
=============================================================================
