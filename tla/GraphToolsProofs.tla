-------------------------- MODULE GraphToolsProofs --------------------------
(***************************************************************************)
(* The graph tools for every number of graphs, callers, sessions, contents  *)
(* and versions: the composition keeps the invariants of both managers, and *)
(* what the resources show of transactions and versions is what became of   *)
(* them.  The audit trail is not inductive: it rests on each live           *)
(* transaction matching its snapshot, and on what a handler that still      *)
(* awaits something may find when it is resumed.                            *)
(***************************************************************************)
EXTENDS GraphTools, GraphLocksProofs, GraphTransactionsProofs

ToolsTypes ==
  /\ snapshots \in [TxIds -> AuditRecord \cup {NoAudit}]
  /\ published \in [GraphIds -> [1..MaxVersion + 1 -> Contents \cup {None}]]
  /\ inFlight \in [TxIds -> {"idle", "apply", "dry_run", "append"}]
  /\ calls \in [TxIds -> [tool : Tools \cup {"none"}, changed : BOOLEAN]]

(* Exactly the opened transactions have a snapshot.  That of a live one is   *)
(* pending and repeats its graph, base and owner; a change set still out     *)
(* holds a transaction that never expires, and a restore awaiting its log    *)
(* entry holds none.                                                         *)
OnRecord(t) ==
  /\ t \in openedTx <=> snapshots[t] # NoAudit
  /\ t \notin openedTx => inFlight[t] = "idle"
  /\ inFlight[t] = "append" => calls[t].tool = "graph_snapshot_time_travel"
  /\ transactions[t] # NoTx =>
       /\ snapshots[t].graphId = transactions[t].graphId
       /\ snapshots[t].baseVersion = transactions[t].baseVersion
       /\ snapshots[t].owner = transactions[t].owner
       /\ transactions[t].baseVersion <= MaxVersion
       /\ inFlight[t] # "append"
       /\ inFlight[t] # "idle" => transactions[t].expiresAt = None

(* AuditTrail, NoOrphanTransaction and the last part of ToolsTypeOK, for one *)
(* transaction.                                                              *)
Trail(t) ==
  snapshots[t] # NoAudit =>
    /\ transactions[t] # NoTx => snapshots[t].state = "pending"
    /\ snapshots[t].state = "committed" =>
         /\ (\A c \in commits : c.txId # t) =>
              snapshots[t].final.version = snapshots[t].baseVersion
         /\ \A c \in commits : c.txId = t =>
              /\ c.graphId = snapshots[t].graphId
              /\ c.baseVersion = snapshots[t].baseVersion
              /\ snapshots[t].final = [version |-> c.baseVersion + 1,
                                       content |-> c.content]
    /\ snapshots[t].state # "committed" /\ calls[t].tool # "graph_snapshot_time_travel" =>
         \A c \in commits : c.txId # t

Attended(t) ==
  transactions[t] # NoTx =>
    calls[t].tool = "tx_begin" \/ inFlight[t] \in {"apply", "dry_run"}

FinalShown(t) ==
  snapshots[t] # NoAudit =>
    (snapshots[t].final # None <=> snapshots[t].state = "committed")

Session(t) == OnRecord(t) /\ Trail(t) /\ Attended(t) /\ FinalShown(t)

CommitsBounded == \A c \in commits : c.baseVersion <= MaxVersion

AuditInv ==
  /\ ToolsTypes
  /\ \A t \in TxIds : Session(t)
  /\ CommitsBounded
  /\ PublishedFollowsHead

ToolsInv == LockInv /\ TxInv /\ AuditInv

LEMMA AuditTrailByTransaction == AuditTrail <=> \A t \in TxIds : Trail(t)
<1>1. ASSUME NEW t \in TxIds
      PROVE  {c \in commits : c.txId = t} = {} <=> \A c \in commits : c.txId # t
  OBVIOUS
<1> QED
  BY <1>1 DEF AuditTrail, Trail

LEMMA ToolsInvImplies ==
  ASSUME ToolsInv
  PROVE  ToolsTypeOK /\ AuditTrail /\ NoOrphanTransaction /\ PublishedFollowsHead
<1>1. ToolsTypeOK
  BY DEF ToolsInv, LockInv, TxInv, AuditInv, ToolsTypes, Session, FinalShown, ToolsTypeOK
<1>2. AuditTrail
  BY AuditTrailByTransaction DEF ToolsInv, AuditInv, Session
<1>3. NoOrphanTransaction
  BY DEF ToolsInv, AuditInv, Session, Attended, NoOrphanTransaction
<1> QED
  BY <1>1, <1>2, <1>3 DEF ToolsInv, AuditInv

-----------------------------------------------------------------------------
(* The lock manager sees nothing but its own operations.                     *)
LEMMA ToolsStepLocks ==
  ASSUME ToolsInv, [ToolsNext]_toolVars
  PROVE  [LocksNext]_<<now, lockVars>>
<1>1. ASSUME NEW g \in GraphIds, Prune(g), now' = now
      PROVE  LocksNext
  BY <1>1 DEF LocksNext, Inspect
<1>2. CASE \/ ToolsTick
           \/ \E g \in GraphIds : RefusedCall(g)
           \/ UNCHANGED toolVars
  BY <1>1, <1>2 DEF ToolsTick, RefusedCall, Inspect, LocksNext, toolVars
<1>3. CASE \/ \E g \in GraphIds, h \in Holders, ttl \in LockTtls : GraphLock(g, h, ttl)
           \/ \E l \in LockIds : GraphUnlock(l)
  BY <1>3 DEF GraphLock, GraphUnlock, LocksNext
<1>4. ASSUME NEW t \in TxIds, NEW g \in GraphIds, NEW base \in Descriptor,
             \/ \E owner \in Owners, ttl \in Ttls : TxBegin(t, g, base, owner, ttl)
             \/ \E owner \in Owners, mode \in {"apply", "dry_run"} :
                  ChangeSetBegin(t, g, base, owner, mode)
      PROVE  LocksNext
  BY <1>1, <1>4 DEF TxBegin, ChangeSetBegin
<1>5. ASSUME NEW t \in TxIds, NEW g \in GraphIds, NEW base \in Descriptor,
             NEW target \in Contents,
             \/ GraphMutate(t, g, base, target)
             \/ GraphRewriteApply(t, g, base, target)
             \/ TimeTravelRestore(t, g, base, target)
             \/ \E owner \in Owners : \/ GraphPatch(t, g, base, owner, target)
                                      \/ GraphBatchMutate(t, g, base, owner, target)
      PROVE  LocksNext \/ UNCHANGED <<now, lockVars>>
  BY <1>1, <1>5 DEF GraphMutate, GraphRewriteApply, TimeTravelRestore, GraphPatch,
                    GraphBatchMutate, OpenAndClose
<1>6. ASSUME NEW t \in TxIds,
             \/ \E target \in Contents : TxApply(t, target)
             \/ TxCommit(t)
      PROVE  LocksNext
  <2>1. transactions[t].graphId \in GraphIds
    BY <1>6 DEF TxApply, TxCommit, Active, ToolsInv, TxInv, TxTypeOK, TxRecord
  <2> QED
    BY <1>1, <1>6, <2>1 DEF TxApply, TxCommit
<1>7. ASSUME NEW t \in TxIds,
             \/ \E target \in Contents : ChangeSetCommit(t, target)
             \/ ChangeSetRollBack(t)
      PROVE  LocksNext \/ UNCHANGED <<now, lockVars>>
  <2>1. snapshots[t].graphId \in GraphIds
    BY <1>7 DEF ChangeSetCommit, ChangeSetRollBack, ToolsInv, AuditInv, ToolsTypes,
                Session, OnRecord, AuditRecord
  <2> QED
    BY <1>1, <1>7, <2>1 DEF ChangeSetCommit, ChangeSetRollBack
<1>8. ASSUME NEW t \in TxIds, TxRollback(t) \/ ExpiredCall(t) \/ RestoreLogged(t)
      PROVE  UNCHANGED <<now, lockVars>>
  BY <1>8 DEF TxRollback, ExpiredCall, RestoreLogged
<1> QED
  BY <1>2, <1>3, <1>4, <1>5, <1>6, <1>7, <1>8 DEF ToolsNext

-----------------------------------------------------------------------------
(* What a step may be to the transaction manager and the resources.  Each    *)
(* tool is one of these, whatever it made the lock manager do.               *)
IdleStep ==
  /\ now' = now \/ Tick
  /\ UNCHANGED <<txVars, snapshots, published, inFlight, calls>>

OpenStep(t) ==
  \E g \in GraphIds, version \in 1..MaxVersion, content \in Contents, owner \in Owners :
    /\ now' = now
    /\ MayMutate(g, owner)
    /\ \/ \E ttl \in Ttls : OpenAndRecord(t, g, version, content, owner, ttl, "tx_begin")
          /\ UNCHANGED inFlight
       \/ /\ OpenAndRecord(t, g, version, content, owner, None, "graph_apply_change_set")
          /\ \E mode \in {"apply", "dry_run"} : inFlight' = [inFlight EXCEPT ![t] = mode]

OneCallStep(t) ==
  \E g \in GraphIds, base \in Descriptor, owner \in Owners, tool \in Tools \ {"tx_begin"},
     edit \in [version : Version, content : Contents] \cup {None} :
    /\ now' = now
    /\ tool # "graph_rewrite_apply" => MayMutate(g, owner)
    /\ OpenAndClose(t, g, base, owner, tool, edit)
    /\ \/ UNCHANGED inFlight
       \/ /\ tool = "graph_snapshot_time_travel"
          /\ inFlight' = [inFlight EXCEPT ![t] = "append"]

EditStep(t) ==
  \E version \in Version, content \in Contents :
    /\ now' = now
    /\ SetWorkingCopy(t, version, content)
    /\ UNCHANGED <<snapshots, published, inFlight, calls>>

Resumed(t) == inFlight' \in {inFlight, [inFlight EXCEPT ![t] = "idle"]}

CommitStep(t) ==
  \E version \in Version, content \in Contents :
    /\ now' = now
    /\ MayMutate(transactions[t].graphId, transactions[t].owner)
    /\ CommitAndRecord(t, version, content)
    /\ Resumed(t)
    /\ UNCHANGED calls

RetireStep(t) ==
  /\ now' = now
  /\ \/ Rollback(t) /\ snapshots' = [snapshots EXCEPT ![t] = MarkRolledBack(@)]
     \/ DropExpired(t) /\ UNCHANGED snapshots
  /\ Resumed(t)
  /\ UNCHANGED <<published, calls>>

(* A handler resumed when its transaction is gone.                           *)
AfterStep(t) ==
  /\ inFlight[t] # "idle" /\ transactions[t] = NoTx
  /\ inFlight' = [inFlight EXCEPT ![t] = "idle"]
  /\ \/ UNCHANGED snapshots
     \/ /\ inFlight[t] = "append"
        /\ snapshots' = [snapshots EXCEPT ![t] = MarkRolledBack(@)]
  /\ UNCHANGED <<now, txVars, published, calls>>

LEMMA StepKinds ==
  ASSUME ToolsInv, [ToolsNext]_toolVars
  PROVE  \/ IdleStep
         \/ \E t \in TxIds : \/ OpenStep(t) \/ OneCallStep(t) \/ EditStep(t)
                             \/ CommitStep(t) \/ RetireStep(t) \/ AfterStep(t)
<1>1. CASE \/ ToolsTick
           \/ \E g \in GraphIds : RefusedCall(g)
           \/ \E g \in GraphIds, h \in Holders, ttl \in LockTtls : GraphLock(g, h, ttl)
           \/ \E l \in LockIds : GraphUnlock(l)
           \/ UNCHANGED toolVars
  BY <1>1 DEF ToolsTick, RefusedCall, GraphLock, GraphUnlock, IdleStep, toolVars
<1>2. ASSUME NEW t \in TxIds, NEW g \in GraphIds, NEW base \in Descriptor,
             \/ \E owner \in Owners, ttl \in Ttls : TxBegin(t, g, base, owner, ttl)
             \/ \E owner \in Owners, mode \in {"apply", "dry_run"} :
                  ChangeSetBegin(t, g, base, owner, mode)
      PROVE  OpenStep(t)
  <2>1. base.version \in 1..MaxVersion /\ base.content \in Contents
    BY DEF Descriptor
  <2>2. CASE \E owner \in Owners, ttl \in Ttls : TxBegin(t, g, base, owner, ttl)
    BY <2>1, <2>2 DEF TxBegin, OpenStep
  <2>3. CASE \E owner \in Owners, mode \in {"apply", "dry_run"} :
               ChangeSetBegin(t, g, base, owner, mode)
    BY <2>1, <2>3 DEF ChangeSetBegin, OpenStep
  <2> QED
    BY <1>2, <2>2, <2>3
<1>3. ASSUME NEW t \in TxIds, NEW g \in GraphIds, NEW base \in Descriptor,
             NEW target \in Contents,
             \/ GraphMutate(t, g, base, target)
             \/ GraphRewriteApply(t, g, base, target)
             \/ TimeTravelRestore(t, g, base, target)
             \/ \E owner \in Owners : \/ GraphPatch(t, g, base, owner, target)
                                      \/ GraphBatchMutate(t, g, base, owner, target)
      PROVE  OneCallStep(t)
  <2> DEFINE Edit == [version : Version, content : Contents]
  <2>1. /\ base.version \in Version /\ base.version + 1 \in Version
        /\ base.content \in Contents /\ None \in Owners
        /\ Canonical[target] \in Contents /\ Canonical[base.content] \in Contents
    BY ToolsAssumption, TxAssumption DEF Descriptor, Version, Callers
  <2>2. EditedVersion(base.version, base.content, target) \in Version
    BY <2>1 DEF EditedVersion
  <2>3. /\ [version |-> EditedVersion(base.version, base.content, target),
            content |-> Canonical[target]] \in Edit
        /\ [version |-> base.version, content |-> Canonical[base.content]] \in Edit
        /\ [version |-> base.version, content |-> Canonical[target]] \in Edit
        /\ [version |-> base.version + 1, content |-> Canonical[target]] \in Edit
        /\ [version |-> base.version + 1, content |-> target] \in Edit
    BY <2>1, <2>2
  <2> HIDE DEF Edit
  <2>4. ASSUME NEW owner \in Owners, NEW tool \in Tools \ {"tx_begin"},
               NEW edit \in Edit \cup {None}, OpenAndClose(t, g, base, owner, tool, edit),
               tool # "graph_rewrite_apply" => MayMutate(g, owner),
               \/ UNCHANGED inFlight
               \/ /\ tool = "graph_snapshot_time_travel"
                  /\ inFlight' = [inFlight EXCEPT ![t] = "append"]
        PROVE  OneCallStep(t)
    <3>1. now' = now
      BY <2>4 DEF OpenAndClose
    <3> QED
      BY <2>4, <3>1 DEF OneCallStep, Edit
  <2>5. CASE GraphMutate(t, g, base, target)
    BY <2>1, <2>3, <2>4, <2>5 DEF GraphMutate, Tools
  <2>6. CASE GraphRewriteApply(t, g, base, target)
    BY <2>1, <2>3, <2>4, <2>6 DEF GraphRewriteApply, Tools
  <2>7. CASE TimeTravelRestore(t, g, base, target)
    BY <2>1, <2>3, <2>4, <2>7 DEF TimeTravelRestore, Tools
  <2>8. CASE \E owner \in Owners : GraphPatch(t, g, base, owner, target)
    BY <2>1, <2>3, <2>4, <2>8 DEF GraphPatch, Tools
  <2>9. CASE \E owner \in Owners : GraphBatchMutate(t, g, base, owner, target)
    BY <2>1, <2>3, <2>4, <2>9 DEF GraphBatchMutate, Tools
  <2> QED
    BY <1>3, <2>5, <2>6, <2>7, <2>8, <2>9
<1>4. ASSUME NEW t \in TxIds, NEW target \in Contents, TxApply(t, target)
      PROVE  EditStep(t)
  <2>1. /\ transactions[t].workingVersion \in Version
        /\ Canonical[target] \in Contents
    BY <1>4, ToolsAssumption DEF TxApply, Active, ToolsInv, TxInv, TxTypeOK, TxRecord
  <2>2. EditedVersion(transactions[t].workingVersion, transactions[t].workingContent, target)
           \in Version
    BY <2>1 DEF EditedVersion, Version
  <2> QED
    BY <1>4, <2>1, <2>2 DEF TxApply, EditStep
<1>5. ASSUME NEW t \in TxIds, TxCommit(t)
      PROVE  CommitStep(t)
  <2>1. /\ transactions[t].workingVersion \in Version
        /\ transactions[t].workingContent \in Contents
    BY <1>5 DEF TxCommit, Active, ToolsInv, TxInv, TxTypeOK, TxRecord
  <2> QED
    BY <1>5, <2>1 DEF TxCommit, CommitStep, Resumed
<1>6. ASSUME NEW t \in TxIds, NEW target \in Contents, ChangeSetCommit(t, target)
      PROVE  CommitStep(t)
  <2>1. transactions[t] \in TxRecord /\ transactions[t] # NoTx
    BY <1>6 DEF ChangeSetCommit, CommitAndRecord, Commit, Active, ToolsInv, TxInv, TxTypeOK
  <2>2. /\ snapshots[t].graphId = transactions[t].graphId
        /\ snapshots[t].owner = transactions[t].owner
        /\ snapshots[t].baseVersion = transactions[t].baseVersion
        /\ snapshots[t].baseVersion \in Version
    BY <2>1 DEF ToolsInv, AuditInv, Session, OnRecord, TxRecord
  <2> QED
    BY <1>6, <2>2 DEF ChangeSetCommit, CommitStep, Resumed
<1>7. ASSUME NEW t \in TxIds, TxRollback(t) \/ ExpiredCall(t)
      PROVE  RetireStep(t)
  BY <1>7 DEF TxRollback, ExpiredCall, RetireStep, Resumed
<1>8. ASSUME NEW t \in TxIds, ChangeSetRollBack(t)
      PROVE  RetireStep(t) \/ AfterStep(t)
  <2>1. Active(t) <=> transactions[t] # NoTx
    BY <1>8 DEF ChangeSetRollBack, Active, Expired, ToolsInv, AuditInv, Session, OnRecord
  <2> QED
    BY <1>8, <2>1 DEF ChangeSetRollBack, Retire, RetireStep, AfterStep, Resumed
<1>9. ASSUME NEW t \in TxIds, RestoreLogged(t)
      PROVE  AfterStep(t)
  BY <1>9 DEF RestoreLogged, AfterStep, ToolsInv, AuditInv, Session, OnRecord
<1> QED
  BY <1>1, <1>2, <1>3, <1>4, <1>5, <1>6, <1>7, <1>8, <1>9 DEF ToolsNext

-----------------------------------------------------------------------------
(* What a one-call tool begins on: its record and the seated state.          *)
LEMMA SeatedForCall ==
  ASSUME TxInv, NEW t \in TxIds \ openedTx, NEW g \in GraphIds, NEW base \in Descriptor,
         NEW owner \in Owners, MayBegin(g, base.version)
  PROVE  /\ Seated(g, base.version, base.content) \in GraphState
         /\ Seated(g, base.version, base.content).version = base.version
         /\ NewRecord(g, base.version, base.content, owner, None) \in TxRecord
         /\ base.version \in Version
         /\ states[g] # NoState => states[g].version = base.version
         /\ transactions[t] = NoTx
         /\ \A d \in commits : d.txId # t
<1>1. base.version \in Version /\ base.content \in Contents
  BY TxAssumption DEF Descriptor, Version
<1>2. Deadline(None) \in Int \cup {None}
  BY DEF Deadline
<1>3. NewRecord(g, base.version, base.content, owner, None) \in TxRecord
  BY <1>1, <1>2 DEF NewRecord, TxRecord
<1>4. transactions[t] = NoTx /\ \A d \in commits : d.txId # t
  BY DEF TxInv, RecordsGrounded
<1> QED
  BY <1>1, <1>3, <1>4, SeatedType DEF TxInv, MayBegin

LEMMA OneCallTx ==
  ASSUME TxInv, NEW t \in TxIds, OneCallStep(t)
  PROVE  TxInv'
<1>1. PICK g \in GraphIds, base \in Descriptor, owner \in Owners, tool \in Tools,
           edit \in [version : Version, content : Contents] \cup {None} :
        now' = now /\ OpenAndClose(t, g, base, owner, tool, edit)
  BY DEF OneCallStep
<1> DEFINE tx == NewRecord(g, base.version, base.content, owner, None)
           seated == Seated(g, base.version, base.content)
<1>2. /\ t \in TxIds \ openedTx /\ MayBegin(g, base.version)
      /\ openedTx' = openedTx \cup {t} /\ transactions' = transactions
  BY <1>1 DEF OpenAndClose
<1>3. /\ seated \in GraphState /\ seated.version = base.version
      /\ tx \in TxRecord /\ tx.graphId = g /\ base.version \in Version
      /\ states[g] # NoState => states[g].version = base.version
      /\ transactions[t] = NoTx
      /\ \A d \in commits : d.txId # t
  BY <1>2, SeatedForCall DEF NewRecord
<1>4. transactions' = [transactions EXCEPT ![t] = NoTx]
  BY <1>2, <1>3 DEF TxInv, TxTypeOK
<1>5. CASE edit # None /\ Commits(seated, tx, edit.version, edit.content)
  <2>1. edit.version \in Version /\ edit.content \in Contents
    BY <1>5
  <2>2. Publish(t, tx, seated, edit.version, edit.content)
    BY <1>1, <1>5 DEF OpenAndClose
  <2> HIDE DEF tx, seated
  <2> QED
    BY <1>1, <1>2, <1>3, <1>4, <1>5, <2>1, <2>2, PublishInv
<1>6. CASE ~(edit # None /\ Commits(seated, tx, edit.version, edit.content))
  <2>1. /\ states' = [states EXCEPT ![g] = seated]
        /\ UNCHANGED <<snapshotTrackers, commits, persisted>>
    BY <1>1, <1>6 DEF OpenAndClose
  <2> HIDE DEF tx, seated
  <2> QED
    BY <1>1, <1>2, <1>3, <1>4, <2>1, SeatInv
<1> QED
  BY <1>5, <1>6

LEMMA ToolsStepTx ==
  ASSUME ToolsInv, [ToolsNext]_toolVars
  PROVE  TxInv'
<1>1. CASE IdleStep
  BY <1>1, TxStepInv DEF IdleStep, TxNext, Read, ToolsInv
<1>2. ASSUME NEW t \in TxIds, OpenStep(t)
      PROVE  TxInv'
  <2>1. 1..MaxVersion \subseteq Version /\ Ttls \subseteq Int \cup {None}
    BY TxAssumption DEF Version
  <2> QED
    BY <1>2, <2>1, BeginInv, ZenonT(30) DEF OpenStep, OpenAndRecord, ToolsInv
<1>3. ASSUME NEW t \in TxIds, EditStep(t)
      PROVE  TxInv'
  <2>1. PICK version \in Version, content \in Contents :
          now' = now /\ SetWorkingCopy(t, version, content)
    BY <1>3 DEF EditStep
  <2>2. PICK record \in TxRecord :
          /\ transactions[t] # NoTx
          /\ record.graphId = transactions[t].graphId
          /\ record.baseVersion = transactions[t].baseVersion
          /\ transactions' = [transactions EXCEPT ![t] = record]
    BY <2>1, SetWorkingCopyRecord DEF ToolsInv
  <2>3. UNCHANGED <<states, snapshotTrackers, openedTx, commits, persisted>>
    BY <2>1 DEF SetWorkingCopy
  <2> QED
    BY <2>1, <2>2, <2>3, RecordInv DEF ToolsInv
<1>4. ASSUME NEW t \in TxIds, CommitStep(t)
      PROVE  TxInv'
  BY <1>4, CommitInv DEF CommitStep, CommitAndRecord, ToolsInv
<1>5. ASSUME NEW t \in TxIds, RetireStep(t)
      PROVE  TxInv'
  BY <1>5, RecordInv DEF RetireStep, Rollback, DropExpired, ToolsInv
<1>6. ASSUME NEW t \in TxIds, AfterStep(t)
      PROVE  TxInv'
  BY <1>6, TxStepInv DEF AfterStep, TxNext, Read, ToolsInv
<1>7. ASSUME NEW t \in TxIds, OneCallStep(t)
      PROVE  TxInv'
  BY <1>7, OneCallTx DEF ToolsInv
<1> QED
  BY StepKinds, <1>1, <1>2, <1>3, <1>4, <1>5, <1>6, <1>7

-----------------------------------------------------------------------------
(* A step of one transaction leaves the sessions of the others as they were. *)
LEMMA OthersKept ==
  ASSUME NEW t \in TxIds, NEW u \in TxIds \ {t}, Session(u),
         u \in openedTx' <=> u \in openedTx,
         snapshots'[u] = snapshots[u], inFlight'[u] = inFlight[u],
         calls'[u] = calls[u], transactions'[u] = transactions[u],
         \A c : c.txId = u => (c \in commits' <=> c \in commits)
  PROVE  Session(u)'
<1>1. OnRecord(u)'
  BY DEF Session, OnRecord
<1>2. Trail(u)'
  BY DEF Session, Trail
<1>3. Attended(u)' /\ FinalShown(u)'
  BY DEF Session, Attended, FinalShown
<1> QED
  BY <1>1, <1>2, <1>3 DEF Session

(* A snapshot keeps its type through whatever marks it.                      *)
LEMMA MarksType ==
  ASSUME NEW audit \in AuditRecord, NEW final \in GraphState
  PROVE  /\ MarkRolledBack(audit) \in AuditRecord
         /\ MarkRolledBack(audit).state = "rolled_back"
         /\ MarkRolledBack(audit).final = None
         /\ MarkCommitted(audit, final) \in AuditRecord
         /\ MarkCommitted(audit, final).state = "committed"
         /\ MarkCommitted(audit, final).final =
              [version |-> final.version, content |-> final.content]
         /\ MarkCommitted(audit, final).final # None
         /\ MarkCommitted(audit, final).graphId = audit.graphId
         /\ MarkCommitted(audit, final).baseVersion = audit.baseVersion
<1>1. [version |-> final.version, content |-> final.content]
         \in [version : Version, content : Contents]
  BY DEF GraphState
<1> QED
  BY <1>1, ToolsAssumption DEF AuditRecord, MarkRolledBack, MarkCommitted

LEMMA PendingType ==
  ASSUME NEW tx \in TxRecord
  PROVE  /\ Pending(tx) \in AuditRecord
         /\ Pending(tx).graphId = tx.graphId
         /\ Pending(tx).baseVersion = tx.baseVersion
         /\ Pending(tx).owner = tx.owner
         /\ Pending(tx).state = "pending"
         /\ Pending(tx).final = None
BY DEF Pending, TxRecord, AuditRecord

(* What a commit makes of the graph and of the history.                      *)
LEMMA Outcome ==
  ASSUME TxInv, NEW t \in TxIds, NEW tx \in TxRecord, tx.baseVersion <= MaxVersion,
         NEW state \in GraphState, NEW v \in Version, NEW c \in Contents,
         Commits(state, tx, v, c), Publish(t, tx, state, v, c),
         NEW final, final = Committed(state, tx, v, c)
  PROVE  /\ final \in GraphState
         /\ final.version \in 1..MaxVersion + 1
         /\ states' = [states EXCEPT ![tx.graphId] = final]
         /\ \/ commits' = commits /\ final.version = tx.baseVersion
            \/ \E record \in CommitRecord :
                 /\ record.txId = t /\ record.graphId = tx.graphId
                 /\ record.baseVersion = tx.baseVersion
                 /\ record.content = final.content
                 /\ commits' = commits \cup {record}
                 /\ final.version = tx.baseVersion + 1
<1>1. state.version = tx.baseVersion /\ tx.baseVersion \in Version
  BY DEF Commits, TxRecord
<1>2. /\ final \in GraphState
      /\ final.version = IF Mutates(tx, v, c) THEN state.version + 1 ELSE state.version
  BY CommittedType DEF TxInv, TxTypeOK
<1>3. final.version \in 1..MaxVersion + 1
  BY <1>1, <1>2, TxAssumption DEF Version
<1>4. states' = [states EXCEPT ![tx.graphId] = final]
  BY DEF Publish
<1>5. CASE ~Mutates(tx, v, c)
  BY <1>1, <1>2, <1>3, <1>4, <1>5 DEF Publish
<1>6. CASE Mutates(tx, v, c)
  <2> DEFINE record == [txId |-> t, graphId |-> tx.graphId, baseVersion |-> tx.baseVersion,
                        content |-> final.content]
  <2>1. record \in CommitRecord
    BY <1>2 DEF CommitRecord, TxRecord, GraphState
  <2>2. commits' = commits \cup {record}
    BY <1>6 DEF Publish
  <2> QED
    BY <1>1, <1>2, <1>3, <1>4, <1>6, <2>1, <2>2
<1> QED
  BY <1>5, <1>6

(* The resources after a commit, be it a session's, a change set's or that   *)
(* of a one-call tool.                                                       *)
LEMMA PublishKeepsAudit ==
  ASSUME TxInv, AuditInv, NEW t \in TxIds, NEW tx \in TxRecord, tx.baseVersion <= MaxVersion,
         NEW state \in GraphState, NEW v \in Version, NEW c \in Contents,
         Commits(state, tx, v, c), Publish(t, tx, state, v, c),
         states[tx.graphId] # NoState => states[tx.graphId].version = state.version,
         \A d \in commits : d.txId # t,
         NEW audit \in AuditRecord,
         audit.graphId = tx.graphId, audit.baseVersion = tx.baseVersion,
         snapshots' = [snapshots EXCEPT
                         ![t] = MarkCommitted(audit, Committed(state, tx, v, c))],
         RecordVersion(tx.graphId, Committed(state, tx, v, c)),
         transactions' = [transactions EXCEPT ![t] = NoTx],
         openedTx' = openedTx \cup {t},
         NEW awaits \in {"idle", "append"}, NEW call \in [tool : Tools \cup {"none"}, changed : BOOLEAN],
         inFlight' \in {inFlight, [inFlight EXCEPT ![t] = awaits]},
         calls' = [calls EXCEPT ![t] = call],
         inFlight'[t] = "append" => call.tool = "graph_snapshot_time_travel"
  PROVE  AuditInv'
<1> DEFINE final == Committed(state, tx, v, c)
           shown == MarkCommitted(audit, final)
           g == tx.graphId
<1>1. /\ final \in GraphState
      /\ final.version \in 1..MaxVersion + 1
      /\ states' = [states EXCEPT ![g] = final]
      /\ \/ commits' = commits /\ final.version = tx.baseVersion
         \/ \E record \in CommitRecord :
              /\ record.txId = t /\ record.graphId = g
              /\ record.baseVersion = tx.baseVersion
              /\ record.content = final.content
              /\ commits' = commits \cup {record}
              /\ final.version = tx.baseVersion + 1
  BY Outcome
<1>2. /\ shown \in AuditRecord
      /\ shown.state = "committed"
      /\ shown.final = [version |-> final.version, content |-> final.content]
      /\ shown.final # None
      /\ shown.graphId = g /\ shown.baseVersion = tx.baseVersion
  BY <1>1, MarksType
<1>3. /\ snapshots' = [snapshots EXCEPT ![t] = shown]
      /\ published' = [published EXCEPT ![g][final.version] = final.content]
  BY DEF RecordVersion
<1>4. g \in GraphIds /\ tx.baseVersion \in Version /\ state.version = tx.baseVersion
  BY DEF TxRecord, Commits
<1>5. final # NoState /\ final.content \in Contents /\ final.content # None
  BY <1>1, NullAssumption, ToolsAssumption DEF GraphState
<1> HIDE DEF final, shown
<1>6. ToolsTypes'
  BY <1>1, <1>2, <1>3, <1>4, <1>5 DEF AuditInv, ToolsTypes
<1>7. Session(t)'
  <2>1. /\ t \in openedTx' /\ snapshots'[t] = shown /\ shown # NoAudit
        /\ transactions'[t] = NoTx /\ calls'[t] = call
    BY <1>2, <1>3, ToolsAssumption DEF TxInv, TxTypeOK, AuditInv, ToolsTypes
  <2>2. OnRecord(t)' /\ Attended(t)' /\ FinalShown(t)'
    BY <1>2, <2>1 DEF OnRecord, Attended, FinalShown
  <2>3. Trail(t)'
    BY <1>1, <1>2, <2>1 DEF Trail
  <2> QED
    BY <2>2, <2>3 DEF Session
<1>8. ASSUME NEW u \in TxIds \ {t}
      PROVE  Session(u)'
  <2>1. /\ u \in openedTx' <=> u \in openedTx
        /\ snapshots'[u] = snapshots[u] /\ inFlight'[u] = inFlight[u]
        /\ calls'[u] = calls[u] /\ transactions'[u] = transactions[u]
    BY <1>3 DEF TxInv, TxTypeOK, AuditInv, ToolsTypes
  <2>2. \A d : d.txId = u => (d \in commits' <=> d \in commits)
    BY <1>1
  <2> QED
    BY <2>1, <2>2, OthersKept DEF AuditInv
<1>9. CommitsBounded'
  BY <1>1 DEF AuditInv, CommitsBounded
<1>10. PublishedFollowsHead'
  <2>1. ASSUME NEW h \in GraphIds, NEW w \in 1..MaxVersion + 1
        PROVE  published'[h][w] = IF h = g /\ w = final.version
                                  THEN final.content ELSE published[h][w]
    BY <1>1, <1>3, <1>4 DEF AuditInv, ToolsTypes
  <2>2. ASSUME NEW h \in GraphIds, NEW d \in commits', d.graphId = h
        PROVE  published'[h][d.baseVersion + 1] # None
    <3>1. d \in CommitRecord /\ d.baseVersion + 1 \in 1..MaxVersion + 1
      BY <1>1, <1>9, TxAssumption
      DEF CommitsBounded, TxInv, TxTypeOK, CommitRecord, Version
    <3>2. CASE d \in commits
      BY <1>5, <2>1, <2>2, <3>1, <3>2 DEF AuditInv, PublishedFollowsHead
    <3>3. CASE d \notin commits
      BY <1>1, <1>5, <2>1, <2>2, <3>1, <3>3
    <3> QED
      BY <3>2, <3>3
  <2>3. ASSUME NEW h \in GraphIds, NEW w \in 1..MaxVersion + 1, published'[h][w] # None
        PROVE  states'[h] # NoState /\ w <= states'[h].version
    <3>1. CASE h # g
      BY <1>1, <1>4, <2>1, <2>3, <3>1
      DEF AuditInv, PublishedFollowsHead, TxInv, TxTypeOK
    <3>2. CASE h = g
      <4>1. states'[g] = final
        BY <1>1, <1>4 DEF TxInv, TxTypeOK
      <4>2. tx.baseVersion <= final.version
        BY <1>1, <1>4 DEF Version
      <4>3. CASE w = final.version
        BY <1>1, <1>5, <3>2, <4>1, <4>3
      <4>4. CASE w # final.version
        <5>1. w <= tx.baseVersion
          BY <1>4, <2>1, <2>3, <3>2, <4>4 DEF AuditInv, PublishedFollowsHead
        <5> QED
          BY <1>1, <1>4, <1>5, <3>2, <4>1, <4>2, <5>1 DEF Version
      <4> QED
        BY <4>3, <4>4
    <3> QED
      BY <3>1, <3>2
  <2> QED
    BY <2>2, <2>3 DEF PublishedFollowsHead
<1> QED
  BY <1>6, <1>7, <1>8, <1>9, <1>10 DEF AuditInv

(* The steps that leave sc://graphs and the history of commits alone, and no *)
(* graph at a lower version.                                                 *)
LEMMA QuietKeepsAudit ==
  ASSUME TxInv, AuditInv, NEW t \in TxIds,
         NEW audit \in AuditRecord \cup {NoAudit},
         snapshots' = [snapshots EXCEPT ![t] = audit],
         NEW awaits \in {"idle", "apply", "dry_run", "append"},
         inFlight' \in {inFlight, [inFlight EXCEPT ![t] = awaits]},
         NEW call \in [tool : Tools \cup {"none"}, changed : BOOLEAN],
         calls' = [calls EXCEPT ![t] = call],
         NEW record, transactions' = [transactions EXCEPT ![t] = record],
         openedTx' \in {openedTx, openedTx \cup {t}},
         UNCHANGED <<commits, published>>,
         \A g \in GraphIds : states[g] # NoState =>
           states'[g] # NoState /\ states'[g].version = states[g].version,
         Session(t)'
  PROVE  AuditInv'
<1>1. ToolsTypes'
  BY DEF AuditInv, ToolsTypes
<1>2. ASSUME NEW u \in TxIds \ {t}
      PROVE  Session(u)'
  BY OthersKept DEF AuditInv, ToolsTypes, TxInv, TxTypeOK
<1>3. CommitsBounded' /\ PublishedFollowsHead'
  BY DEF AuditInv, CommitsBounded, PublishedFollowsHead
<1> QED
  BY <1>1, <1>2, <1>3 DEF AuditInv

LEMMA OpenAudit ==
  ASSUME ToolsInv, NEW t \in TxIds, OpenStep(t)
  PROVE  AuditInv'
<1>1. PICK g \in GraphIds, version \in 1..MaxVersion, content \in Contents, owner \in Owners,
           ttl \in Ttls \cup {None}, tool \in {"tx_begin", "graph_apply_change_set"},
           mode \in {"idle", "apply", "dry_run"} :
        /\ OpenAndRecord(t, g, version, content, owner, ttl, tool)
        /\ \/ tool = "tx_begin" /\ mode = "idle" /\ UNCHANGED inFlight
           \/ mode # "idle" /\ ttl = None /\ inFlight' = [inFlight EXCEPT ![t] = mode]
  BY DEF OpenStep
<1> DEFINE tx == NewRecord(g, version, content, owner, ttl)
           seated == Seated(g, version, content)
           call == [tool |-> tool, changed |-> FALSE]
<1>2. /\ t \notin openedTx /\ MayBegin(g, version)
      /\ openedTx' = openedTx \cup {t}
      /\ states' = [states EXCEPT ![g] = seated]
      /\ transactions' = [transactions EXCEPT ![t] = tx]
      /\ snapshots' = [snapshots EXCEPT ![t] = Pending(tx)]
      /\ calls' = [calls EXCEPT ![t] = call]
      /\ UNCHANGED <<commits, published>>
  BY <1>1 DEF OpenAndRecord, Begin
<1>3. version \in Version /\ version <= MaxVersion
  BY TxAssumption DEF Version
<1>4. Deadline(ttl) \in Int \cup {None} /\ (ttl = None => Deadline(ttl) = None)
  BY TxAssumption, TxDeadlineType DEF Deadline, ToolsInv, TxInv, TxTypeOK
<1>5. /\ tx \in TxRecord /\ tx.graphId = g /\ tx.baseVersion = version /\ tx.owner = owner
      /\ tx.expiresAt = Deadline(ttl)
  BY <1>3, <1>4 DEF NewRecord, TxRecord
<1>6. /\ seated \in GraphState
      /\ states[g] # NoState => seated.version = states[g].version
  BY <1>2, <1>3, SeatedType DEF ToolsInv, TxInv
<1>7. /\ Pending(tx) \in AuditRecord
      /\ Pending(tx).graphId = g /\ Pending(tx).baseVersion = version
      /\ Pending(tx).owner = owner /\ Pending(tx).state = "pending"
      /\ Pending(tx).final = None
  BY <1>5, PendingType
<1>8. call \in [tool : Tools \cup {"none"}, changed : BOOLEAN] /\ call.tool = tool
  BY DEF Tools
<1> DEFINE audit == Pending(tx)
<1> HIDE DEF tx, seated, call, audit
<1>9. inFlight[t] = "idle"
  BY <1>2 DEF ToolsInv, AuditInv, Session, OnRecord
<1>10. /\ t \in openedTx' /\ snapshots'[t] = audit /\ audit # NoAudit
       /\ transactions'[t] = tx /\ calls'[t] = call /\ inFlight'[t] = mode
  BY <1>1, <1>2, <1>7, <1>9, ToolsAssumption
  DEF ToolsInv, TxInv, TxTypeOK, AuditInv, ToolsTypes, audit
<1>11. \A c \in commits' : c.txId # t
  BY <1>2 DEF ToolsInv, TxInv, RecordsGrounded
<1>12. Session(t)'
  <2>1. OnRecord(t)'
    BY <1>1, <1>3, <1>4, <1>5, <1>7, <1>10 DEF OnRecord, audit
  <2>2. Trail(t)'
    BY <1>7, <1>10, <1>11 DEF Trail, audit
  <2>3. Attended(t)'
    BY <1>1, <1>8, <1>10 DEF Attended
  <2>4. FinalShown(t)'
    BY <1>7, <1>10 DEF FinalShown, audit
  <2> QED
    BY <2>1, <2>2, <2>3, <2>4 DEF Session
<1>13. \A h \in GraphIds : states[h] # NoState =>
         states'[h] # NoState /\ states'[h].version = states[h].version
  BY <1>2, <1>6, NullAssumption DEF ToolsInv, TxInv, TxTypeOK
<1>14. audit \in AuditRecord \cup {NoAudit} /\ snapshots' = [snapshots EXCEPT ![t] = audit]
  BY <1>2, <1>7 DEF audit
<1>15. inFlight' \in {inFlight, [inFlight EXCEPT ![t] = mode]}
  BY <1>1
<1> QED
  BY <1>2, <1>8, <1>12, <1>13, <1>14, <1>15, QuietKeepsAudit DEF ToolsInv

LEMMA EditAudit ==
  ASSUME ToolsInv, NEW t \in TxIds, EditStep(t)
  PROVE  AuditInv'
<1>1. PICK version \in Version, content \in Contents :
        SetWorkingCopy(t, version, content) /\ UNCHANGED <<snapshots, published, inFlight, calls>>
  BY DEF EditStep
<1> DEFINE record == [transactions[t] EXCEPT !.workingVersion = version,
                                             !.workingContent = content]
<1>2. transactions[t] # NoTx /\ transactions[t] \in TxRecord
  BY <1>1 DEF SetWorkingCopy, Active, ToolsInv, TxInv, TxTypeOK
<1>3. /\ record.graphId = transactions[t].graphId
      /\ record.baseVersion = transactions[t].baseVersion
      /\ record.owner = transactions[t].owner
      /\ record.expiresAt = transactions[t].expiresAt
  BY <1>2 DEF TxRecord
<1>4. /\ transactions' = [transactions EXCEPT ![t] = record]
      /\ UNCHANGED <<states, openedTx, commits>>
  BY <1>1 DEF SetWorkingCopy
<1> HIDE DEF record
<1>5. transactions'[t] = record
  BY <1>4 DEF ToolsInv, TxInv, TxTypeOK
<1>6. Session(t)
  BY DEF ToolsInv, AuditInv
<1>7. Session(t)'
  BY <1>1, <1>2, <1>3, <1>4, <1>5, <1>6
  DEF Session, OnRecord, Trail, Attended, FinalShown
<1>8. /\ snapshots[t] \in AuditRecord \cup {NoAudit}
      /\ snapshots' = [snapshots EXCEPT ![t] = snapshots[t]]
      /\ calls[t] \in [tool : Tools \cup {"none"}, changed : BOOLEAN]
      /\ calls' = [calls EXCEPT ![t] = calls[t]]
  BY <1>1 DEF ToolsInv, AuditInv, ToolsTypes
<1> QED
  BY <1>1, <1>4, <1>7, <1>8, QuietKeepsAudit DEF ToolsInv

LEMMA RetireAudit ==
  ASSUME ToolsInv, NEW t \in TxIds, RetireStep(t) \/ AfterStep(t)
  PROVE  AuditInv'
<1> DEFINE audit == snapshots'[t]
<1>1. Session(t)
  BY DEF ToolsInv, AuditInv
<1>2. /\ transactions' = [transactions EXCEPT ![t] = NoTx]
      /\ UNCHANGED <<states, openedTx, commits, published, calls>>
      /\ inFlight' \in {inFlight, [inFlight EXCEPT ![t] = "idle"]}
  BY DEF RetireStep, AfterStep, Resumed, Rollback, DropExpired, txVars,
         ToolsInv, TxInv, TxTypeOK
<1>3. t \in openedTx /\ snapshots[t] \in AuditRecord
  BY <1>1 DEF RetireStep, AfterStep, Rollback, DropExpired, Active, Session, OnRecord,
              ToolsInv, TxInv, RecordsGrounded, AuditInv, ToolsTypes
<1>4. \/ snapshots' = snapshots
      \/ /\ snapshots' = [snapshots EXCEPT ![t] = MarkRolledBack(snapshots[t])]
         /\ \/ transactions[t] # NoTx
            \/ calls[t].tool = "graph_snapshot_time_travel"
  BY <1>1 DEF RetireStep, AfterStep, Rollback, Active, Session, OnRecord
<1>5. /\ MarkRolledBack(snapshots[t]) \in AuditRecord
      /\ MarkRolledBack(snapshots[t]).state = "rolled_back"
      /\ MarkRolledBack(snapshots[t]).final = None
  BY <1>3 DEF AuditRecord, MarkRolledBack
<1>6. transactions[t] # NoTx => \A c \in commits : c.txId # t
  BY DEF ToolsInv, TxInv, CommitRetires
<1>7. snapshots' = [snapshots EXCEPT ![t] = audit] /\ audit \in AuditRecord
  BY <1>3, <1>4, <1>5 DEF ToolsInv, AuditInv, ToolsTypes
<1>8. /\ transactions'[t] = NoTx /\ calls'[t] = calls[t]
      /\ inFlight'[t] \in {inFlight[t], "idle"}
  BY <1>2 DEF ToolsInv, AuditInv, ToolsTypes, TxInv, TxTypeOK
<1>9. Session(t)'
  <2>1. audit # NoAudit
    BY <1>7, ToolsAssumption
  <2>2. OnRecord(t)' /\ Attended(t)'
    BY <1>1, <1>2, <1>3, <1>8, <2>1 DEF Session, OnRecord, Attended
  <2>3. CASE snapshots' = snapshots
    BY <1>1, <1>2, <1>8, <2>2, <2>3 DEF Session, Trail, FinalShown
  <2>4. CASE audit = MarkRolledBack(snapshots[t])
    BY <1>2, <1>3, <1>4, <1>5, <1>6, <1>7, <1>8, <2>1, <2>2, <2>4, <1>1
    DEF Session, Trail, FinalShown, AuditInv, ToolsTypes
  <2> QED
    BY <1>3, <1>4, <2>3, <2>4 DEF ToolsInv, AuditInv, ToolsTypes
<1>10. /\ calls[t] \in [tool : Tools \cup {"none"}, changed : BOOLEAN]
       /\ calls' = [calls EXCEPT ![t] = calls[t]]
  BY <1>2 DEF ToolsInv, AuditInv, ToolsTypes
<1> HIDE DEF audit
<1> QED
  BY <1>2, <1>7, <1>9, <1>10, QuietKeepsAudit DEF ToolsInv

LEMMA CommitAudit ==
  ASSUME ToolsInv, NEW t \in TxIds, CommitStep(t)
  PROVE  AuditInv'
<1> DEFINE tx == transactions[t]
           state == states[tx.graphId]
<1>1. PICK version \in Version, content \in Contents :
        CommitAndRecord(t, version, content) /\ Resumed(t) /\ UNCHANGED calls
  BY DEF CommitStep
<1>2. /\ tx \in TxRecord /\ tx # NoTx /\ tx.graphId \in GraphIds
      /\ tx.baseVersion <= MaxVersion
      /\ snapshots[t].graphId = tx.graphId /\ snapshots[t].baseVersion = tx.baseVersion
      /\ inFlight[t] # "append"
      /\ t \in openedTx /\ snapshots[t] \in AuditRecord
  BY <1>1 DEF CommitAndRecord, Commit, Active, ToolsInv, TxInv, TxTypeOK, TxRecord,
              RecordsGrounded, AuditInv, ToolsTypes, Session, OnRecord
<1>3. /\ state \in GraphState
      /\ Commits(state, tx, version, content)
      /\ Publish(t, tx, state, version, content)
      /\ transactions' = [transactions EXCEPT ![t] = NoTx]
      /\ openedTx' = openedTx \cup {t}
      /\ snapshots' = [snapshots EXCEPT
                         ![t] = MarkCommitted(snapshots[t], Committed(state, tx, version, content))]
      /\ RecordVersion(tx.graphId, Committed(state, tx, version, content))
  BY <1>1, <1>2 DEF CommitAndRecord, Commit, Commits, ToolsInv, TxInv, TxTypeOK
<1>4. \A d \in commits : d.txId # t
  BY <1>2 DEF ToolsInv, TxInv, CommitRetires
<1>5. /\ inFlight' \in {inFlight, [inFlight EXCEPT ![t] = "idle"]}
      /\ inFlight'[t] # "append"
      /\ calls[t] \in [tool : Tools \cup {"none"}, changed : BOOLEAN]
      /\ calls' = [calls EXCEPT ![t] = calls[t]]
  BY <1>1, <1>2 DEF Resumed, ToolsInv, AuditInv, ToolsTypes
<1> HIDE DEF tx, state
<1>6. TxInv /\ AuditInv
  BY DEF ToolsInv
<1>7. states[tx.graphId] = state
  BY DEF state
<1> QED
  BY <1>2, <1>3, <1>4, <1>5, <1>6, <1>7, PublishKeepsAudit

LEMMA OneCallAudit ==
  ASSUME ToolsInv, NEW t \in TxIds, OneCallStep(t)
  PROVE  AuditInv'
<1>1. PICK g \in GraphIds, base \in Descriptor, owner \in Owners, tool \in Tools,
           edit \in [version : Version, content : Contents] \cup {None},
           awaits \in {"idle", "append"} :
        /\ OpenAndClose(t, g, base, owner, tool, edit)
        /\ inFlight' \in {inFlight, [inFlight EXCEPT ![t] = awaits]}
        /\ awaits = "append" => tool = "graph_snapshot_time_travel"
  BY DEF OneCallStep
<1> DEFINE tx == NewRecord(g, base.version, base.content, owner, None)
           seated == Seated(g, base.version, base.content)
           audit == Pending(tx)
<1>2. /\ t \in TxIds \ openedTx /\ MayBegin(g, base.version)
      /\ openedTx' = openedTx \cup {t} /\ transactions' = transactions
  BY <1>1 DEF OpenAndClose
<1>3. /\ seated \in GraphState /\ seated.version = base.version
      /\ tx \in TxRecord /\ tx.graphId = g /\ tx.baseVersion = base.version
      /\ states[g] # NoState => states[g].version = base.version
      /\ transactions[t] = NoTx
      /\ \A d \in commits : d.txId # t
  BY <1>2, SeatedForCall DEF NewRecord, ToolsInv
<1>4. /\ transactions' = [transactions EXCEPT ![t] = NoTx]
      /\ tx.baseVersion <= MaxVersion
      /\ TxInv /\ AuditInv
  BY <1>2, <1>3, TxAssumption DEF ToolsInv, TxInv, TxTypeOK, Descriptor
<1>5. /\ audit \in AuditRecord /\ audit.graphId = g /\ audit.baseVersion = tx.baseVersion
  BY <1>3, PendingType
<1>6. inFlight'[t] = "append" => tool = "graph_snapshot_time_travel"
  BY <1>1, <1>2 DEF ToolsInv, AuditInv, ToolsTypes, Session, OnRecord
<1>7. CASE edit # None /\ Commits(seated, tx, edit.version, edit.content)
  <2> DEFINE call == [tool |-> tool, changed |-> Changes(base.content, edit.content)]
  <2>1. edit.version \in Version /\ edit.content \in Contents
    BY <1>7
  <2>2. /\ Publish(t, tx, seated, edit.version, edit.content)
        /\ snapshots' = [snapshots EXCEPT
             ![t] = MarkCommitted(audit, Committed(seated, tx, edit.version, edit.content))]
        /\ RecordVersion(g, Committed(seated, tx, edit.version, edit.content))
        /\ calls' = [calls EXCEPT ![t] = call]
    BY <1>1, <1>7 DEF OpenAndClose
  <2>3. call \in [tool : Tools \cup {"none"}, changed : BOOLEAN] /\ call.tool = tool
    BY DEF Changes
  <2> HIDE DEF tx, seated, audit, call
  <2>4. /\ RecordVersion(tx.graphId, Committed(seated, tx, edit.version, edit.content))
        /\ audit.graphId = tx.graphId
        /\ states[tx.graphId] # NoState => states[tx.graphId].version = seated.version
        /\ inFlight'[t] = "append" => call.tool = "graph_snapshot_time_travel"
    BY <1>3, <1>5, <1>6, <2>2, <2>3
  <2>5. Commits(seated, tx, edit.version, edit.content)
    BY <1>7
  <2> QED
    BY <1>1, <1>2, <1>3, <1>4, <1>5, <2>1, <2>2, <2>3, <2>4, <2>5, PublishKeepsAudit
<1>8. CASE ~(edit # None /\ Commits(seated, tx, edit.version, edit.content))
  <2> DEFINE call == [tool |-> tool, changed |-> FALSE]
             shown == MarkRolledBack(audit)
  <2>1. /\ states' = [states EXCEPT ![g] = seated]
        /\ snapshots' = [snapshots EXCEPT ![t] = shown]
        /\ calls' = [calls EXCEPT ![t] = call]
        /\ UNCHANGED <<commits, published>>
    BY <1>1, <1>8 DEF OpenAndClose
  <2>2. call \in [tool : Tools \cup {"none"}, changed : BOOLEAN] /\ call.tool = tool
    OBVIOUS
  <2>3. shown \in AuditRecord /\ shown.state = "rolled_back" /\ shown.final = None
    BY <1>5 DEF AuditRecord, MarkRolledBack
  <2> HIDE DEF tx, seated, audit, call, shown
  <2>4. /\ t \in openedTx' /\ snapshots'[t] = shown /\ shown # NoAudit
        /\ transactions'[t] = NoTx /\ calls'[t] = call
    BY <1>2, <1>3, <2>1, <2>3, ToolsAssumption DEF ToolsInv, TxInv, TxTypeOK, AuditInv, ToolsTypes
  <2>5. Session(t)'
    BY <1>3, <1>6, <2>1, <2>2, <2>3, <2>4
    DEF Session, OnRecord, Trail, Attended, FinalShown
  <2>6. \A h \in GraphIds : states[h] # NoState =>
          states'[h] # NoState /\ states'[h].version = states[h].version
    BY <1>3, <2>1, NullAssumption DEF ToolsInv, TxInv, TxTypeOK
  <2>7. shown \in AuditRecord \cup {NoAudit} /\ openedTx' \in {openedTx, openedTx \cup {t}}
    BY <1>2, <2>3
  <2> QED
    BY <1>1, <1>4, <2>1, <2>2, <2>5, <2>6, <2>7, QuietKeepsAudit
<1> QED
  BY <1>7, <1>8

-----------------------------------------------------------------------------
LEMMA ToolsInitInv == ASSUME ToolsInit PROVE ToolsInv
<1>1. LockInv /\ TxInv
  BY LocksInitInv, TxInitInv DEF ToolsInit
<1>2. ToolsTypes
  BY DEF ToolsInit, ToolsTypes
<1>3. \A t \in TxIds : Session(t)
  BY DEF ToolsInit, TxInit, Session, OnRecord, Trail, Attended, FinalShown
<1>4. CommitsBounded /\ PublishedFollowsHead
  BY DEF ToolsInit, TxInit, CommitsBounded, PublishedFollowsHead
<1> QED
  BY <1>1, <1>2, <1>3, <1>4 DEF ToolsInv, AuditInv

LEMMA ToolsStepInv ==
  ASSUME ToolsInv, [ToolsNext]_toolVars
  PROVE  ToolsInv'
<1>1. LockInv'
  BY ToolsStepLocks, LocksStepInv DEF ToolsInv
<1>2. TxInv'
  BY ToolsStepTx
<1>3. ASSUME IdleStep PROVE AuditInv'
  BY <1>3 DEF IdleStep, txVars, ToolsInv, AuditInv, ToolsTypes, Session, OnRecord, Trail,
              Attended, FinalShown, CommitsBounded, PublishedFollowsHead
<1>4. AuditInv'
  BY <1>3, StepKinds, OpenAudit, OneCallAudit, EditAudit, CommitAudit, RetireAudit
<1> QED
  BY <1>1, <1>2, <1>4 DEF ToolsInv

(* The graph tools keep ToolsInv: the invariants of both managers, and the   *)
(* agreement of the resources with the transactions.                         *)
THEOREM ToolsInvariant == ToolsSpec => []ToolsInv
<1>1. ToolsInit => ToolsInv
  BY ToolsInitInv
<1>2. ToolsInv /\ [ToolsNext]_toolVars => ToolsInv'
  BY ToolsStepInv
<1> QED
  BY <1>1, <1>2, PTL DEF ToolsSpec

(* The state of the tools stays well-typed, and a snapshot names a final     *)
(* version exactly while it is shown as committed.                           *)
THEOREM ToolsTyping == ToolsSpec => []ToolsTypeOK
<1>1. ToolsInv => ToolsTypeOK
  BY ToolsInvImplies
<1> QED
  BY <1>1, ToolsInvariant, PTL

(* sc://snapshots tells what became of each transaction.                     *)
THEOREM ToolsAudit == ToolsSpec => []AuditTrail
<1>1. ToolsInv => AuditTrail
  BY ToolsInvImplies
<1> QED
  BY <1>1, ToolsInvariant, PTL

(* No handler leaves a live transaction behind.                              *)
THEOREM ToolsNoOrphan == ToolsSpec => []NoOrphanTransaction
<1>1. ToolsInv => NoOrphanTransaction
  BY ToolsInvImplies
<1> QED
  BY <1>1, ToolsInvariant, PTL

(* sc://graphs serves the versions the transaction manager produced.         *)
THEOREM ToolsPublished == ToolsSpec => []PublishedFollowsHead
<1>1. ToolsInv => PublishedFollowsHead
  BY ToolsInvImplies
<1> QED
  BY <1>1, ToolsInvariant, PTL

(* The composition implements the lock manager, ...                          *)
THEOREM ToolsImplementLocks == ToolsSpec => LocksSpec
<1>1. ToolsInit => LocksInit
  BY DEF ToolsInit
<1>2. ToolsInv /\ [ToolsNext]_toolVars => [LocksNext]_<<now, lockVars>>
  BY ToolsStepLocks
<1> QED
  BY <1>1, <1>2, ToolsInvariant, PTL DEF ToolsSpec, LocksSpec

(* so that its promises hold of the tools: at most one live lease per graph, *)
(* and a gate that refuses exactly whom the leases refuse; ...               *)
THEOREM ToolsLeases == ToolsSpec => [](LeaseExclusion /\ GateMatchesLeases)
BY ToolsImplementLocks, LocksExclusion, LocksGate, PTL

(* ... and keeps first committer wins and single commits of the transaction  *)
(* manager, whichever tools the versions come from.                          *)
THEOREM ToolsOneWriter == ToolsSpec => [](OneWriterPerVersion /\ CommitRetires)
<1>1. ToolsInv => OneWriterPerVersion /\ CommitRetires
  BY DEF ToolsInv, TxInv
<1> QED
  BY <1>1, ToolsInvariant, PTL

-----------------------------------------------------------------------------
(* A step that moves the committed state of a locked graph is in the name of *)
(* the holder, or graph_rewrite_apply.                                       *)
LEMMA ShieldStep ==
  ASSUME ToolsInv, [ToolsNext]_toolVars, NEW g \in GraphIds,
         ActiveLock(g) # NoLock, states'[g] # states[g]
  PROVE  \E t \in TxIds :
           /\ snapshots'[t] # snapshots[t]
           /\ snapshots'[t].graphId = g
           /\ \/ snapshots'[t].owner = ActiveLock(g).holder
              \/ calls'[t].tool = "graph_rewrite_apply"
<1>1. TxInv /\ AuditInv /\ AuditInv'
  BY ToolsStepInv DEF ToolsInv
<1>2. ASSUME NEW t \in TxIds, OpenStep(t)
      PROVE  /\ snapshots'[t] # snapshots[t]
             /\ snapshots'[t].graphId = g
             /\ snapshots'[t].owner = ActiveLock(g).holder
  <2>1. PICK h \in GraphIds, version \in 1..MaxVersion, content \in Contents,
             owner \in Owners, ttl \in Ttls \cup {None}, tool \in Tools :
          MayMutate(h, owner) /\ OpenAndRecord(t, h, version, content, owner, ttl, tool)
    BY <1>2 DEF OpenStep, Tools
  <2> DEFINE audit == Pending(NewRecord(h, version, content, owner, ttl))
  <2>2. /\ t \notin openedTx /\ t \in openedTx'
        /\ states' = [states EXCEPT ![h] = Seated(h, version, content)]
        /\ snapshots' = [snapshots EXCEPT ![t] = audit]
    BY <2>1 DEF OpenAndRecord, Begin
  <2>3. audit.graphId = h /\ audit.owner = owner
    BY DEF Pending, NewRecord
  <2> HIDE DEF audit
  <2>4. snapshots'[t] = audit /\ snapshots'[t] # snapshots[t]
    BY <1>1, <2>2 DEF AuditInv, ToolsTypes, Session, OnRecord
  <2>5. ActiveLock(h) # NoLock => ActiveLock(h).holder = owner
    BY <2>1 DEF MayMutate
  <2> QED
    BY <1>1, <2>2, <2>3, <2>4, <2>5 DEF TxInv, TxTypeOK
<1>3. ASSUME NEW t \in TxIds, OneCallStep(t)
      PROVE  /\ snapshots'[t] # snapshots[t]
             /\ snapshots'[t].graphId = g
             /\ \/ snapshots'[t].owner = ActiveLock(g).holder
                \/ calls'[t].tool = "graph_rewrite_apply"
  <2>1. PICK h \in GraphIds, base \in Descriptor, owner \in Owners, tool \in Tools,
             edit \in [version : Version, content : Contents] \cup {None} :
          /\ tool # "graph_rewrite_apply" => MayMutate(h, owner)
          /\ OpenAndClose(t, h, base, owner, tool, edit)
    BY <1>3 DEF OneCallStep
  <2> DEFINE tx == NewRecord(h, base.version, base.content, owner, None)
             audit == Pending(tx)
  <2>2. /\ t \notin openedTx /\ t \in openedTx'
        /\ \E state : states' = [states EXCEPT ![h] = state]
    BY <2>1 DEF OpenAndClose, Publish, NewRecord
  <2>3. /\ \/ \E final : snapshots' = [snapshots EXCEPT ![t] = MarkCommitted(audit, final)]
           \/ snapshots' = [snapshots EXCEPT ![t] = MarkRolledBack(audit)]
        /\ \E changed \in BOOLEAN :
             calls' = [calls EXCEPT ![t] = [tool |-> tool, changed |-> changed]]
    BY <2>1 DEF OpenAndClose, Changes
  <2>4. /\ audit.graphId = h /\ audit.owner = owner
        /\ MarkRolledBack(audit).graphId = h /\ MarkRolledBack(audit).owner = owner
        /\ \A final : /\ MarkCommitted(audit, final).graphId = h
                      /\ MarkCommitted(audit, final).owner = owner
    BY DEF Pending, NewRecord, MarkCommitted, MarkRolledBack
  <2> HIDE DEF tx, audit
  <2>5. /\ snapshots'[t] # snapshots[t]
        /\ snapshots'[t].graphId = h /\ snapshots'[t].owner = owner
        /\ calls'[t].tool = tool
    BY <1>1, <2>2, <2>3, <2>4 DEF AuditInv, ToolsTypes, Session, OnRecord
  <2>6. h = g
    BY <1>1, <2>2 DEF TxInv, TxTypeOK
  <2> QED
    BY <2>1, <2>5, <2>6 DEF MayMutate
<1>4. ASSUME NEW t \in TxIds, CommitStep(t)
      PROVE  /\ snapshots'[t] # snapshots[t]
             /\ snapshots'[t].graphId = g
             /\ snapshots'[t].owner = ActiveLock(g).holder
  <2>1. PICK version \in Version, content \in Contents :
          /\ MayMutate(transactions[t].graphId, transactions[t].owner)
          /\ CommitAndRecord(t, version, content)
    BY <1>4 DEF CommitStep
  <2>2. /\ transactions[t] # NoTx
        /\ \E state : states' = [states EXCEPT ![transactions[t].graphId] = state]
        /\ \E final : snapshots' = [snapshots EXCEPT ![t] = MarkCommitted(snapshots[t], final)]
    BY <2>1 DEF CommitAndRecord, Commit, Publish, Active
  <2>3. /\ snapshots[t] \in AuditRecord /\ snapshots[t].state = "pending"
        /\ snapshots[t].graphId = transactions[t].graphId
        /\ snapshots[t].owner = transactions[t].owner
    BY <1>1, <2>2 DEF TxInv, RecordsGrounded, AuditInv, ToolsTypes, Session, OnRecord, Trail
  <2>4. \A final : /\ MarkCommitted(snapshots[t], final).graphId = snapshots[t].graphId
                   /\ MarkCommitted(snapshots[t], final).owner = snapshots[t].owner
                   /\ MarkCommitted(snapshots[t], final).state = "committed"
    BY <2>3 DEF MarkCommitted, AuditRecord
  <2>5. /\ snapshots'[t] # snapshots[t]
        /\ snapshots'[t].graphId = transactions[t].graphId
        /\ snapshots'[t].owner = transactions[t].owner
    BY <1>1, <2>2, <2>3, <2>4 DEF AuditInv, ToolsTypes
  <2>6. transactions[t].graphId = g
    BY <1>1, <2>2 DEF TxInv, TxTypeOK
  <2> QED
    BY <2>1, <2>5, <2>6 DEF MayMutate
<1>5. ASSUME NEW t \in TxIds, EditStep(t) \/ RetireStep(t) \/ AfterStep(t)
      PROVE  FALSE
  BY <1>5 DEF EditStep, SetWorkingCopy, RetireStep, Rollback, DropExpired, AfterStep, txVars
<1>6. ~IdleStep
  BY DEF IdleStep, txVars
<1> QED
  BY StepKinds, <1>2, <1>3, <1>4, <1>5, <1>6

(* A lock shields its graph from every tool but graph_rewrite_apply.         *)
THEOREM ToolsShield == ToolsSpec => LockShield
<1> DEFINE Shielded ==
      \A g \in GraphIds :
        ActiveLock(g) # NoLock /\ states'[g] # states[g] =>
          \E t \in TxIds :
            /\ snapshots'[t] # snapshots[t]
            /\ snapshots'[t].graphId = g
            /\ \/ snapshots'[t].owner = ActiveLock(g).holder
               \/ calls'[t].tool = "graph_rewrite_apply"
<1>1. ToolsInv /\ [ToolsNext]_toolVars => Shielded
  BY ShieldStep
<1>2. ToolsInv /\ [ToolsNext]_toolVars => [Shielded]_toolVars
  BY <1>1
<1>3. LockShield <=> [][Shielded]_toolVars
  BY PTL DEF LockShield
<1> HIDE DEF Shielded
<1> QED
  BY <1>2, <1>3, ToolsInvariant, PTL DEF ToolsSpec
=============================================================================
