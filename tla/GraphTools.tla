----------------------------- MODULE GraphTools -----------------------------
(***************************************************************************)
(* The MCP tools that read and write graphs, composing GraphLockManager,    *)
(* GraphTransactionManager and the part of ResourceRegistry that serves     *)
(* sc://graphs and sc://snapshots.                                          *)
(*                                                                          *)
(* Sessions (tx_begin, tx_apply, tx_commit, tx_rollback) span calls;       *)
(* graph_apply_change_set spans the await of its worker; every other tool  *)
(* opens and closes its transaction within one synchronous handler, and so *)
(* in one action.  The awaited append to the log that ends a restore can   *)
(* fail after the commit: it is an action of its own.  A refused call does *)
(* what its guards did first: RefusedCall and ExpiredCall.  Replaying a    *)
(* call by its idempotency key changes nothing.                            *)
(* A definition introduced as a mutant states a plausible mistake in the   *)
(* one below it; no action uses it.                                        *)
(***************************************************************************)
EXTENDS GraphLocks, GraphTransactions

CONSTANTS
  Canonical,   \* content -> the content with its attributes sorted
  NoAudit      \* no snapshot recorded for a transaction

VARIABLES
  snapshots,   \* transaction -> its record under sc://snapshots
  published,   \* graph -> version -> the content sc://graphs serves for it
  inFlight,    \* transaction -> what the handler that opened it awaits
  calls        \* history: transaction -> tool that opened it, change reported

toolVars == <<now, lockVars, txVars, snapshots, published, inFlight, calls>>

Tools == {"tx_begin", "graph_mutate", "graph_rewrite_apply", "graph_patch",
          "graph_batch_mutate", "graph_apply_change_set",
          "graph_snapshot_time_travel"}

Callers == Holders \cup {None}

AuditRecord ==
  [graphId : GraphIds, baseVersion : Version, owner : Owners,
   state : {"pending", "committed", "rolled_back"},
   final : [version : Version, content : Contents] \cup {None}]

ASSUME ToolsAssumption ==
  /\ Owners = Callers
  /\ Canonical \in [Contents -> Contents]
  /\ \A c \in ValidContents : Stamp[c] \in ValidContents /\ Canonical[c] \in ValidContents
  /\ NoAudit \notin AuditRecord
  /\ None \notin Contents \cup [version : Version, content : Contents]

(* The state of the tools is of its type, and a snapshot names a final       *)
(* version exactly while it is shown as committed.                           *)
ToolsTypeOK ==
  /\ LocksTypeOK
  /\ TxTypeOK
  /\ snapshots \in [TxIds -> AuditRecord \cup {NoAudit}]
  /\ \A t \in TxIds : snapshots[t] # NoAudit =>
       (snapshots[t].final # None <=> snapshots[t].state = "committed")
  /\ published \in [GraphIds -> [1..MaxVersion + 1 -> Contents \cup {None}]]
  /\ inFlight \in [TxIds -> {"idle", "apply", "dry_run", "append"}]
  /\ calls \in [TxIds -> [tool : Tools \cup {"none"}, changed : BOOLEAN]]

-----------------------------------------------------------------------------
(* handleGraphMutate sorts what it returns and moves the version by one when *)
(* the sorted descriptor has changed.                                        *)
Changes(old, new) == Canonical[old] # Canonical[new]
EditedVersion(version, old, new) == IF Changes(old, new) THEN version + 1 ELSE version

(* recordGraphSnapshot, markGraphSnapshotCommitted and ...RolledBack.        *)
(* Mutant: the final graph stays when the snapshot is rolled back.           *)
MarkRolledBackOnly(audit) == [audit EXCEPT !.state = "rolled_back"]
Pending(tx) ==
  [graphId |-> tx.graphId, baseVersion |-> tx.baseVersion, owner |-> tx.owner,
   state |-> "pending", final |-> None]
MarkCommitted(audit, state) ==
  [audit EXCEPT !.state = "committed",
                !.final = [version |-> state.version, content |-> state.content]]
MarkRolledBack(audit) == [audit EXCEPT !.state = "rolled_back", !.final = None]

(* recordGraphVersion: whatever the version held before is replaced.         *)
RecordVersion(g, state) ==
  published' = [published EXCEPT ![g][state.version] = state.content]

(* Transaction t commits and both resources learn of it.  Mutant: only       *)
(* sc://snapshots does.                                                      *)
CommitUnrecorded(t, version, content) ==
  LET tx == transactions[t]
      final == Committed(states[tx.graphId], tx, version, content)
  IN  /\ Commit(t, version, content)
      /\ snapshots' = [snapshots EXCEPT ![t] = MarkCommitted(@, final)]
      /\ UNCHANGED published

CommitAndRecord(t, version, content) ==
  LET tx == transactions[t]
      final == Committed(states[tx.graphId], tx, version, content)
  IN  /\ Commit(t, version, content)
      /\ snapshots' = [snapshots EXCEPT ![t] = MarkCommitted(@, final)]
      /\ RecordVersion(tx.graphId, final)

OpenAndRecord(t, g, version, content, owner, ttl, tool) ==
  /\ Begin(t, g, version, content, owner, ttl)
  /\ snapshots' = [snapshots EXCEPT
                     ![t] = Pending(NewRecord(g, version, content, owner, ttl))]
  /\ calls' = [calls EXCEPT ![t] = [tool |-> tool, changed |-> FALSE]]
  /\ UNCHANGED published

(* A handler that begins on a descriptor, edits it and commits the edit; it  *)
(* rolls back when the edit fails (None) or its commit is refused, and what  *)
(* begin did to the committed content stays.                                 *)
OpenAndClose(t, g, base, owner, tool, edit) ==
  LET tx == NewRecord(g, base.version, base.content, owner, None)
      seated == Seated(g, base.version, base.content)
      final == Committed(seated, tx, edit.version, edit.content)
  IN  /\ t \notin openedTx
      /\ MayBegin(g, base.version)
      /\ openedTx' = openedTx \cup {t}
      /\ UNCHANGED <<now, transactions>>
      /\ IF edit # None /\ Commits(seated, tx, edit.version, edit.content)
         THEN /\ Publish(t, tx, seated, edit.version, edit.content)
              /\ snapshots' = [snapshots EXCEPT ![t] = MarkCommitted(Pending(tx), final)]
              /\ RecordVersion(g, final)
              /\ calls' = [calls EXCEPT ![t] =
                   [tool |-> tool, changed |-> Changes(base.content, edit.content)]]
         ELSE /\ states' = [states EXCEPT ![g] = seated]
              /\ snapshots' = [snapshots EXCEPT ![t] = MarkRolledBack(Pending(tx))]
              /\ calls' = [calls EXCEPT ![t] = [tool |-> tool, changed |-> FALSE]]
              /\ UNCHANGED <<snapshotTrackers, commits, persisted, published>>

Descriptor == [version : 1..MaxVersion, content : Contents]

(* The descriptor getCommittedState returns. *)
IsCommitted(g, base) ==
  /\ states[g] # NoState
  /\ base = [version |-> states[g].version, content |-> states[g].content]

-----------------------------------------------------------------------------
ToolsInit ==
  /\ LocksInit /\ TxInit
  /\ snapshots = [t \in TxIds |-> NoAudit]
  /\ published = [g \in GraphIds |-> [v \in 1..MaxVersion + 1 |-> None]]
  /\ inFlight = [t \in TxIds |-> "idle"]
  /\ calls = [t \in TxIds |-> [tool |-> "none", changed |-> FALSE]]

GraphLock(g, h, ttl) ==
  /\ (\E l \in LockIds : Acquire(g, h, l, ttl)) \/ Reacquire(g, h, ttl)
  /\ UNCHANGED <<now, txVars, snapshots, published, inFlight, calls>>

GraphUnlock(l) ==
  /\ Release(l)
  /\ UNCHANGED <<now, txVars, snapshots, published, inFlight, calls>>

(* tx_begin on the caller's descriptor or on the committed one, valid either *)
(* way.                                                                      *)
TxBegin(t, g, base, owner, ttl) ==
  /\ base.content \in ValidContents
  /\ MayMutate(g, owner)
  /\ Prune(g)
  /\ OpenAndRecord(t, g, base.version, base.content, owner, ttl, "tx_begin")
  /\ UNCHANGED <<now, inFlight>>

(* tx_apply edits the working copy, whose version follows the edits.         *)
TxApply(t, target) ==
  LET tx == transactions[t] IN
  /\ Active(t)
  /\ tx.workingVersion <= MaxVersion
  /\ MayMutate(tx.graphId, tx.owner)
  /\ Prune(tx.graphId)
  /\ Canonical[target] \in ValidContents
  /\ SetWorkingCopy(t, EditedVersion(tx.workingVersion, tx.workingContent, target),
                    Canonical[target])
  /\ UNCHANGED <<now, snapshots, published, inFlight, calls>>

TxCommit(t) ==
  LET tx == transactions[t] IN
  /\ Active(t)
  /\ MayMutate(tx.graphId, tx.owner)
  /\ Prune(tx.graphId)
  /\ tx.workingContent \in ValidContents
  /\ CommitAndRecord(t, tx.workingVersion, tx.workingContent)
  /\ UNCHANGED <<now, inFlight, calls>>

(* tx_rollback asks nothing of the lock.                                     *)
TxRollback(t) ==
  /\ Rollback(t)
  /\ snapshots' = [snapshots EXCEPT ![t] = MarkRolledBack(@)]
  /\ UNCHANGED <<now, lockVars, published, inFlight, calls>>

(* A call naming an expired transaction; its snapshot stays pending.         *)
ExpiredCall(t) ==
  /\ DropExpired(t)
  /\ UNCHANGED <<now, lockVars, snapshots, published, inFlight, calls>>

-----------------------------------------------------------------------------
(* graph_mutate edits the descriptor the caller brings, which nothing has    *)
(* validated when begin makes it the committed content.                      *)
GraphMutate(t, g, base, target) ==
  /\ MayMutate(g, None)
  /\ Prune(g)
  /\ \E edit \in {None, [version |-> EditedVersion(base.version, base.content, target),
                         content |-> Canonical[target]]} :
       OpenAndClose(t, g, base, None, "graph_mutate", edit)
  /\ UNCHANGED inFlight

(* graph_rewrite_apply does the same by rules and never asks the lock        *)
(* manager; the version moves if and only if some rule applied.              *)
GraphRewriteApply(t, g, base, target) ==
  /\ \E edit \in {None,
                  [version |-> base.version, content |-> Canonical[base.content]],
                  [version |-> base.version + 1, content |-> Canonical[target]]} :
       OpenAndClose(t, g, base, None, "graph_rewrite_apply", edit)
  /\ UNCHANGED <<lockVars, inFlight>>

(* graph_patch leaves the version of the committed descriptor to commit.     *)
GraphPatch(t, g, base, owner, target) ==
  /\ IsCommitted(g, base)
  /\ MayMutate(g, owner)
  /\ Prune(g)
  /\ \E edit \in {None, [version |-> base.version, content |-> Canonical[target]]} :
       OpenAndClose(t, g, base, owner, "graph_patch", edit)
  /\ UNCHANGED inFlight

(* graph_batch_mutate is graph_mutate on the committed descriptor, and       *)
(* validates the outcome whether it changed or not.                          *)
GraphBatchMutate(t, g, base, owner, target) ==
  LET edited == [version |-> EditedVersion(base.version, base.content, target),
                 content |-> Canonical[target]]
  IN  /\ IsCommitted(g, base)
      /\ MayMutate(g, owner)
      /\ Prune(g)
      /\ \E edit \in {None} \cup (IF edited.content \in ValidContents THEN {edited} ELSE {}) :
           OpenAndClose(t, g, base, owner, "graph_batch_mutate", edit)
      /\ UNCHANGED inFlight

-----------------------------------------------------------------------------
(* graph_apply_change_set up to the await of its worker ...                  *)
ChangeSetBegin(t, g, base, owner, mode) ==
  /\ IsCommitted(g, base)
  /\ MayMutate(g, owner)
  /\ Prune(g)
  /\ OpenAndRecord(t, g, base.version, base.content, owner, None,
                   "graph_apply_change_set")
  /\ inFlight' = [inFlight EXCEPT ![t] = mode]
  /\ UNCHANGED now

(* ... and after it: the patched content, in the layout the patch left, is   *)
(* checked against the lock again and committed.  Mutant: it is not checked. *)
ChangeSetCommitUnchecked(t, patched) ==
  /\ inFlight[t] = "apply"
  /\ patched \in ValidContents
  /\ CommitAndRecord(t, snapshots[t].baseVersion, patched)
  /\ inFlight' = [inFlight EXCEPT ![t] = "idle"]
  /\ UNCHANGED <<now, lockVars, calls>>

ChangeSetCommit(t, patched) ==
  LET audit == snapshots[t] IN
  /\ inFlight[t] = "apply"
  /\ patched \in ValidContents
  /\ MayMutate(audit.graphId, audit.owner)
  /\ Prune(audit.graphId)
  /\ CommitAndRecord(t, audit.baseVersion, patched)
  /\ inFlight' = [inFlight EXCEPT ![t] = "idle"]
  /\ UNCHANGED <<now, calls>>

(* The handler's own rollback: when somebody else has retired the            *)
(* transaction it throws before the snapshot is marked.  Mutants: the        *)
(* snapshot is marked all the same; the transaction is forgotten.            *)
RetireBlindly(t) ==
  /\ IF Active(t) THEN Rollback(t) ELSE UNCHANGED txVars
  /\ snapshots' = [snapshots EXCEPT ![t] = MarkRolledBack(@)]

RetireOnPaper(t) ==
  /\ snapshots' = [snapshots EXCEPT ![t] = MarkRolledBack(@)]
  /\ UNCHANGED txVars

Retire(t) ==
  IF Active(t)
  THEN Rollback(t) /\ snapshots' = [snapshots EXCEPT ![t] = MarkRolledBack(@)]
  ELSE UNCHANGED <<txVars, snapshots>>

(* A dry run, an invalid outcome, a failed worker, or a commit that is       *)
(* refused.  Only the last has looked at the lock.                           *)
ChangeSetRollBack(t) ==
  /\ inFlight[t] \in {"apply", "dry_run"}
  /\ inFlight' = [inFlight EXCEPT ![t] = "idle"]
  /\ Retire(t)
  /\ \/ UNCHANGED lockVars
     \/ inFlight[t] = "apply" /\ Prune(snapshots[t].graphId)
  /\ UNCHANGED <<now, published, calls>>

(* graph_snapshot_time_travel commits the graph of a disk snapshot, taken by *)
(* this process or an earlier one, as the version after the committed one.   *)
TimeTravelRestore(t, g, base, content) ==
  /\ IsCommitted(g, base)
  /\ content \in ValidContents
  /\ MayMutate(g, None)
  /\ Prune(g)
  /\ OpenAndClose(t, g, base, None, "graph_snapshot_time_travel",
                  [version |-> base.version + 1, content |-> content])
  /\ inFlight' = [inFlight EXCEPT ![t] = "append"]

(* The append to the log that it awaits: a failure lands in the handler's    *)
(* catch, which marks the snapshot before it tries to roll back.             *)
RestoreLogged(t) ==
  /\ inFlight[t] = "append"
  /\ inFlight' = [inFlight EXCEPT ![t] = "idle"]
  /\ snapshots' \in {snapshots, [snapshots EXCEPT ![t] = MarkRolledBack(@)]}
  /\ UNCHANGED <<now, lockVars, txVars, published, calls>>

-----------------------------------------------------------------------------
(* A call the lock lets through and something else refuses (a version, a     *)
(* descriptor, an outcome) leaves what the lock manager pruned.  One that    *)
(* the lock refuses leaves nothing, and neither do the reads.                *)
RefusedCall(g) ==
  /\ Inspect(g)
  /\ UNCHANGED <<now, txVars, snapshots, published, inFlight, calls>>

ToolsTick ==
  Tick /\ UNCHANGED <<lockVars, txVars, snapshots, published, inFlight, calls>>

ToolsNext ==
  \/ ToolsTick
  \/ \E g \in GraphIds : RefusedCall(g)
  \/ \E g \in GraphIds, h \in Holders, ttl \in LockTtls : GraphLock(g, h, ttl)
  \/ \E l \in LockIds : GraphUnlock(l)
  \/ \E t \in TxIds, g \in GraphIds, base \in Descriptor :
       \/ \E owner \in Owners, ttl \in Ttls : TxBegin(t, g, base, owner, ttl)
       \/ \E owner \in Owners, mode \in {"apply", "dry_run"} :
            ChangeSetBegin(t, g, base, owner, mode)
       \/ \E target \in Contents :
            \/ GraphMutate(t, g, base, target)
            \/ GraphRewriteApply(t, g, base, target)
            \/ TimeTravelRestore(t, g, base, target)
            \/ \E owner \in Owners :
                 \/ GraphPatch(t, g, base, owner, target)
                 \/ GraphBatchMutate(t, g, base, owner, target)
  \/ \E t \in TxIds :
       \/ \E target \in Contents : TxApply(t, target) \/ ChangeSetCommit(t, target)
       \/ TxCommit(t)
       \/ TxRollback(t)
       \/ ExpiredCall(t)
       \/ ChangeSetRollBack(t)
       \/ RestoreLogged(t)

ToolsSpec == ToolsInit /\ [][ToolsNext]_toolVars

-----------------------------------------------------------------------------
(* While a graph is locked its committed descriptor changes only in the name *)
(* of the holder: not by a session opened before the lock was taken, nor by  *)
(* a change set whose worker answers after, nor by any one-call tool.        *)
(* graph_rewrite_apply is the exception: it takes no lock into account.      *)
LockShield ==
  [][\A g \in GraphIds :
       ActiveLock(g) # NoLock /\ states'[g] # states[g] =>
         \E t \in TxIds :
           /\ snapshots'[t] # snapshots[t]
           /\ snapshots'[t].graphId = g
           /\ \/ snapshots'[t].owner = ActiveLock(g).holder
              \/ calls'[t].tool = "graph_rewrite_apply"]_toolVars

(* sc://snapshots tells what became of each transaction: a live one is       *)
(* pending, a committed one names the version and content it produced, and   *)
(* one shown as anything else has committed nothing, whichever of the        *)
(* handler, another client or the clock retired it.  A restore whose log     *)
(* append fails is the exception: it is shown as rolled back.                *)
AuditTrail ==
  \A t \in TxIds : snapshots[t] # NoAudit =>
    LET audit == snapshots[t]
        mine == {c \in commits : c.txId = t}
    IN  /\ transactions[t] # NoTx => audit.state = "pending"
        /\ audit.state = "committed" =>
             IF mine = {} THEN audit.final.version = audit.baseVersion
             ELSE \A c \in mine : /\ c.graphId = audit.graphId
                                  /\ c.baseVersion = audit.baseVersion
                                  /\ audit.final = [version |-> c.baseVersion + 1,
                                                    content |-> c.content]
        /\ audit.state # "committed" /\ calls[t].tool # "graph_snapshot_time_travel" =>
             mine = {}

(* A transaction that is still live belongs to a session some client can     *)
(* finish or to a change set whose worker is still out: no handler leaves    *)
(* one behind on any of its failure paths.                                   *)
NoOrphanTransaction ==
  \A t \in TxIds : transactions[t] # NoTx =>
    calls[t].tool = "tx_begin" \/ inFlight[t] \in {"apply", "dry_run"}

(* sc://graphs follows the transaction manager: every version a commit       *)
(* produced can be read, and no version above the committed one can.         *)
PublishedFollowsHead ==
  \A g \in GraphIds :
    /\ \A c \in commits : c.graphId = g => published[g][c.baseVersion + 1] # None
    /\ \A v \in 1..MaxVersion + 1 :
         published[g][v] # None => states[g] # NoState /\ v <= states[g].version

-----------------------------------------------------------------------------
(* The comment on preview_version, "the optimistic version the graph would   *)
(* reach if committed", read on a session whose base is still the latest     *)
(* version: its valid working copy can be committed, at most one version     *)
(* further.                                                                  *)
PreviewReachable ==
  \A t \in TxIds :
    LET tx == transactions[t] IN
    /\ Active(t)
    /\ states[tx.graphId].version = tx.baseVersion
    /\ tx.workingContent \in ValidContents
    => Commits(states[tx.graphId], tx, tx.workingVersion, tx.workingContent)

(* docs/mcp-api.md on graph_batch_mutate: when every operation is a no-op    *)
(* (changed = false) the version stays the same.                             *)
BatchNoOpKeepsVersion ==
  \A t \in TxIds :
    /\ calls[t].tool = "graph_batch_mutate"
    /\ snapshots[t].state = "committed"
    /\ ~calls[t].changed
    => snapshots[t].final.version = snapshots[t].baseVersion
=============================================================================
