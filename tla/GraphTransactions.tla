------------------------- MODULE GraphTransactions -------------------------
(***************************************************************************)
(* GraphTransactionManager (graph/tx.ts): optimistic transactions over      *)
(* versioned graphs, with lazy expiry and the cadence of disk snapshots.    *)
(*                                                                          *)
(* A graph is a version and an opaque content; equality of contents is the  *)
(* JSON equality graphsEqual computes, so two layouts of one graph are two  *)
(* contents.  The write-ahead and operation logs are appended without being *)
(* awaited and never read back: they are left out.                          *)
(* A definition introduced as a mutant states a plausible mistake in the    *)
(* one below it; no action uses it.                                         *)
(***************************************************************************)
EXTENDS GraphContext

CONSTANTS
  Contents,        \* graph contents, in every layout
  ValidContents,   \* the contents assertValidGraph accepts
  Stamp,           \* content -> the content with its commit time in metadata
  TxIds,           \* identifiers randomUUID can return
  Owners,          \* transaction owners; None is an anonymous caller
  Ttls,            \* ttlMs arguments
  CommitInterval,  \* GraphSnapshotPolicy, each field an integer or None
  TimeInterval,
  NoState, NoTx,   \* absent entries
  MaxVersion       \* bound on versions, for model checking

ASSUME ContentAssumption ==
  /\ ValidContents \subseteq Contents
  /\ Stamp \in [Contents -> Contents]

ASSUME TxAssumption ==
  /\ Ttls \subseteq Int \cup {None}
  /\ CommitInterval \in Int \cup {None}
  /\ TimeInterval \in Int \cup {None}
  /\ MaxVersion \in Nat

VARIABLES
  states,            \* graph -> its committed state
  transactions,      \* transaction identifier -> its record while active
  snapshotTrackers,  \* graph -> when it was last handed to snapshotTake
  openedTx,          \* identifiers handed out so far
  commits,           \* history: the commits that changed a graph
  persisted          \* history: graph -> versions handed to snapshotTake

txVars == <<states, transactions, snapshotTrackers, openedTx, commits, persisted>>

Version == Nat \ {0}

GraphState == [version : Version, committedAt : Int, content : Contents]

TxRecord ==
  [graphId : GraphIds, baseVersion : Version, snapshot : Contents,
   workingVersion : Version, workingContent : Contents,
   owner : Owners, expiresAt : Int \cup {None}]

Tracker == [lastTakenAt : Nat, commitsSinceLast : Nat]

CommitRecord == [txId : TxIds, graphId : GraphIds, baseVersion : Version,
                 content : Contents]

ASSUME NullAssumption ==
  /\ NoState \notin GraphState
  /\ NoTx \notin TxRecord \cup [graph : GraphIds, version : Version]

(* The committed states, the records, the trackers and the histories are of  *)
(* their types; in particular a seeded graph has a commit time.              *)
TxTypeOK ==
  /\ now \in Nat \ {0}
  /\ states \in [GraphIds -> GraphState \cup {NoState}]
  /\ transactions \in [TxIds -> TxRecord \cup {NoTx}]
  /\ snapshotTrackers \in [GraphIds -> Tracker]
  /\ openedTx \subseteq TxIds
  /\ commits \subseteq CommitRecord
  /\ persisted \in [GraphIds -> SUBSET [version : Version, content : Contents]]

-----------------------------------------------------------------------------
(* begin accepts an unknown graph, or the version it already tracks ...      *)
(* Mutant: or any later one.                                                 *)
MayBeginAhead(g, version) == states[g] # NoState => states[g].version <= version
MayBegin(g, version) == states[g] # NoState => states[g].version = version

(* ... and takes the caller's descriptor as the committed content, whether   *)
(* the graph is new or known.  Mutant: a new graph has no commit time yet.   *)
SeatedUncommitted(g, version, content) ==
  IF states[g] = NoState
  THEN [version |-> version, committedAt |-> None, content |-> content]
  ELSE [states[g] EXCEPT !.content = content]
Seated(g, version, content) ==
  IF states[g] = NoState
  THEN [version |-> version, committedAt |-> now, content |-> content]
  ELSE [states[g] EXCEPT !.content = content]

NewRecord(g, version, content, owner, ttl) ==
  [graphId |-> g, baseVersion |-> version, snapshot |-> content,
   workingVersion |-> version, workingContent |-> content,
   owner |-> owner, expiresAt |-> Deadline(ttl)]

(* An access to an expired transaction (getActiveTransaction) deletes it.    *)
(* Mutant: the deadline is not looked at.                                    *)
ActiveEver(t) == transactions[t] # NoTx
Active(t) == transactions[t] # NoTx /\ ~Expired(transactions[t].expiresAt)

(* commit compares the descriptor it is given with the snapshot, version     *)
(* included, and replaces the version it began on.                           *)
Mutates(tx, version, content) ==
  version # tx.baseVersion \/ content # tx.snapshot

(* Mutant: the check against the committed version is dropped.               *)
CommitsStale(state, tx, version, content) ==
  /\ state # NoState
  /\ version \in {tx.baseVersion, tx.baseVersion + 1}
  /\ Mutates(tx, version, content) => content \in ValidContents

Commits(state, tx, version, content) ==
  /\ state # NoState
  /\ state.version = tx.baseVersion
  /\ version \in {tx.baseVersion, tx.baseVersion + 1}
  /\ Mutates(tx, version, content) => content \in ValidContents

(* The committed state after a commit: the next version, stamped, or what    *)
(* the state already was.                                                    *)
Committed(state, tx, version, content) ==
  IF Mutates(tx, version, content)
  THEN [version |-> tx.baseVersion + 1, committedAt |-> now, content |-> Stamp[content]]
  ELSE state

-----------------------------------------------------------------------------
AtLeast1(n) == IF n < 1 THEN 1 ELSE n

(* maybePersistSnapshot: the tracker counts the commit, then decides.        *)
(* Mutant: it decides before it counts.                                      *)
SnapshotDueLate(tracker) ==
  \/ tracker.lastTakenAt = 0
  \/ CommitInterval # None /\ tracker.commitsSinceLast >= AtLeast1(CommitInterval)
  \/ TimeInterval # None /\ now - tracker.lastTakenAt >= AtLeast1(TimeInterval)
SnapshotDue(tracker) ==
  \/ tracker.lastTakenAt = 0
  \/ CommitInterval # None /\ tracker.commitsSinceLast + 1 >= AtLeast1(CommitInterval)
  \/ TimeInterval # None /\ now - tracker.lastTakenAt >= AtLeast1(TimeInterval)

Tracked(tracker) ==
  IF SnapshotDue(tracker)
  THEN [lastTakenAt |-> now, commitsSinceLast |-> 0]
  ELSE [tracker EXCEPT !.commitsSinceLast = @ + 1]

(* Everything a successful commit writes but the retired record.  state is   *)
(* the graph's committed state when commit reads it.                         *)
Publish(t, tx, state, version, content) ==
  LET g == tx.graphId
      next == Committed(state, tx, version, content)
  IN  /\ states' = [states EXCEPT ![g] = next]
      /\ IF Mutates(tx, version, content)
         THEN /\ commits' = commits \cup
                   {[txId |-> t, graphId |-> g, baseVersion |-> tx.baseVersion,
                     content |-> next.content]}
              /\ snapshotTrackers' = [snapshotTrackers EXCEPT ![g] = Tracked(@)]
              /\ persisted' =
                   IF SnapshotDue(snapshotTrackers[g])
                   THEN [persisted EXCEPT ![g] =
                           @ \cup {[version |-> next.version, content |-> next.content]}]
                   ELSE persisted
         ELSE UNCHANGED <<commits, snapshotTrackers, persisted>>

-----------------------------------------------------------------------------
TxInit ==
  /\ ClockInit
  /\ states = [g \in GraphIds |-> NoState]
  /\ transactions = [t \in TxIds |-> NoTx]
  /\ snapshotTrackers = [g \in GraphIds |-> [lastTakenAt |-> 0, commitsSinceLast |-> 0]]
  /\ openedTx = {}
  /\ commits = {}
  /\ persisted = [g \in GraphIds |-> {}]

Begin(t, g, version, content, owner, ttl) ==
  /\ t \notin openedTx
  /\ MayBegin(g, version)
  /\ states' = [states EXCEPT ![g] = Seated(g, version, content)]
  /\ transactions' = [transactions EXCEPT
                        ![t] = NewRecord(g, version, content, owner, ttl)]
  /\ openedTx' = openedTx \cup {t}
  /\ UNCHANGED <<snapshotTrackers, commits, persisted>>

SetWorkingCopy(t, version, content) ==
  /\ Active(t)
  /\ transactions' = [transactions EXCEPT ![t].workingVersion = version,
                                          ![t].workingContent = content]
  /\ UNCHANGED <<states, snapshotTrackers, openedTx, commits, persisted>>

(* commit with the caller's descriptor; a refused commit leaves the record,  *)
(* so that the caller can still roll back.  Mutant: so does a commit that    *)
(* succeeds.                                                                 *)
CommitKept(t, version, content) ==
  /\ Active(t)
  /\ Commits(states[transactions[t].graphId], transactions[t], version, content)
  /\ Publish(t, transactions[t], states[transactions[t].graphId], version, content)
  /\ UNCHANGED <<transactions, openedTx>>

Commit(t, version, content) ==
  LET tx == transactions[t] IN
  /\ Active(t)
  /\ Commits(states[tx.graphId], tx, version, content)
  /\ Publish(t, tx, states[tx.graphId], version, content)
  /\ transactions' = [transactions EXCEPT ![t] = NoTx]
  /\ UNCHANGED openedTx

(* rollback only forgets the transaction: the committed content is left as   *)
(* it is, whatever begin did to it.                                          *)
Rollback(t) ==
  /\ Active(t)
  /\ transactions' = [transactions EXCEPT ![t] = NoTx]
  /\ UNCHANGED <<states, snapshotTrackers, openedTx, commits, persisted>>

(* Any call that names an expired transaction.                               *)
DropExpired(t) ==
  /\ transactions[t] # NoTx
  /\ Expired(transactions[t].expiresAt)
  /\ transactions' = [transactions EXCEPT ![t] = NoTx]
  /\ UNCHANGED <<states, snapshotTrackers, openedTx, commits, persisted>>

(* getWorkingCopy and describe of an active transaction, getCommittedState,  *)
(* countActiveTransactions: only the time of the last access moves, and      *)
(* nothing reads it.                                                         *)
Read == UNCHANGED txVars

TxNext ==
  \/ Tick /\ UNCHANGED txVars
  \/ /\ UNCHANGED now
     /\ \E t \in TxIds :
          \/ \E g \in GraphIds, v \in 1..MaxVersion, c \in Contents,
                o \in Owners, ttl \in Ttls : Begin(t, g, v, c, o, ttl)
          \/ \E v \in 1..MaxVersion, c \in Contents :
               SetWorkingCopy(t, v, c) \/ Commit(t, v, c)
          \/ Rollback(t)
          \/ DropExpired(t)
  \/ Read /\ UNCHANGED now

TxSpec == TxInit /\ [][TxNext]_<<now, txVars>>

-----------------------------------------------------------------------------
(* First committer wins: every version of a graph above the one it was       *)
(* seeded with was produced by exactly one transaction, and that transaction *)
(* had begun on the version just below; no commit is overwritten by one that *)
(* did not observe it, and none is lost from the chain.                      *)
OneWriterPerVersion ==
  \A c \in commits :
    /\ states[c.graphId] # NoState
    /\ c.baseVersion < states[c.graphId].version
    /\ \A d \in commits :
         d.graphId = c.graphId /\ d.baseVersion = c.baseVersion => d = c
    /\ \/ states[c.graphId].version = c.baseVersion + 1
       \/ \E d \in commits : /\ d.graphId = c.graphId
                             /\ d.baseVersion = c.baseVersion + 1

(* A transaction is retired once and for all: its identifier commits at most *)
(* once, and an active transaction has not committed, so a client that       *)
(* retries a commit cannot apply its working copy twice.                     *)
CommitRetires ==
  /\ \A c, d \in commits : c.txId = d.txId => c = d
  /\ \A c \in commits : transactions[c.txId] = NoTx

(* The disk snapshot lags the committed version by exactly the commits the   *)
(* tracker counts, fewer than CommitInterval of them, and all of them less   *)
(* than TimeInterval younger than the snapshot: a reload from disk loses no  *)
(* more than the policy allows.                                              *)
SnapshotLag ==
  \A g \in GraphIds :
    LET tracker == snapshotTrackers[g] IN
    IF tracker.lastTakenAt = 0
    THEN \A c \in commits : c.graphId # g
    ELSE /\ \E p \in persisted[g] :
              p.version + tracker.commitsSinceLast = states[g].version
         /\ CommitInterval # None =>
              tracker.commitsSinceLast < AtLeast1(CommitInterval)
         /\ TimeInterval # None /\ tracker.commitsSinceLast > 0 =>
              states[g].committedAt - tracker.lastTakenAt < AtLeast1(TimeInterval)

(* The committed version of a graph only moves by one, in the step that      *)
(* retires an unexpired transaction begun on the version being replaced, and *)
(* no two graphs move in one step.                                           *)
VersionsMoveByCommit ==
  [][\A g \in GraphIds :
       states[g] # NoState /\ states'[g].version # states[g].version =>
         /\ states'[g].version = states[g].version + 1
         /\ \E t \in TxIds :
              /\ transactions[t] # NoTx
              /\ ~Expired(transactions[t].expiresAt)
              /\ transactions[t].graphId = g
              /\ transactions[t].baseVersion = states[g].version
              /\ transactions'[t] = NoTx
         /\ \A h \in GraphIds \ {g} : states'[h] = states[h]]_<<now, txVars>>

(* Refinement: the manager implements the versioned store.  Its committed    *)
(* versions are the heads, its active records the views, and the commits     *)
(* that changed a graph the log; a commit without a change, a rollback and   *)
(* the loss of an expired record all close a view.                           *)
Store == INSTANCE VersionedStore WITH
  Graphs <- GraphIds,
  Txs    <- TxIds,
  Versions <- 1..MaxVersion,
  NoView <- NoTx,
  head   <- [g \in GraphIds |-> IF states[g] = NoState THEN 0 ELSE states[g].version],
  view   <- [t \in TxIds |->
               IF transactions[t] = NoTx THEN NoTx
               ELSE [graph |-> transactions[t].graphId,
                     version |-> transactions[t].baseVersion]],
  opened <- openedTx,
  log    <- {[graph |-> c.graphId, version |-> c.baseVersion + 1, tx |-> c.txId] :
               c \in commits}

(* Every behaviour of GraphTransactionManager is one of the versioned store: *)
(* a version is published only by a transaction that still sees the latest   *)
(* one, whatever mix of concurrent begins, commits, rollbacks and expiries   *)
(* led there.                                                                *)
ImplementsStore == Store!StoreSpec
=============================================================================
