----------------------- MODULE GraphTransactionsProofs -----------------------
(***************************************************************************)
(* The transaction manager for every number of graphs, transactions and     *)
(* contents, every validation and every snapshot policy: typing, first      *)
(* committer wins, the lag of disk snapshots, and the refinement of the     *)
(* versioned store.                                                         *)
(***************************************************************************)
EXTENDS GraphTransactions, TLAPS

vars == <<now, txVars>>

(* An active record names a known graph it has not overtaken, and belongs to *)
(* a transaction that was opened and has not committed.                      *)
RecordsGrounded ==
  /\ \A t \in TxIds : transactions[t] # NoTx =>
       /\ t \in openedTx
       /\ states[transactions[t].graphId] # NoState
       /\ transactions[t].baseVersion <= states[transactions[t].graphId].version
  /\ \A c \in commits : c.txId \in openedTx

TxInv == TxTypeOK /\ RecordsGrounded /\ OneWriterPerVersion /\ CommitRetires

(* A snapshot was taken of a graph as soon as it committed once.             *)
TrackersGrounded ==
  \A g \in GraphIds :
    IF snapshotTrackers[g].lastTakenAt = 0
    THEN snapshotTrackers[g].commitsSinceLast = 0
    ELSE states[g] # NoState

-----------------------------------------------------------------------------
LEMMA TxDeadlineType ==
  ASSUME now \in Int, NEW ttl \in Int \cup {None}
  PROVE  Deadline(ttl) \in Int \cup {None}
BY ClockAssumption DEF Deadline

(* The only two ways a committed state changes.                              *)
LEMMA SeatedType ==
  ASSUME TxTypeOK, NEW g \in GraphIds, NEW v \in Version, NEW c \in Contents,
         MayBegin(g, v)
  PROVE  /\ Seated(g, v, c) \in GraphState
         /\ Seated(g, v, c).version = v
         /\ states[g] # NoState => /\ Seated(g, v, c).version = states[g].version
                                   /\ Seated(g, v, c).committedAt = states[g].committedAt
BY DEF Seated, TxTypeOK, GraphState, MayBegin

LEMMA CommittedType ==
  ASSUME now \in Int, NEW state \in GraphState, NEW tx \in TxRecord,
         NEW v \in Version, NEW c \in Contents, Commits(state, tx, v, c)
  PROVE  /\ Committed(state, tx, v, c) \in GraphState
         /\ Committed(state, tx, v, c).version =
              IF Mutates(tx, v, c) THEN state.version + 1 ELSE state.version
         /\ ~Mutates(tx, v, c) => Committed(state, tx, v, c) = state
         /\ Mutates(tx, v, c) => Committed(state, tx, v, c).committedAt = now
BY ContentAssumption DEF Committed, Commits, GraphState, TxRecord, Version

LEMMA TrackedType ==
  ASSUME now \in Nat, NEW tracker \in Tracker
  PROVE  Tracked(tracker) \in Tracker
BY DEF Tracked, Tracker

-----------------------------------------------------------------------------
LEMMA TxInitInv == ASSUME TxInit PROVE TxInv /\ TrackersGrounded /\ SnapshotLag
<1>1. TxTypeOK
  BY DEF ClockInit, TxInit, TxTypeOK, Tracker
<1>2. RecordsGrounded /\ OneWriterPerVersion /\ CommitRetires
  BY DEF TxInit, RecordsGrounded, OneWriterPerVersion, CommitRetires
<1>3. TrackersGrounded /\ SnapshotLag
  BY DEF TxInit, TrackersGrounded, SnapshotLag
<1> QED
  BY <1>1, <1>2, <1>3 DEF TxInv

(* Seating a descriptor leaves the version of a known graph alone, and the   *)
(* record that is opened on it, if one is, begins on that version.           *)
LEMMA SeatInv ==
  ASSUME TxInv, now' = now, NEW t \in TxIds, NEW g \in GraphIds, NEW v \in Version,
         NEW seated \in GraphState, seated.version = v,
         states[g] # NoState => states[g].version = v,
         NEW record \in TxRecord \cup {NoTx},
         record # NoTx => record.graphId = g /\ record.baseVersion = v,
         t \notin openedTx,
         states' = [states EXCEPT ![g] = seated],
         transactions' = [transactions EXCEPT ![t] = record],
         openedTx' = openedTx \cup {t},
         UNCHANGED <<snapshotTrackers, commits, persisted>>
  PROVE  TxInv'
<1>1. seated # NoState
  BY NullAssumption
<1>2. TxTypeOK'
  BY DEF TxInv, TxTypeOK
<1>3. RecordsGrounded'
  BY <1>1 DEF TxInv, TxTypeOK, RecordsGrounded, TxRecord, GraphState, Version
<1>4. OneWriterPerVersion'
  BY <1>1 DEF TxInv, TxTypeOK, OneWriterPerVersion, CommitRecord
<1>5. CommitRetires'
  BY DEF TxInv, TxTypeOK, RecordsGrounded, CommitRetires
<1> QED
  BY <1>2, <1>3, <1>4, <1>5 DEF TxInv

(* begin seats its descriptor and opens a fresh transaction on it.           *)
LEMMA BeginInv ==
  ASSUME TxInv, now' = now, NEW t \in TxIds, NEW g \in GraphIds, NEW v \in Version,
         NEW c \in Contents, NEW owner \in Owners, NEW ttl \in Int \cup {None},
         Begin(t, g, v, c, owner, ttl)
  PROVE  TxInv'
<1> DEFINE seated == Seated(g, v, c)
           record == NewRecord(g, v, c, owner, ttl)
<1>1. /\ seated \in GraphState /\ seated.version = v
      /\ states[g] # NoState => states[g].version = v
  BY SeatedType DEF Begin, MayBegin, TxInv
<1>2. record \in TxRecord /\ record.graphId = g /\ record.baseVersion = v
  BY TxDeadlineType DEF NewRecord, TxRecord, TxInv, TxTypeOK
<1>3. /\ t \notin openedTx
      /\ states' = [states EXCEPT ![g] = seated]
      /\ transactions' = [transactions EXCEPT ![t] = record]
      /\ openedTx' = openedTx \cup {t}
      /\ UNCHANGED <<snapshotTrackers, commits, persisted>>
  BY DEF Begin
<1> HIDE DEF seated, record
<1> QED
  BY <1>1, <1>2, <1>3, SeatInv

(* A commit that changes the graph adds the only record of the version below *)
(* the new one.  state is what commit reads: the committed state, or what    *)
(* the begin of the same call has just made of it.                           *)
LEMMA PublishInv ==
  ASSUME TxInv, now' = now, NEW t \in TxIds, NEW tx \in TxRecord,
         NEW state \in GraphState, NEW v \in Version, NEW c \in Contents,
         states[tx.graphId] # NoState => states[tx.graphId].version = state.version,
         \A d \in commits : d.txId # t,
         Commits(state, tx, v, c), Publish(t, tx, state, v, c),
         transactions' = [transactions EXCEPT ![t] = NoTx],
         openedTx' = openedTx \cup {t}
  PROVE  TxInv'
<1> DEFINE g == tx.graphId
           next == Committed(state, tx, v, c)
           record == [txId |-> t, graphId |-> g, baseVersion |-> tx.baseVersion,
                      content |-> next.content]
<1>1. state.version = tx.baseVersion /\ g \in GraphIds
  BY DEF Commits, TxRecord
<1>2. /\ next \in GraphState
      /\ next.version = IF Mutates(tx, v, c) THEN state.version + 1 ELSE state.version
      /\ ~Mutates(tx, v, c) => next = state
  BY CommittedType DEF TxInv, TxTypeOK
<1>3. /\ states' = [states EXCEPT ![g] = next]
      /\ IF Mutates(tx, v, c) THEN commits' = commits \cup {record} ELSE UNCHANGED commits
  BY DEF Publish
<1>4. snapshotTrackers' \in [GraphIds -> Tracker]
  BY <1>1, TrackedType DEF Publish, TxInv, TxTypeOK
<1>5. persisted' \in [GraphIds -> SUBSET [version : Version, content : Contents]]
  <2>1. [version |-> next.version, content |-> next.content]
           \in [version : Version, content : Contents]
    BY <1>2 DEF GraphState
  <2> QED
    BY <1>1, <2>1 DEF Publish, TxInv, TxTypeOK
<1>6. record \in CommitRecord /\ record.txId = t /\ record.graphId = g
      /\ record.baseVersion = tx.baseVersion /\ tx.baseVersion \in Nat
  BY <1>2 DEF CommitRecord, GraphState, TxRecord, Version
<1>7. next # NoState
  BY <1>2, NullAssumption
<1>8. states[g] = NoState => \A d \in commits : d.graphId # g
  BY DEF TxInv, OneWriterPerVersion
<1> HIDE DEF next, record
<1>9. TxTypeOK'
  BY <1>1, <1>2, <1>3, <1>4, <1>5, <1>6 DEF TxInv, TxTypeOK
<1>10. RecordsGrounded'
  BY <1>1, <1>2, <1>3, <1>6, <1>7
  DEF TxInv, TxTypeOK, RecordsGrounded, TxRecord, GraphState, Version
<1>11. OneWriterPerVersion'
  <2>1. CASE Mutates(tx, v, c)
    <3>1. \A d \in commits : d.graphId = g => d.baseVersion < tx.baseVersion
      BY <1>1, <1>8 DEF TxInv, OneWriterPerVersion
    <3>2. /\ commits' = commits \cup {record}
          /\ states'[g].version = tx.baseVersion + 1 /\ states'[g] # NoState
          /\ \A h \in GraphIds \ {g} : states'[h] = states[h]
      BY <2>1, <1>1, <1>2, <1>3, <1>7 DEF TxInv, TxTypeOK
    <3>3. \A d \in commits : d.graphId \in GraphIds /\ d.baseVersion \in Nat
      BY DEF TxInv, TxTypeOK, CommitRecord, Version
    <3>4. \A d \in commits : d.graphId = g =>
            \/ d.baseVersion + 1 = tx.baseVersion
            \/ \E e \in commits : e.graphId = g /\ e.baseVersion = d.baseVersion + 1
      BY <1>1, <1>8 DEF TxInv, OneWriterPerVersion
    <3>5. record \in commits'
      BY <3>2
    <3>6. ASSUME NEW d \in commits'
          PROVE  /\ states'[d.graphId] # NoState
                 /\ d.baseVersion < states'[d.graphId].version
                 /\ \A e \in commits' :
                      e.graphId = d.graphId /\ e.baseVersion = d.baseVersion => e = d
                 /\ \/ states'[d.graphId].version = d.baseVersion + 1
                    \/ \E e \in commits' : /\ e.graphId = d.graphId
                                           /\ e.baseVersion = d.baseVersion + 1
      <4>1. CASE d = record
        BY <4>1, <1>6, <3>1, <3>2
      <4>2. CASE d \in commits /\ d.graphId = g
        BY <4>2, <1>6, <3>1, <3>2, <3>3, <3>4, <3>5 DEF TxInv, OneWriterPerVersion
      <4>3. CASE d \in commits /\ d.graphId # g
        BY <4>3, <1>6, <3>2, <3>3 DEF TxInv, OneWriterPerVersion
      <4> QED
        BY <3>2, <4>1, <4>2, <4>3
    <3> QED
      BY <3>6 DEF OneWriterPerVersion
  <2>2. CASE ~Mutates(tx, v, c)
    <3>1. commits' = commits /\ next = state
      BY <2>2, <1>2, <1>3
    <3> QED
      BY <3>1, <1>1, <1>3, <1>7, <1>8 DEF TxInv, TxTypeOK, OneWriterPerVersion, CommitRecord
  <2> QED
    BY <2>1, <2>2
<1>12. CommitRetires'
  BY <1>3, <1>6 DEF TxInv, TxTypeOK, CommitRetires, CommitRecord
<1> QED
  BY <1>9, <1>10, <1>11, <1>12 DEF TxInv

LEMMA CommitInv ==
  ASSUME TxInv, now' = now, NEW t \in TxIds, NEW v \in Version, NEW c \in Contents,
         Commit(t, v, c)
  PROVE  TxInv'
<1> DEFINE tx == transactions[t]
<1>1. tx \in TxRecord /\ tx # NoTx /\ tx.graphId \in GraphIds
  BY DEF Commit, Active, TxInv, TxTypeOK, TxRecord
<1>2. states[tx.graphId] \in GraphState
  BY <1>1 DEF Commit, Commits, TxInv, TxTypeOK
<1>3. (\A d \in commits : d.txId # t) /\ openedTx' = openedTx \cup {t}
  BY <1>1 DEF Commit, TxInv, RecordsGrounded, CommitRetires
<1> QED
  BY <1>1, <1>2, <1>3, PublishInv DEF Commit

(* Forgetting a record, or replacing its working copy, disturbs nothing.     *)
LEMMA RecordInv ==
  ASSUME TxInv, now' = now, NEW t \in TxIds,
         NEW record \in TxRecord \cup {NoTx},
         record # NoTx => /\ transactions[t] # NoTx
                          /\ record.graphId = transactions[t].graphId
                          /\ record.baseVersion = transactions[t].baseVersion,
         transactions' = [transactions EXCEPT ![t] = record],
         UNCHANGED <<states, snapshotTrackers, openedTx, commits, persisted>>
  PROVE  TxInv'
<1>1. TxTypeOK'
  BY DEF TxInv, TxTypeOK
<1>2. RecordsGrounded'
  BY DEF TxInv, TxTypeOK, RecordsGrounded
<1>3. OneWriterPerVersion'
  BY DEF TxInv, OneWriterPerVersion
<1>4. CommitRetires'
  BY DEF TxInv, TxTypeOK, CommitRetires, CommitRecord
<1> QED
  BY <1>1, <1>2, <1>3, <1>4 DEF TxInv

LEMMA SetWorkingCopyRecord ==
  ASSUME TxInv, NEW t \in TxIds, NEW v \in Version, NEW c \in Contents,
         SetWorkingCopy(t, v, c)
  PROVE  \E record \in TxRecord :
           /\ transactions[t] # NoTx
           /\ record.graphId = transactions[t].graphId
           /\ record.baseVersion = transactions[t].baseVersion
           /\ transactions' = [transactions EXCEPT ![t] = record]
<1> DEFINE record == [transactions[t] EXCEPT !.workingVersion = v, !.workingContent = c]
<1>1. transactions[t] \in TxRecord
  BY DEF SetWorkingCopy, Active, TxInv, TxTypeOK
<1>2. record \in TxRecord
      /\ record.graphId = transactions[t].graphId
      /\ record.baseVersion = transactions[t].baseVersion
  BY <1>1 DEF TxRecord
<1>3. transactions' = [transactions EXCEPT ![t] = record]
  BY DEF SetWorkingCopy
<1> QED
  BY <1>2, <1>3 DEF SetWorkingCopy, Active

LEMMA TxStepInv == ASSUME TxInv, [TxNext]_vars PROVE TxInv'
<1>0. 1..MaxVersion \subseteq Version /\ Ttls \subseteq Int \cup {None}
  BY TxAssumption DEF Version
<1>1. CASE (Tick \/ UNCHANGED now) /\ UNCHANGED txVars
  <2>1. now' \in Nat \ {0}
    BY <1>1 DEF TxInv, TxTypeOK, Tick
  <2> QED
    BY <1>1, <2>1 DEF TxInv, TxTypeOK, RecordsGrounded, OneWriterPerVersion,
                      CommitRetires, txVars
<1>2. ASSUME NEW t \in TxIds, NEW v \in 1..MaxVersion, NEW c \in Contents, now' = now,
             SetWorkingCopy(t, v, c)
      PROVE  TxInv'
  BY <1>0, <1>2, SetWorkingCopyRecord, RecordInv DEF SetWorkingCopy
<1>3. ASSUME NEW t \in TxIds, now' = now, Rollback(t) \/ DropExpired(t)
      PROVE  TxInv'
  BY <1>3, RecordInv DEF Rollback, DropExpired
<1> QED
  BY <1>0, <1>1, <1>2, <1>3, BeginInv, CommitInv DEF TxNext, Read, vars

-----------------------------------------------------------------------------
(* The manager keeps TxInv: the typing, what the records rest on, and the    *)
(* two invariants on commits.                                                *)
THEOREM TxInvariant == TxSpec => []TxInv
<1>1. TxInit => TxInv
  BY TxInitInv
<1>2. TxInv /\ [TxNext]_vars => TxInv'
  BY TxStepInv
<1> QED
  BY <1>1, <1>2, PTL DEF TxSpec, vars

(* The state of the manager stays well-typed.                                *)
THEOREM TxTyping == TxSpec => []TxTypeOK
<1>1. TxInv => TxTypeOK
  BY DEF TxInv
<1> QED
  BY <1>1, TxInvariant, PTL

(* First committer wins: versions form a chain with one writer each.         *)
THEOREM TxOneWriter == TxSpec => []OneWriterPerVersion
<1>1. TxInv => OneWriterPerVersion
  BY DEF TxInv
<1> QED
  BY <1>1, TxInvariant, PTL

(* No transaction commits twice or survives its commit.                      *)
THEOREM TxCommitRetires == TxSpec => []CommitRetires
<1>1. TxInv => CommitRetires
  BY DEF TxInv
<1> QED
  BY <1>1, TxInvariant, PTL

-----------------------------------------------------------------------------
(* The tracker and the disk snapshots move only with a commit that changes   *)
(* the graph; the interval policy is what SnapshotDue tests.                 *)
LagInv == TxInv /\ TrackersGrounded /\ SnapshotLag

(* SnapshotLag, for one graph.                                                *)
Lags(g) ==
  LET tracker == snapshotTrackers[g] IN
  IF tracker.lastTakenAt = 0
  THEN \A c \in commits : c.graphId # g
  ELSE /\ \E p \in persisted[g] :
            p.version + tracker.commitsSinceLast = states[g].version
       /\ CommitInterval # None =>
            tracker.commitsSinceLast < AtLeast1(CommitInterval)
       /\ TimeInterval # None /\ tracker.commitsSinceLast > 0 =>
            states[g].committedAt - tracker.lastTakenAt < AtLeast1(TimeInterval)

LEMMA LagKept ==
  ASSUME LagInv, UNCHANGED <<snapshotTrackers, commits, persisted>>,
         \A g \in GraphIds : states[g] # NoState =>
           /\ states'[g] # NoState
           /\ states'[g].version = states[g].version
           /\ states'[g].committedAt = states[g].committedAt
  PROVE  TrackersGrounded' /\ SnapshotLag'
BY DEF LagInv, TrackersGrounded, SnapshotLag

LEMMA CommitLag ==
  ASSUME LagInv, now' = now, NEW t \in TxIds, NEW v \in 1..MaxVersion, NEW c \in Contents,
         Commit(t, v, c)
  PROVE  TrackersGrounded' /\ SnapshotLag'
<1> DEFINE tx == transactions[t]
           g == tx.graphId
           state == states[g]
           next == Committed(state, tx, v, c)
           tracker == snapshotTrackers[g]
           taken == [version |-> next.version, content |-> next.content]
<1>1. v \in Version
  BY TxAssumption DEF Version
<1>2. tx \in TxRecord /\ g \in GraphIds
  BY DEF Commit, Active, LagInv, TxInv, TxTypeOK, TxRecord
<1>3. state \in GraphState /\ state # NoState /\ tracker \in Tracker /\ now \in Nat \ {0}
  BY <1>2 DEF Commit, Commits, LagInv, TxInv, TxTypeOK
<1>4. /\ next \in GraphState
      /\ next.version = IF Mutates(tx, v, c) THEN state.version + 1 ELSE state.version
      /\ ~Mutates(tx, v, c) => next = state
      /\ Mutates(tx, v, c) => next.committedAt = now
  BY <1>1, <1>2, <1>3, CommittedType DEF Commit
<1>5. states' = [states EXCEPT ![g] = next] /\ next # NoState
  BY <1>4, NullAssumption DEF Commit, Publish
<1>6. CASE ~Mutates(tx, v, c)
  <2>1. UNCHANGED <<snapshotTrackers, commits, persisted>> /\ states' = states
    BY <1>2, <1>3, <1>4, <1>5, <1>6 DEF Commit, Publish, LagInv, TxInv, TxTypeOK
  <2> QED
    BY <2>1, LagKept
<1>7. CASE Mutates(tx, v, c)
  <2>1. /\ snapshotTrackers' = [snapshotTrackers EXCEPT ![g] = Tracked(tracker)]
        /\ persisted' = IF SnapshotDue(tracker)
                        THEN [persisted EXCEPT ![g] = @ \cup {taken}] ELSE persisted
        /\ \E record : record.graphId = g /\ commits' = commits \cup {record}
    BY <1>7 DEF Commit, Publish
  <2>2. /\ snapshotTrackers'[g] = Tracked(tracker)
        /\ states'[g] = next
        /\ \A h \in GraphIds \ {g} : /\ snapshotTrackers'[h] = snapshotTrackers[h]
                                     /\ states'[h] = states[h]
                                     /\ persisted'[h] = persisted[h]
    BY <1>2, <1>5, <2>1 DEF LagInv, TxInv, TxTypeOK
  <2>3. ASSUME NEW h \in GraphIds \ {g} PROVE Lags(h)'
    <3>1. Lags(h)
      BY DEF LagInv, SnapshotLag, Lags
    <3>2. (\A x \in commits : x.graphId # h) => (\A x \in commits' : x.graphId # h)
      BY <2>1
    <3> QED
      BY <2>2, <3>1, <3>2 DEF Lags
  <2>4. CASE SnapshotDue(tracker)
    <3>1. Tracked(tracker) = [lastTakenAt |-> now, commitsSinceLast |-> 0]
      BY <2>4 DEF Tracked
    <3>2. taken \in persisted'[g] /\ taken.version + 0 = next.version
      BY <1>2, <1>4, <2>1, <2>4 DEF LagInv, TxInv, TxTypeOK, GraphState, Version
    <3>3. TrackersGrounded'
      BY <1>2, <1>3, <1>5, <2>2, <3>1 DEF LagInv, TrackersGrounded
    <3>4. CommitInterval # None => 0 < AtLeast1(CommitInterval)
      BY TxAssumption DEF AtLeast1
    <3>5. SnapshotLag'
      <4>1. ASSUME NEW h \in GraphIds, h = g PROVE Lags(h)'
        <5>1. /\ snapshotTrackers'[h] = [lastTakenAt |-> now, commitsSinceLast |-> 0]
              /\ taken \in persisted'[h] /\ taken.version + 0 = states'[h].version
              /\ now # 0
          BY <1>3, <2>2, <3>1, <3>2, <4>1
        <5> HIDE DEF taken
        <5> QED
          BY <3>4, <5>1 DEF Lags
      <4> QED
        BY <2>3, <4>1, Zenon DEF SnapshotLag, Lags
    <3> QED
      BY <3>3, <3>5
  <2>5. CASE ~SnapshotDue(tracker)
    <3>1. /\ Tracked(tracker) = [tracker EXCEPT !.commitsSinceLast = @ + 1]
          /\ persisted' = persisted
      BY <2>1, <2>5 DEF Tracked
    <3>2. /\ tracker.lastTakenAt # 0
          /\ CommitInterval # None => tracker.commitsSinceLast + 1 < AtLeast1(CommitInterval)
          /\ TimeInterval # None => now - tracker.lastTakenAt < AtLeast1(TimeInterval)
      BY <1>3, <2>5, TxAssumption DEF SnapshotDue, Tracker, AtLeast1
    <3>3. PICK p \in persisted[g] : p.version + tracker.commitsSinceLast = state.version
      BY <1>2, <3>2 DEF LagInv, SnapshotLag
    <3>4. p.version + (tracker.commitsSinceLast + 1) = next.version
      BY <1>2, <1>3, <1>4, <1>7, <3>3
      DEF LagInv, TxInv, TxTypeOK, GraphState, Tracker, Version
    <3>5. /\ Tracked(tracker).lastTakenAt = tracker.lastTakenAt
          /\ Tracked(tracker).commitsSinceLast = tracker.commitsSinceLast + 1
      BY <1>3, <3>1 DEF Tracker
    <3>6. TrackersGrounded'
      BY <1>2, <1>5, <2>2, <3>2, <3>5 DEF LagInv, TrackersGrounded
    <3>7. /\ \E q \in persisted'[g] :
               q.version + snapshotTrackers'[g].commitsSinceLast = states'[g].version
          /\ CommitInterval # None =>
               snapshotTrackers'[g].commitsSinceLast < AtLeast1(CommitInterval)
          /\ TimeInterval # None =>
               states'[g].committedAt - snapshotTrackers'[g].lastTakenAt < AtLeast1(TimeInterval)
      BY <1>4, <1>7, <2>2, <3>1, <3>2, <3>3, <3>4, <3>5
    <3>8. SnapshotLag'
      <4>1. ASSUME NEW h \in GraphIds, h = g PROVE Lags(h)'
        BY <2>2, <3>2, <3>5, <3>7, <4>1 DEF Lags
      <4> QED
        BY <2>3, <4>1, Zenon DEF SnapshotLag, Lags
    <3> QED
      BY <3>6, <3>8
  <2> QED
    BY <2>4, <2>5
<1> QED
  BY <1>6, <1>7

(* begin keeps the version and the commit time of a known graph.             *)
LEMMA BeginStates ==
  ASSUME TxInv, NEW t \in TxIds, NEW g \in GraphIds, NEW v \in 1..MaxVersion,
         NEW c \in Contents, NEW owner \in Owners, NEW ttl \in Ttls,
         Begin(t, g, v, c, owner, ttl)
  PROVE  \A h \in GraphIds : states[h] # NoState =>
           /\ states'[h] # NoState
           /\ states'[h].version = states[h].version
           /\ states'[h].committedAt = states[h].committedAt
<1>1. v \in Version
  BY TxAssumption DEF Version
<1>2. /\ Seated(g, v, c) # NoState
      /\ states[g] # NoState => /\ Seated(g, v, c).version = states[g].version
                                /\ Seated(g, v, c).committedAt = states[g].committedAt
  BY <1>1, SeatedType, NullAssumption DEF Begin, TxInv
<1> QED
  BY <1>2 DEF Begin, TxInv, TxTypeOK

LEMMA LagStep == ASSUME LagInv, [TxNext]_vars PROVE LagInv'
<1>1. TxInv'
  BY TxStepInv DEF LagInv
<1>2. ASSUME UNCHANGED txVars
      PROVE  TrackersGrounded' /\ SnapshotLag'
  BY <1>2, LagKept DEF txVars
<1>3. ASSUME NEW t \in TxIds, NEW v \in 1..MaxVersion, NEW c \in Contents,
             SetWorkingCopy(t, v, c)
      PROVE  TrackersGrounded' /\ SnapshotLag'
  BY <1>3, LagKept DEF SetWorkingCopy
<1>4. ASSUME NEW t \in TxIds, Rollback(t) \/ DropExpired(t)
      PROVE  TrackersGrounded' /\ SnapshotLag'
  BY <1>4, LagKept DEF Rollback, DropExpired
<1>5. ASSUME NEW t \in TxIds, NEW g \in GraphIds, NEW v \in 1..MaxVersion,
             NEW c \in Contents, NEW owner \in Owners, NEW ttl \in Ttls,
             Begin(t, g, v, c, owner, ttl)
      PROVE  TrackersGrounded' /\ SnapshotLag'
  <2>1. UNCHANGED <<snapshotTrackers, commits, persisted>>
    BY <1>5 DEF Begin
  <2> QED
    BY <1>5, <2>1, BeginStates, LagKept DEF LagInv
<1>6. TrackersGrounded' /\ SnapshotLag'
  BY <1>2, <1>3, <1>4, <1>5, CommitLag DEF TxNext, Read, vars
<1> QED
  BY <1>1, <1>6 DEF LagInv

(* Disk snapshots lag the committed version by what the policy allows.       *)
THEOREM TxSnapshotLag == TxSpec => []SnapshotLag
<1>1. TxInit => LagInv
  BY TxInitInv DEF LagInv
<1>2. LagInv /\ [TxNext]_vars => LagInv'
  BY LagStep
<1>3. LagInv => SnapshotLag
  BY DEF LagInv
<1> QED
  BY <1>1, <1>2, <1>3, PTL DEF TxSpec, vars

-----------------------------------------------------------------------------
(* A step that moves a version is a commit.                                  *)
LEMMA VersionStep ==
  ASSUME TxInv, [TxNext]_vars, NEW g \in GraphIds,
         states[g] # NoState, states'[g].version # states[g].version
  PROVE  /\ states'[g].version = states[g].version + 1
         /\ \E t \in TxIds :
              /\ transactions[t] # NoTx
              /\ ~Expired(transactions[t].expiresAt)
              /\ transactions[t].graphId = g
              /\ transactions[t].baseVersion = states[g].version
              /\ transactions'[t] = NoTx
         /\ \A h \in GraphIds \ {g} : states'[h] = states[h]
<1>1. ~UNCHANGED states
  OBVIOUS
<1>2. ASSUME NEW t \in TxIds, NEW h \in GraphIds, NEW v \in 1..MaxVersion,
             NEW c \in Contents, NEW owner \in Owners, NEW ttl \in Ttls,
             Begin(t, h, v, c, owner, ttl)
      PROVE  FALSE
  BY <1>2, BeginStates
<1>3. PICK t \in TxIds, v \in 1..MaxVersion, c \in Contents : now' = now /\ Commit(t, v, c)
  BY <1>1, <1>2 DEF TxNext, vars, txVars, Read, SetWorkingCopy, Rollback, DropExpired
<1> DEFINE tx == transactions[t]
           state == states[tx.graphId]
           next == Committed(state, tx, v, c)
<1>4. tx \in TxRecord /\ tx.graphId \in GraphIds /\ v \in Version
  BY <1>3, TxAssumption DEF Commit, Active, TxInv, TxTypeOK, TxRecord, Version
<1>5. state \in GraphState /\ state.version = tx.baseVersion
  BY <1>3, <1>4 DEF Commit, Commits, TxInv, TxTypeOK
<1>6. /\ next.version = IF Mutates(tx, v, c) THEN state.version + 1 ELSE state.version
      /\ states' = [states EXCEPT ![tx.graphId] = next]
      /\ transactions'[t] = NoTx
  BY <1>3, <1>4, <1>5, CommittedType DEF Commit, Publish, TxInv, TxTypeOK
<1> HIDE DEF next
<1>7. tx.graphId = g
  BY <1>4, <1>6 DEF TxInv, TxTypeOK
<1> QED
  BY <1>3, <1>4, <1>5, <1>6, <1>7 DEF Commit, Active, TxInv, TxTypeOK

(* Versions move one at a time, each by the transaction that saw the one     *)
(* before.                                                                   *)
THEOREM TxVersionsMove == TxSpec => VersionsMoveByCommit
<1> DEFINE Moves ==
      \A g \in GraphIds :
        states[g] # NoState /\ states'[g].version # states[g].version =>
          /\ states'[g].version = states[g].version + 1
          /\ \E t \in TxIds :
               /\ transactions[t] # NoTx
               /\ ~Expired(transactions[t].expiresAt)
               /\ transactions[t].graphId = g
               /\ transactions[t].baseVersion = states[g].version
               /\ transactions'[t] = NoTx
          /\ \A h \in GraphIds \ {g} : states'[h] = states[h]
<1>1. TxInv /\ [TxNext]_vars => Moves
  BY VersionStep
<1>2. TxInv /\ [TxNext]_vars => [Moves]_<<now, txVars>>
  BY <1>1
<1>3. VersionsMoveByCommit <=> [][Moves]_<<now, txVars>>
  BY PTL DEF VersionsMoveByCommit
<1> HIDE DEF Moves
<1> QED
  BY <1>2, <1>3, TxInvariant, PTL DEF TxSpec, vars

-----------------------------------------------------------------------------
(* Refinement.  head, view and log are the refinement mapping.               *)
Head == [g \in GraphIds |-> IF states[g] = NoState THEN 0 ELSE states[g].version]
View == [t \in TxIds |->
           IF transactions[t] = NoTx THEN NoTx
           ELSE [graph |-> transactions[t].graphId,
                 version |-> transactions[t].baseVersion]]
Log == {[graph |-> c.graphId, version |-> c.baseVersion + 1, tx |-> c.txId] : c \in commits}

LEMMA ViewRetired ==
  ASSUME TxInv, NEW t \in TxIds, transactions[t] # NoTx,
         transactions' = [transactions EXCEPT ![t] = NoTx]
  PROVE  /\ View[t] # NoTx
         /\ View' = [View EXCEPT ![t] = NoTx]
<1>1. transactions[t] \in TxRecord
  BY DEF TxInv, TxTypeOK
<1>2. View[t] = [graph |-> transactions[t].graphId, version |-> transactions[t].baseVersion]
  BY DEF View
<1>3. View[t] \in [graph : GraphIds, version : Version]
  BY <1>1, <1>2 DEF TxRecord
<1>4. View' = [View EXCEPT ![t] = NoTx]
  BY DEF View, TxInv, TxTypeOK
<1> QED
  BY <1>3, <1>4, NullAssumption

LEMMA CloseRefines ==
  ASSUME TxInv, NEW t \in TxIds, transactions[t] # NoTx,
         transactions' = [transactions EXCEPT ![t] = NoTx],
         UNCHANGED <<states, openedTx, commits>>
  PROVE  Store!StoreNext
<1>1. View[t] # NoTx /\ View' = [View EXCEPT ![t] = NoTx]
  BY ViewRetired
<1>2. Head' = Head /\ Log' = Log
  BY DEF Head, Log
<1>3. Store!Close(t)
  BY <1>1, <1>2 DEF Store!Close, Head, View, Log
<1> QED
  BY <1>3 DEF Store!StoreNext

LEMMA BeginRefines ==
  ASSUME TxInv, NEW t \in TxIds, NEW g \in GraphIds, NEW v \in 1..MaxVersion,
         NEW c \in Contents, NEW owner \in Owners, NEW ttl \in Ttls,
         Begin(t, g, v, c, owner, ttl)
  PROVE  Store!StoreNext
<1> DEFINE seated == Seated(g, v, c)
           record == NewRecord(g, v, c, owner, ttl)
<1>1. v \in Version
  BY TxAssumption DEF Version
<1>2. /\ seated \in GraphState /\ seated.version = v /\ seated # NoState
      /\ states[g] # NoState => states[g].version = v
  BY <1>1, SeatedType, NullAssumption DEF Begin, TxInv, MayBegin
<1>3. /\ record \in TxRecord /\ record # NoTx
      /\ record.graphId = g /\ record.baseVersion = v
  BY <1>1, TxDeadlineType, TxAssumption, NullAssumption
  DEF NewRecord, TxRecord, TxInv, TxTypeOK
<1>4. /\ t \notin openedTx
      /\ states' = [states EXCEPT ![g] = seated]
      /\ transactions' = [transactions EXCEPT ![t] = record]
      /\ openedTx' = openedTx \cup {t} /\ commits' = commits
  BY DEF Begin
<1> HIDE DEF seated, record
<1>5. Head[g] \in {0, v} /\ Head' = [Head EXCEPT ![g] = v]
  BY <1>2, <1>4 DEF Head, TxInv, TxTypeOK
<1>6. View' = [View EXCEPT ![t] = [graph |-> g, version |-> v]]
  BY <1>3, <1>4 DEF View, TxInv, TxTypeOK
<1>7. Log' = Log
  BY <1>4 DEF Log
<1>8. Store!Open(t, g, v)
  BY <1>4, <1>5, <1>6, <1>7 DEF Store!Open, Head, View, Log
<1> QED
  BY <1>8 DEF Store!StoreNext

LEMMA CommitRefines ==
  ASSUME TxInv, NEW t \in TxIds, NEW v \in 1..MaxVersion, NEW c \in Contents,
         Commit(t, v, c)
  PROVE  Store!StoreNext
<1> DEFINE tx == transactions[t]
           g == tx.graphId
           state == states[g]
           next == Committed(state, tx, v, c)
           record == [txId |-> t, graphId |-> g, baseVersion |-> tx.baseVersion,
                      content |-> next.content]
<1>1. tx \in TxRecord /\ tx # NoTx /\ g \in GraphIds /\ v \in Version
  BY TxAssumption DEF Commit, Active, TxInv, TxTypeOK, TxRecord, Version
<1>2. state \in GraphState /\ state # NoState /\ state.version = tx.baseVersion
  BY <1>1 DEF Commit, Commits, TxInv, TxTypeOK
<1>3. /\ next \in GraphState /\ next # NoState
      /\ next.version = IF Mutates(tx, v, c) THEN state.version + 1 ELSE state.version
      /\ ~Mutates(tx, v, c) => next = state
  BY <1>1, <1>2, CommittedType, NullAssumption DEF Commit, TxInv, TxTypeOK
<1>4. /\ states' = [states EXCEPT ![g] = next]
      /\ transactions' = [transactions EXCEPT ![t] = NoTx]
      /\ openedTx' = openedTx
      /\ IF Mutates(tx, v, c) THEN commits' = commits \cup {record} ELSE UNCHANGED commits
  BY DEF Commit, Publish
<1>5. CASE ~Mutates(tx, v, c)
  <2>1. states' = states
    BY <1>1, <1>2, <1>3, <1>4, <1>5 DEF TxInv, TxTypeOK
  <2> QED
    BY <1>1, <1>4, <1>5, <2>1, CloseRefines
<1>6. CASE Mutates(tx, v, c)
  <2>1. /\ View[t] # NoTx /\ View' = [View EXCEPT ![t] = NoTx]
        /\ View[t] = [graph |-> g, version |-> tx.baseVersion]
    BY <1>1, <1>4, ViewRetired DEF View
  <2>2. /\ record.graphId = g /\ record.baseVersion = tx.baseVersion /\ record.txId = t
    OBVIOUS
  <2> HIDE DEF next, record
  <2>3. Head[g] = tx.baseVersion /\ Head' = [Head EXCEPT ![g] = tx.baseVersion + 1]
    BY <1>1, <1>2, <1>3, <1>4, <1>6 DEF Head, TxInv, TxTypeOK
  <2>4. Log' = Log \cup {[graph |-> g, version |-> tx.baseVersion + 1, tx |-> t]}
    BY <1>4, <1>6, <2>2 DEF Log
  <2>5. Store!PublishNext(t)
    BY <1>4, <2>1, <2>3, <2>4 DEF Store!PublishNext, Head, View, Log
  <2> QED
    BY <2>5 DEF Store!StoreNext
<1> QED
  BY <1>5, <1>6

LEMMA RefinementStep ==
  ASSUME TxInv, [TxNext]_vars
  PROVE  [Store!StoreNext]_(Store!storeVars)
<1>1. ASSUME UNCHANGED txVars
      PROVE  UNCHANGED Store!storeVars
  BY <1>1 DEF Store!storeVars, txVars
<1>2. ASSUME NEW t \in TxIds, NEW v \in 1..MaxVersion, NEW c \in Contents,
             SetWorkingCopy(t, v, c)
      PROVE  UNCHANGED Store!storeVars
  <2>1. PICK record \in TxRecord :
          /\ transactions[t] # NoTx
          /\ record.graphId = transactions[t].graphId
          /\ record.baseVersion = transactions[t].baseVersion
          /\ transactions' = [transactions EXCEPT ![t] = record]
    BY <1>2, SetWorkingCopyRecord, TxAssumption DEF Version
  <2>2. View' = View
    BY <2>1, NullAssumption DEF View, TxInv, TxTypeOK
  <2>3. UNCHANGED <<states, openedTx, commits>>
    BY <1>2 DEF SetWorkingCopy
  <2> QED
    BY <2>2, <2>3 DEF Store!storeVars, View
<1>3. ASSUME NEW t \in TxIds, Rollback(t) \/ DropExpired(t)
      PROVE  Store!StoreNext
  BY <1>3, CloseRefines DEF Rollback, DropExpired, Active
<1> QED
  BY <1>1, <1>2, <1>3, BeginRefines, CommitRefines DEF TxNext, Read, vars

(* GraphTransactionManager implements the versioned store.                   *)
THEOREM TxRefinement == TxSpec => ImplementsStore
<1>1. TxInit => Store!StoreInit
  BY DEF TxInit, Store!StoreInit
<1>2. TxInv /\ [TxNext]_vars => [Store!StoreNext]_(Store!storeVars)
  BY RefinementStep
<1> QED
  BY <1>1, <1>2, TxInvariant, PTL DEF TxSpec, vars, ImplementsStore, Store!StoreSpec
=============================================================================
