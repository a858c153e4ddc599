-------------------------- MODULE GraphLocksProofs --------------------------
(***************************************************************************)
(* The lock manager keeps its promises for every number of graphs, holders, *)
(* identifiers and time-to-live values.  Exclusion is not inductive: a lease *)
(* is protected because the identifier index still holds it, and the        *)
(* identifier index because it agrees with the graph index, which has one   *)
(* entry per graph.                                                         *)
(***************************************************************************)
EXTENDS GraphLocks, TLAPS

(* The manager holds the last snapshot it gave out, and every unexpired one. *)
LeasesFiled ==
  /\ \A l \in LockIds : locksById[l] # NoLock =>
       leases[l] = locksById[l] /\ l \in issuedLocks
  /\ \A l \in LockIds : Live(leases[l]) => locksById[l] = leases[l]

LockInv == LocksTypeOK /\ IndexesAgree /\ LeasesFiled

-----------------------------------------------------------------------------
(* normaliseTtl and computeExpiry stay within the types of a lock.           *)
LEMMA DeadlineType ==
  ASSUME now \in Int, NEW ttl \in 1..MaxTtl \cup {None}
  PROVE  Deadline(ttl) \in Int \cup {None}
BY ClockAssumption, LockAssumption DEF Deadline

LEMMA NormaliseTtlType ==
  ASSUME NEW ttl \in Int \cup {None}
  PROVE  NormaliseTtl(ttl) \in 1..MaxTtl \cup {None}
BY LockAssumption DEF NormaliseTtl

(* Refreshing a lock moves its deadline and nothing that identifies it.      *)
LEMMA RenewedLock ==
  ASSUME now \in Int, NEW lock \in Lock, NEW ttl \in LockTtls
  PROVE  /\ Renewed(lock, ttl) \in Lock
         /\ Renewed(lock, ttl).lockId = lock.lockId
         /\ Renewed(lock, ttl).graphId = lock.graphId
         /\ Renewed(lock, ttl).holder = lock.holder
<1> DEFINE effective == IF NormaliseTtl(ttl) = None THEN lock.ttl ELSE NormaliseTtl(ttl)
<1>1. ttl \in Int \cup {None}
  BY LockAssumption
<1>2. effective \in 1..MaxTtl \cup {None}
  BY <1>1, NormaliseTtlType DEF Lock
<1>3. Deadline(effective) \in Int \cup {None}
  BY <1>2, DeadlineType
<1>4. Renewed(lock, ttl) = [lock EXCEPT !.ttl = effective, !.expiresAt = Deadline(effective)]
  BY DEF Renewed
<1> HIDE DEF effective
<1> QED
  BY <1>2, <1>3, <1>4 DEF Lock

-----------------------------------------------------------------------------
(* Filing a lock of graph g: enough that the identifiers of g's previous     *)
(* lock, and of no other, are given up.                                      *)
LEMMA FileKeepsInv ==
  ASSUME LockInv, NEW lock \in Lock, NEW byId \in [LockIds -> Lock \cup {NoLock}],
         File(byId, lock), now' = now,
         issuedLocks' = issuedLocks \cup {lock.lockId},
         \A l \in LockIds \ {lock.lockId} :
           \/ byId[l] = locksById[l] /\ (byId[l] # NoLock => byId[l].graphId # lock.graphId)
           \/ byId[l] = NoLock /\ ~Live(locksById[l]),
         \A g \in GraphIds \ {lock.graphId} : locksByGraphId[g] # NoLock =>
           locksByGraphId[g].lockId # lock.lockId /\ byId[locksByGraphId[g].lockId] = locksByGraphId[g]
  PROVE  LockInv'
<1> lock.lockId \in LockIds /\ lock.graphId \in GraphIds /\ lock # NoLock
  BY NoLockAssumption DEF Lock
<1>1. LocksTypeOK'
  BY DEF LockInv, LocksTypeOK, File
<1>2. IndexesAgree'
  BY DEF LockInv, LocksTypeOK, IndexesAgree, File
<1>3. LeasesFiled'
  BY DEF LockInv, LocksTypeOK, LeasesFiled, File, Live, Expired
<1> QED
  BY <1>1, <1>2, <1>3 DEF LockInv

(* Pruning gives up an expired lock, whose lease is no longer live.          *)
LEMMA PruneKeepsInv ==
  ASSUME LockInv, NEW g \in GraphIds, Prune(g), now' = now
  PROVE  LockInv'
<1>1. LocksTypeOK'
  BY DEF LockInv, LocksTypeOK, Prune, ActiveLock, PrunedById
<1>2. IndexesAgree'
  <2>1. CASE Live(locksByGraphId[g]) \/ locksByGraphId[g] = NoLock
    BY <2>1 DEF LockInv, LocksTypeOK, IndexesAgree, Prune, ActiveLock, PrunedById, Live
  <2>2. CASE ~Live(locksByGraphId[g]) /\ locksByGraphId[g] # NoLock
    BY <2>2 DEF LockInv, LocksTypeOK, IndexesAgree, Prune, ActiveLock, PrunedById, Lock
  <2> QED
    BY <2>1, <2>2
<1>3. LeasesFiled'
  BY DEF LockInv, LocksTypeOK, IndexesAgree, LeasesFiled, Prune, PrunedById, Live, Expired, Lock
<1> QED
  BY <1>1, <1>2, <1>3 DEF LockInv

-----------------------------------------------------------------------------
LEMMA LocksInitInv == ASSUME LocksInit PROVE LockInv
BY DEF ClockInit, LocksInit, LockInv, LocksTypeOK, IndexesAgree, LeasesFiled, Live

LEMMA LocksStepInv ==
  ASSUME LockInv, [LocksNext]_<<now, lockVars>>
  PROVE  LockInv'
<1>1. CASE Tick /\ UNCHANGED lockVars
  <2>1. now \in Int /\ now' = now + 1
    BY <1>1 DEF LockInv, LocksTypeOK, Tick
  <2>2. LocksTypeOK' /\ IndexesAgree'
    BY <1>1, <2>1 DEF LockInv, LocksTypeOK, IndexesAgree, lockVars
  <2>3. ASSUME NEW l \in LockIds, Live(leases[l])'  PROVE Live(leases[l])
    <3>1. leases' = leases
      BY <1>1 DEF lockVars
    <3>2. leases[l] # NoLock /\ ~(leases[l].expiresAt # None /\ leases[l].expiresAt <= now + 1)
      BY <2>1, <2>3, <3>1 DEF Live, Expired
    <3>3. leases[l] \in Lock
      BY <3>2 DEF LockInv, LocksTypeOK
    <3> QED
      BY <2>1, <3>2, <3>3 DEF Live, Expired, Lock
  <2>4. LeasesFiled'
    BY <1>1, <2>3 DEF LockInv, LeasesFiled, lockVars
  <2> QED
    BY <2>2, <2>4 DEF LockInv
<1>2. ASSUME NEW g \in GraphIds, NEW h \in Holders, NEW l \in LockIds, NEW ttl \in LockTtls,
             now' = now, Acquire(g, h, l, ttl)
      PROVE  LockInv'
  <2> DEFINE lock == [lockId |-> l, graphId |-> g, holder |-> h,
                      ttl |-> NormaliseTtl(ttl), expiresAt |-> Deadline(NormaliseTtl(ttl))]
  <2>1. lock \in Lock
    <3>1. NormaliseTtl(ttl) \in 1..MaxTtl \cup {None}
      BY LockAssumption, NormaliseTtlType
    <3>2. Deadline(NormaliseTtl(ttl)) \in Int \cup {None}
      BY <3>1, DeadlineType DEF LockInv, LocksTypeOK
    <3> QED
      BY <3>1, <3>2 DEF Lock
  <2>2. lock.lockId = l /\ lock.graphId = g
    OBVIOUS
  <2>3. File(PrunedById(g), lock) /\ issuedLocks' = issuedLocks \cup {lock.lockId}
    BY <1>2, <2>2 DEF Acquire
  <2> HIDE DEF lock
  <2>4. PrunedById(g) \in [LockIds -> Lock \cup {NoLock}]
    BY DEF PrunedById, LockInv, LocksTypeOK
  <2>5. locksById[l] = NoLock
    BY <1>2 DEF Acquire, LockInv, LeasesFiled
  <2>6. ASSUME NEW m \in LockIds \ {l}
        PROVE  \/ /\ PrunedById(g)[m] = locksById[m]
                  /\ PrunedById(g)[m] # NoLock => PrunedById(g)[m].graphId # g
               \/ PrunedById(g)[m] = NoLock /\ ~Live(locksById[m])
    BY <1>2 DEF Acquire, ActiveLock, PrunedById, LockInv, LocksTypeOK, IndexesAgree, Lock
  <2>7. ASSUME NEW k \in GraphIds \ {g}, locksByGraphId[k] # NoLock
        PROVE  /\ locksByGraphId[k].lockId # l
               /\ PrunedById(g)[locksByGraphId[k].lockId] = locksByGraphId[k]
    BY <2>5, <2>7 DEF PrunedById, LockInv, LocksTypeOK, IndexesAgree, Lock
  <2> QED
    BY <1>2, <2>1, <2>2, <2>3, <2>4, <2>6, <2>7, FileKeepsInv
<1>3. ASSUME NEW lock \in Lock, lock.lockId \in LockIds, locksById[lock.lockId] = lock,
             NEW ttl \in LockTtls, now' = now,
             File(locksById, Renewed(lock, ttl)), UNCHANGED issuedLocks
      PROVE  LockInv'
  <2> DEFINE renewed == Renewed(lock, ttl)
  <2>1. /\ renewed \in Lock
        /\ renewed.lockId = lock.lockId /\ renewed.graphId = lock.graphId
    BY RenewedLock DEF LockInv, LocksTypeOK
  <2> HIDE DEF renewed
  <2>2. lock # NoLock /\ locksByGraphId[lock.graphId] = lock
    BY <1>3, NoLockAssumption DEF LockInv, IndexesAgree
  <2>3. issuedLocks' = issuedLocks \cup {renewed.lockId}
    BY <1>3, <2>1, <2>2 DEF LockInv, LeasesFiled
  <2>4. ASSUME NEW m \in LockIds \ {lock.lockId}, locksById[m] # NoLock
        PROVE  locksById[m].graphId # lock.graphId
    BY <2>2, <2>4 DEF LockInv, IndexesAgree
  <2>5. ASSUME NEW k \in GraphIds \ {lock.graphId}, locksByGraphId[k] # NoLock
        PROVE  /\ locksByGraphId[k].lockId # lock.lockId
               /\ locksById[locksByGraphId[k].lockId] = locksByGraphId[k]
    BY <1>3, <2>5 DEF LockInv, IndexesAgree
  <2> QED
    BY <1>3, <2>1, <2>3, <2>4, <2>5, FileKeepsInv DEF renewed, LockInv, LocksTypeOK
<1>4. ASSUME NEW g \in GraphIds, NEW h \in Holders, NEW ttl \in LockTtls,
             now' = now, Reacquire(g, h, ttl)
      PROVE  LockInv'
  <2>1. /\ ActiveLock(g) = locksByGraphId[g] /\ ActiveLock(g) \in Lock
        /\ locksById[ActiveLock(g).lockId] = ActiveLock(g)
    BY <1>4 DEF Reacquire, ActiveLock, LockInv, LocksTypeOK, IndexesAgree
  <2> QED
    BY <1>3, <1>4, <2>1 DEF Reacquire, Lock
<1>5. ASSUME NEW l \in LockIds, now' = now, Release(l)
      PROVE  LockInv'
  <2> DEFINE lock == locksById[l]
  <2>1. lock \in Lock /\ lock.lockId = l /\ lock.graphId \in GraphIds
    BY <1>5 DEF Release, LockInv, LocksTypeOK, IndexesAgree, Lock
  <2>2. LocksTypeOK'
    BY <1>5 DEF Release, LockInv, LocksTypeOK
  <2>3. IndexesAgree'
    BY <1>5, <2>1 DEF Release, LockInv, LocksTypeOK, IndexesAgree, Lock
  <2>4. LeasesFiled'
    BY <1>5, <2>1 DEF Release, LockInv, LocksTypeOK, LeasesFiled, Live, Expired
  <2> QED
    BY <2>2, <2>3, <2>4 DEF LockInv
<1>6. ASSUME NEW l \in LockIds, NEW ttl \in LockTtls, now' = now, Refresh(l, ttl)
      PROVE  LockInv'
  <2>1. locksById[l] \in Lock /\ locksById[l].lockId = l
    BY <1>6 DEF Refresh, LockInv, LocksTypeOK, IndexesAgree
  <2> QED
    BY <1>3, <1>6, <2>1 DEF Refresh
<1>7. ASSUME NEW g \in GraphIds, now' = now, Inspect(g)
      PROVE  LockInv'
  BY <1>7, PruneKeepsInv DEF Inspect
<1>8. CASE UNCHANGED <<now, lockVars>>
  BY <1>8 DEF LockInv, LocksTypeOK, IndexesAgree, LeasesFiled, Live, Expired, lockVars
<1> QED
  BY <1>1, <1>2, <1>4, <1>5, <1>6, <1>7, <1>8 DEF LocksNext

-----------------------------------------------------------------------------
(* The lock manager keeps LockInv, which holds the typing, the agreement of  *)
(* the two indexes and the filing of the live leases.                        *)
THEOREM LocksInvariant == LocksSpec => []LockInv
<1>1. LocksInit => LockInv
  BY LocksInitInv
<1>2. LockInv /\ [LocksNext]_<<now, lockVars>> => LockInv'
  BY LocksStepInv
<1> QED
  BY <1>1, <1>2, PTL DEF LocksSpec

(* The state of the manager and the leases stays well-typed.                 *)
THEOREM LocksTyping == LocksSpec => []LocksTypeOK
<1>1. LockInv => LocksTypeOK
  BY DEF LockInv
<1> QED
  BY <1>1, LocksInvariant, PTL

(* acquire, release, refresh and pruneExpired keep the graph index and the   *)
(* identifier index in agreement.                                            *)
THEOREM LocksIndexesAgree == LocksSpec => []IndexesAgree
<1>1. LockInv => IndexesAgree
  BY DEF LockInv
<1> QED
  BY <1>1, LocksInvariant, PTL

(* At most one live lease per graph.                                         *)
THEOREM LocksExclusion == LocksSpec => []LeaseExclusion
<1>1. ASSUME LockInv PROVE LeaseExclusion
  <2> SUFFICES ASSUME NEW l \in LockIds, NEW m \in LockIds,
                      Live(leases[l]), Live(leases[m]),
                      leases[l].graphId = leases[m].graphId
               PROVE  l = m
    BY DEF LeaseExclusion
  <2>1. /\ locksById[l] = leases[l] /\ locksById[m] = leases[m]
        /\ locksById[l] # NoLock /\ locksById[m] # NoLock
    BY <1>1 DEF LockInv, LeasesFiled, Live
  <2>2. locksById[l] = locksById[m]
    BY <1>1, <2>1 DEF LockInv, IndexesAgree
  <2> QED
    BY <1>1, <2>1, <2>2 DEF LockInv, IndexesAgree
<1> QED
  BY <1>1, LocksInvariant, PTL

(* What assertCanMutate lets through is exactly what no live lease of        *)
(* another holder forbids.                                                   *)
THEOREM LocksGate == LocksSpec => []GateMatchesLeases
<1>1. ASSUME LockInv PROVE GateMatchesLeases
  <2> SUFFICES ASSUME NEW g \in GraphIds, NEW h \in Holders \cup {None}
               PROVE  MayMutate(g, h) <=>
                        ~\E l \in LockIds : /\ Live(leases[l])
                                            /\ leases[l].graphId = g
                                            /\ leases[l].holder # h
    BY DEF GateMatchesLeases
  <2>1. ASSUME MayMutate(g, h), NEW l \in LockIds, Live(leases[l]),
               leases[l].graphId = g
        PROVE  leases[l].holder = h
    <3>1. locksById[l] = leases[l] /\ leases[l] # NoLock
      BY <1>1, <2>1 DEF LockInv, LeasesFiled, Live
    <3>2. locksByGraphId[g] = leases[l]
      BY <1>1, <2>1, <3>1 DEF LockInv, IndexesAgree
    <3> QED
      BY <2>1, <3>1, <3>2 DEF MayMutate, ActiveLock
  <2>2. ASSUME ~MayMutate(g, h)
        PROVE  \E l \in LockIds : /\ Live(leases[l])
                                  /\ leases[l].graphId = g
                                  /\ leases[l].holder # h
    <3> DEFINE lock == locksByGraphId[g]
    <3>1. Live(lock) /\ lock # NoLock /\ lock.holder # h
      BY <2>2 DEF MayMutate, ActiveLock, Live
    <3>2. /\ lock.lockId \in LockIds /\ lock.graphId = g
          /\ locksById[lock.lockId] = lock
      BY <1>1, <3>1 DEF LockInv, LocksTypeOK, IndexesAgree, Lock
    <3>3. leases[lock.lockId] = lock
      BY <1>1, <3>1, <3>2 DEF LockInv, LeasesFiled
    <3> QED
      BY <3>1, <3>2, <3>3
  <2> QED
    BY <2>1, <2>2
<1> QED
  BY <1>1, LocksInvariant, PTL
=============================================================================
