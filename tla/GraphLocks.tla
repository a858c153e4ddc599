----------------------------- MODULE GraphLocks -----------------------------
(***************************************************************************)
(* GraphLockManager (graph/locks.ts): cooperative, re-entrant, leased locks *)
(* on graphs.  The manager keeps the same lock under two keys, its graph    *)
(* and its identifier, and drops an expired lock lazily, only when the      *)
(* graph it covers is looked at.                                            *)
(*                                                                          *)
(* The history variable leases is the callers' side: for every identifier   *)
(* the last snapshot the manager returned for it, until it is released.     *)
(* A definition introduced as a mutant states a plausible mistake in the    *)
(* one below it; no action uses it.                                         *)
(***************************************************************************)
EXTENDS GraphContext

CONSTANTS
  Holders,    \* trimmed, non-empty holder names
  LockIds,    \* identifiers randomUUID can return
  LockTtls,   \* ttl_ms arguments
  MaxTtl,     \* MAX_TTL_MS
  NoLock      \* an absent entry of either index

ASSUME LockAssumption ==
  /\ LockTtls \subseteq Int \cup {None}
  /\ MaxTtl \in Int /\ MaxTtl > 0
  /\ None \notin Holders

VARIABLES
  locksByGraphId,   \* graph -> lock
  locksById,        \* lock identifier -> the same lock
  issuedLocks,      \* identifiers handed out so far: randomUUID never repeats
  leases            \* history: lock identifier -> what its holder was last told

lockVars == <<locksByGraphId, locksById, issuedLocks, leases>>

Lock == [lockId : LockIds, graphId : GraphIds, holder : Holders,
         ttl : 1..MaxTtl \cup {None}, expiresAt : Int \cup {None}]

ASSUME NoLockAssumption == NoLock \notin Lock

(* Both indexes and the leases hold locks, whose ttl normaliseTtl has capped. *)
LocksTypeOK ==
  /\ now \in Int
  /\ locksByGraphId \in [GraphIds -> Lock \cup {NoLock}]
  /\ locksById \in [LockIds -> Lock \cup {NoLock}]
  /\ issuedLocks \subseteq LockIds
  /\ leases \in [LockIds -> Lock \cup {NoLock}]

-----------------------------------------------------------------------------
Live(lock) == lock # NoLock /\ ~Expired(lock.expiresAt)

(* What pruneExpired(g) leaves under graph g ... *)
ActiveLock(g) == IF Live(locksByGraphId[g]) THEN locksByGraphId[g] ELSE NoLock

(* ... and under the identifiers.  Mutant: the identifier is forgotten.      *)
PrunedByIdKept(g) == locksById
PrunedById(g) ==
  [l \in LockIds |->
     IF locksByGraphId[g] # NoLock /\ ~Live(locksByGraphId[g])
          /\ l = locksByGraphId[g].lockId
     THEN NoLock ELSE locksById[l]]

Prune(g) ==
  /\ locksByGraphId' = [locksByGraphId EXCEPT ![g] = ActiveLock(g)]
  /\ locksById' = PrunedById(g)
  /\ UNCHANGED <<issuedLocks, leases>>

(* assertCanMutate: holder h (None for an anonymous caller) passes unless   *)
(* somebody else's lock is active.  Mutant: an anonymous caller passes.     *)
MayMutateAnonymous(g, h) ==
  h # None /\ ActiveLock(g) # NoLock => ActiveLock(g).holder = h
MayMutate(g, h) == ActiveLock(g) # NoLock => ActiveLock(g).holder = h

(* normaliseTtl.  Mutant: without the cap. *)
NormaliseTtlUncapped(ttl) == IF ttl = None \/ ttl <= 0 THEN None ELSE ttl
NormaliseTtl(ttl) ==
  IF ttl = None \/ ttl <= 0 THEN None
  ELSE IF ttl > MaxTtl THEN MaxTtl ELSE ttl

Renewed(lock, ttl) ==
  LET effective == IF NormaliseTtl(ttl) = None THEN lock.ttl ELSE NormaliseTtl(ttl)
  IN  [lock EXCEPT !.ttl = effective, !.expiresAt = Deadline(effective)]

(* store and refreshSnapshot file a lock under both indexes; byId is the     *)
(* identifier index after pruning.  Mutant: only the graph index is written. *)
FileByGraphOnly(byId, lock) ==
  /\ locksByGraphId' = [locksByGraphId EXCEPT ![lock.graphId] = lock]
  /\ locksById' = byId
  /\ leases' = [leases EXCEPT ![lock.lockId] = lock]
File(byId, lock) ==
  /\ locksByGraphId' = [locksByGraphId EXCEPT ![lock.graphId] = lock]
  /\ locksById' = [byId EXCEPT ![lock.lockId] = lock]
  /\ leases' = [leases EXCEPT ![lock.lockId] = lock]

-----------------------------------------------------------------------------
LocksInit ==
  /\ ClockInit
  /\ locksByGraphId = [g \in GraphIds |-> NoLock]
  /\ locksById = [l \in LockIds |-> NoLock]
  /\ issuedLocks = {}
  /\ leases = [l \in LockIds |-> NoLock]

(* acquire on a free graph: a new lock with a fresh identifier. *)
Acquire(g, h, l, ttl) ==
  /\ ActiveLock(g) = NoLock
  /\ l \notin issuedLocks
  /\ issuedLocks' = issuedLocks \cup {l}
  /\ File(PrunedById(g),
           [lockId |-> l, graphId |-> g, holder |-> h,
            ttl |-> NormaliseTtl(ttl), expiresAt |-> Deadline(NormaliseTtl(ttl))])

(* acquire by the holder of the active lock: same identifier, new deadline. *)
Reacquire(g, h, ttl) ==
  /\ ActiveLock(g) # NoLock
  /\ ActiveLock(g).holder = h
  /\ File(locksById, Renewed(ActiveLock(g), ttl))
  /\ UNCHANGED issuedLocks

(* release: whoever knows the identifier; expired or not. *)
Release(l) ==
  LET lock == locksById[l] IN
  /\ lock # NoLock
  /\ locksById' = [locksById EXCEPT ![l] = NoLock]
  /\ locksByGraphId' =
       [locksByGraphId EXCEPT
          ![lock.graphId] = IF @ # NoLock /\ @.lockId = l THEN NoLock ELSE @]
  /\ leases' = [leases EXCEPT ![l] = NoLock]
  /\ UNCHANGED issuedLocks

(* refresh: by identifier and without pruning, so a lock that has expired   *)
(* but was not looked at since is brought back.                             *)
Refresh(l, ttl) ==
  /\ locksById[l] # NoLock
  /\ File(locksById, Renewed(locksById[l], ttl))
  /\ UNCHANGED issuedLocks

(* assertCanMutate and describe change nothing but what they prune; so does *)
(* an acquire that is refused.                                              *)
Inspect(g) == Prune(g)

LocksNext ==
  \/ Tick /\ UNCHANGED lockVars
  \/ /\ UNCHANGED now
     /\ \/ \E g \in GraphIds, h \in Holders, l \in LockIds, ttl \in LockTtls :
             Acquire(g, h, l, ttl)
        \/ \E g \in GraphIds, h \in Holders, ttl \in LockTtls : Reacquire(g, h, ttl)
        \/ \E l \in LockIds : Release(l)
        \/ \E l \in LockIds, ttl \in LockTtls : Refresh(l, ttl)
        \/ \E g \in GraphIds : Inspect(g)

LocksSpec == LocksInit /\ [][LocksNext]_<<now, lockVars>>

-----------------------------------------------------------------------------
(* A lock is filed under its own graph and its own identifier, and the two  *)
(* indexes of GraphLockManager hold the same locks: no identifier outlives  *)
(* the entry of its graph, whichever of acquire, release, refresh and       *)
(* pruneExpired touched them last.                                          *)
IndexesAgree ==
  /\ \A g \in GraphIds : locksByGraphId[g] # NoLock =>
       /\ locksByGraphId[g].graphId = g
       /\ locksById[locksByGraphId[g].lockId] = locksByGraphId[g]
  /\ \A l \in LockIds : locksById[l] # NoLock =>
       /\ locksById[l].lockId = l
       /\ locksByGraphId[locksById[l].graphId] = locksById[l]

(* Two callers never both hold an unexpired, unreleased lease on the same   *)
(* graph, judged by what acquire and refresh returned to them: neither a    *)
(* late release by a past holder nor a refresh of an expired identifier can *)
(* take the graph from its present holder.                                  *)
LeaseExclusion ==
  \A l, m \in LockIds :
    Live(leases[l]) /\ Live(leases[m]) /\ leases[l].graphId = leases[m].graphId
      => l = m

(* assertCanMutate refuses exactly the callers other than the holder of an  *)
(* unexpired, unreleased lease: what the manager enforces on mutations is   *)
(* what it promised to the holders.                                         *)
GateMatchesLeases ==
  \A g \in GraphIds, h \in Holders \cup {None} :
    MayMutate(g, h) <=>
      ~\E l \in LockIds : /\ Live(leases[l])
                          /\ leases[l].graphId = g
                          /\ leases[l].holder # h
=============================================================================
