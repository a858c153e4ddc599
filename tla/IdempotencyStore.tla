-------------------------- MODULE IdempotencyStore --------------------------
(***************************************************************************)
(* FileIdempotencyStore: answers kept in memory and in an append-only      *)
(* ledger, which compaction rewrites and a restart reads back.             *)
(*                                                                         *)
(* A cache key is a method, an idempotency key and a fingerprint of the    *)
(* parameters; MethodKey forgets the fingerprint, so two keys with one     *)
(* method key are one idempotency key used with two payloads.  Writes are  *)
(* queued and done one at a time; the memory is ahead of the disk by the   *)
(* queue.  A write that fails rejects the tail of writeQueue, which nobody *)
(* handles: Node then ends the process, so a failed write is a crash.      *)
(* cacheMetadata always mirrors methodKeyIndex, and the offset index is    *)
(* written and never read: neither is modelled.  The clock stands still    *)
(* during a load, which is synchronous and reads it once.                  *)
(***************************************************************************)
EXTENDS Integers, SequencesExt

CONSTANTS
  Keys,          \* cache keys
  MethodKeys,    \* methods with an idempotency key
  MethodKey,     \* cache key -> its method key
  Replies,       \* statuses with their bodies
  Ttl,           \* lifetime of an answer
  Threshold,     \* appends between two compactions; 0 never compacts
  MaxNow,        \* bound of the clock
  MaxRestarts,   \* bound of the crashes
  None,          \* an absent entry
  Torn           \* a line a crash cut short

Entry == [reply : Replies, exp : Nat]
Line == [key : Keys, reply : Replies, exp : Nat]

ASSUME StoreAssumption ==
  /\ MethodKey \in [Keys -> MethodKeys]
  /\ Ttl \in Nat \ {0} /\ MaxNow \in Nat \ {0} /\ Threshold \in Nat /\ MaxRestarts \in Nat
  /\ None \notin Entry \cup Keys
  /\ Torn \notin Line

VARIABLES
  now,
  phase,            \* "reading" and "parsing" alternate during a load, then "ready"
  offset,           \* lines the load has accepted
  entries,          \* cache key -> its entry
  methodKeyIndex,   \* method key -> the cache key that holds it
  ledger,           \* the file, line by line
  unterminated,     \* the last line of the file lacks its newline
  writeQueue,       \* writes not done yet, the first one in progress
  compacting,       \* compactionPromise is set
  sinceCompaction,
  promised,         \* history: cache key -> the entry its callers may count on
  durable,          \* history: the part of promised whose write was reported done
  restarts,         \* crashes so far
  damaged           \* history: a crash cost the file an answer reported written

memVars == <<phase, offset, entries, methodKeyIndex, compacting, sinceCompaction>>
diskVars == <<ledger, unterminated, writeQueue>>
storeVars == <<now, memVars, diskVars, promised, durable, restarts, damaged>>

StoreTypeOK ==
  /\ now \in 1..MaxNow
  /\ phase \in {"reading", "parsing", "ready"}
  /\ offset \in 0..Len(ledger)
  /\ entries \in [Keys -> Entry \cup {None}]
  /\ methodKeyIndex \in [MethodKeys -> Keys \cup {None}]
  /\ \A i \in DOMAIN ledger : ledger[i] \in Line \cup {Torn}
  /\ unterminated \in BOOLEAN
  /\ \A i \in DOMAIN writeQueue :
       \/ writeQueue[i].op = "append" /\ writeQueue[i].lines[1] \in Line
       \/ writeQueue[i].op = "rewrite" /\ compacting
  /\ compacting \in BOOLEAN /\ sinceCompaction \in Nat
  /\ promised \in [Keys -> Entry \cup {None}]
  /\ durable \in [Keys -> Entry \cup {None}]
  /\ restarts \in 0..MaxRestarts /\ damaged \in BOOLEAN

-----------------------------------------------------------------------------
Live(entry) == entry # None /\ entry.exp > now
LineOf(k, entry) == [key |-> k, reply |-> entry.reply, exp |-> entry.exp]

(* ensureConsistentFingerprint and registerMetadata refuse a key whose method *)
(* key another fingerprint holds.                                             *)
Consistent(index, k) == index[MethodKey[k]] \in {None, k}
Register(index, k) == [index EXCEPT ![MethodKey[k]] = k]

(* dropFingerprintForKey.                                                     *)
Forget(index, dropped) ==
  [m \in MethodKeys |-> IF index[m] \in dropped THEN None ELSE index[m]]

(* Mutant: an expired entry leaves its fingerprint behind.                    *)
DropButRemember(dropped) ==
  /\ entries' = [k \in Keys |-> IF k \in dropped THEN None ELSE entries[k]]
  /\ UNCHANGED methodKeyIndex
Drop(dropped) ==
  /\ entries' = [k \in Keys |-> IF k \in dropped THEN None ELSE entries[k]]
  /\ methodKeyIndex' = Forget(methodKeyIndex, dropped)

(* purge: the expired entries go at once, and the rewrite that is queued      *)
(* carries the survivors of this moment.  Mutant: only those already on disk. *)
Expired == {k \in Keys : entries[k] # None /\ ~Live(entries[k])}
LinesOf(kept) == LET ks == SetToSeq(kept)
                 IN  [i \in DOMAIN ks |-> LineOf(ks[i], entries[ks[i]])]
SurvivorsOnDisk ==
  LinesOf({k \in Keys : Live(entries[k]) /\ LineOf(k, entries[k]) \in ToSet(ledger)})
Survivors == LinesOf({k \in Keys : Live(entries[k])})
(* Mutant: compactionPromise is not remembered.                               *)
PurgeUnmarked(queue) ==
  /\ Drop(Expired)
  /\ writeQueue' = Append(queue, [op |-> "rewrite", lines |-> Survivors])
  /\ UNCHANGED compacting
Purge(queue) ==
  /\ Drop(Expired)
  /\ writeQueue' = Append(queue, [op |-> "rewrite", lines |-> Survivors])
  /\ compacting' = TRUE

(* maybeScheduleCompaction, with the writes left to do.                       *)
MaybeCompact(queue) ==
  IF Threshold > 0 /\ sinceCompaction' >= Threshold /\ ~compacting
  THEN Purge(queue)
  ELSE /\ writeQueue' = queue
       /\ UNCHANGED <<entries, methodKeyIndex, compacting>>

-----------------------------------------------------------------------------
StoreInit ==
  /\ now = 1 /\ phase = "ready" /\ offset = 0
  /\ entries = [k \in Keys |-> None]
  /\ methodKeyIndex = [m \in MethodKeys |-> None]
  /\ ledger = <<>> /\ unterminated = FALSE /\ writeQueue = <<>>
  /\ compacting = FALSE /\ sinceCompaction = 0
  /\ promised = [k \in Keys |-> None]
  /\ durable = [k \in Keys |-> None]
  /\ restarts = 0 /\ damaged = FALSE

Tick ==
  /\ phase = "ready"
  /\ now < MaxNow
  /\ now' = now + 1
  /\ UNCHANGED <<memVars, diskVars, promised, durable, restarts, damaged>>

(* get: an expired entry is dropped on the way.                               *)
Get(k) ==
  /\ Drop({k} \cap Expired)
  /\ UNCHANGED <<now, phase, offset, compacting, sinceCompaction, diskVars,
                 promised, durable, restarts, damaged>>

(* set is refused when the payload or the answer, expired or not, differs.    *)
MaySet(k, reply) ==
  /\ Consistent(methodKeyIndex, k)
  /\ entries[k] # None => entries[k].reply = reply

(* set publishes in memory, then queues the append.  Mutant: the entry is     *)
(* published by the append only.                                              *)
PublishLater(k, entry) == UNCHANGED entries
Publish(k, entry) == entries' = [entries EXCEPT ![k] = entry]

Set(k, reply) ==
  LET entry == [reply |-> reply, exp |-> now + Ttl] IN
  /\ MaySet(k, reply)
  /\ Publish(k, entry)
  /\ methodKeyIndex' = Register(methodKeyIndex, k)
  /\ writeQueue' = Append(writeQueue, [op |-> "append", lines |-> <<LineOf(k, entry)>>])
  /\ promised' = [promised EXCEPT ![k] = entry]
  /\ UNCHANGED <<now, phase, offset, compacting, sinceCompaction, ledger,
                 unterminated, durable, restarts, damaged>>

(* The file after a write: a line appended to one without a newline makes one *)
(* line of the two.                                                           *)
Written(file, write) ==
  CASE write.op = "rewrite" -> write.lines
    [] write.op = "append" /\ unterminated -> Front(file) \o <<Torn>>
    [] OTHER -> file \o write.lines

(* The append of set is done.                                                 *)
AppendDone ==
  LET line == Head(writeQueue).lines[1] IN
  /\ writeQueue # <<>> /\ Head(writeQueue).op = "append"
  /\ ledger' = Written(ledger, Head(writeQueue))
  /\ damaged' = (damaged \/ unterminated)
  /\ unterminated' = FALSE
  /\ durable' = [durable EXCEPT ![line.key] = [reply |-> line.reply, exp |-> line.exp]]
  /\ sinceCompaction' = sinceCompaction + 1
  /\ MaybeCompact(Tail(writeQueue))
  /\ UNCHANGED <<now, phase, offset, promised, restarts>>

(* The rewrite of purge is done, and scheduleCompaction learns of it.         *)
RewriteDone ==
  /\ writeQueue # <<>> /\ Head(writeQueue).op = "rewrite"
  /\ ledger' = Written(ledger, Head(writeQueue))
  /\ unterminated' = FALSE
  /\ writeQueue' = Tail(writeQueue)
  /\ compacting' = FALSE
  /\ sinceCompaction' = 0
  /\ UNCHANGED <<now, phase, offset, entries, methodKeyIndex, promised, durable, restarts, damaged>>

(* What a crash leaves of the write in progress: nothing, all of it, all but  *)
(* the newline, or a part.  writeFile truncates before it writes.             *)
CrashLeavesFile ==
  \/ UNCHANGED <<ledger, unterminated>>
  \/ LET head == Head(writeQueue) IN
     /\ writeQueue # <<>>
     /\ \/ /\ head.op = "append"
           /\ ledger' = Written(ledger, head)
           /\ unterminated' \in IF unterminated THEN {FALSE} ELSE BOOLEAN
        \/ /\ head.op = "append" /\ ~unterminated
           /\ ledger' = Append(ledger, Torn)
           /\ unterminated' = FALSE
        \/ /\ head.op = "rewrite"
           /\ ledger' \in Prefixes(head.lines)
           /\ unterminated' \in IF ledger' = <<>> THEN {FALSE} ELSE BOOLEAN
        \/ /\ head.op = "rewrite"
           /\ \E part \in Prefixes(head.lines) \ {head.lines} : ledger' = Append(part, Torn)
           /\ unterminated' = FALSE

(* The file gives a reader an answer as fresh as the one reported written.   *)
Keeps(file, k) ==
  \E line \in ToSet(file) :
    line # Torn /\ line.key = k /\ line.exp >= durable[k].exp

(* The process ends, by itself or because a write failed, and is started     *)
(* again: all that is in memory is gone, and create reads the file.          *)
Crash ==
  /\ restarts < MaxRestarts /\ restarts' = restarts + 1
  /\ CrashLeavesFile
  /\ damaged' = (damaged \/ \E k \in Keys :
                   Live(durable[k]) /\ Keeps(ledger, k) /\ ~Keeps(ledger', k))
  /\ phase' = "reading" /\ offset' = 0
  /\ entries' = [k \in Keys |-> None]
  /\ methodKeyIndex' = [m \in MethodKeys |-> None]
  /\ writeQueue' = <<>>
  /\ compacting' = FALSE /\ sinceCompaction' = 0
  /\ promised' = durable
  /\ UNCHANGED <<now, durable>>

(* loadFromDisk: the head of its loop takes the next line, or ends the load   *)
(* and lets create compact.                                                   *)
ReadLine ==
  /\ phase = "reading"
  /\ IF offset < Len(ledger)
     THEN /\ phase' = "parsing"
          /\ UNCHANGED <<offset, sinceCompaction, entries, methodKeyIndex, writeQueue,
                         compacting>>
     ELSE /\ phase' = "ready" /\ offset' = 0
          /\ sinceCompaction' = Cardinality({k \in Keys : entries[k] # None})
          /\ MaybeCompact(<<>>)
  /\ UNCHANGED <<now, ledger, unterminated, promised, durable, restarts, damaged>>

(* The body takes a line that parses, is not expired and conflicts with none  *)
(* before it; for any other it continues without moving the offset.           *)
Accepts(line) == line # Torn /\ line.exp > now /\ Consistent(methodKeyIndex, line.key)
ParseLine ==
  LET line == ledger[offset + 1] IN
  /\ phase = "parsing"
  /\ phase' = "reading"
  /\ IF Accepts(line)
     THEN /\ entries' = [entries EXCEPT ![line.key] = [reply |-> line.reply, exp |-> line.exp]]
          /\ methodKeyIndex' = Register(methodKeyIndex, line.key)
          /\ offset' = offset + 1
     ELSE UNCHANGED <<entries, methodKeyIndex, offset>>
  /\ UNCHANGED <<now, compacting, sinceCompaction, diskVars, promised, durable, restarts, damaged>>

(* What the store does by itself, whoever calls it.                           *)
StoreNext == Tick \/ AppendDone \/ RewriteDone \/ ReadLine \/ ParseLine

-----------------------------------------------------------------------------
(* Two live entries never share an idempotency key: the index of method keys  *)
(* names exactly the entries that are held, so a key is refused to a second   *)
(* payload while, and only while, an answer to the first is held.             *)
FingerprintsMatch ==
  \A k \in Keys : entries[k] # None <=> methodKeyIndex[MethodKey[k]] = k

(* The entry a reader of the file that skips what it cannot use would find.   *)
LastLine(file, k) ==
  LET at == {i \in DOMAIN file : file[i] # Torn /\ file[i].key = k}
  IN  IF at = {} THEN None ELSE LET line == file[Max(at)] IN [reply |-> line.reply, exp |-> line.exp]

(* The file once the first n queued writes are done.                          *)
FileAfter[n \in 0..Len(writeQueue)] ==
  IF n = 0 THEN ledger ELSE Written(FileAfter[n - 1], writeQueue[n])

(* The file catches up with the memory: once the queued writes are done, it   *)
(* holds every live entry, the latest last, and no live entry that the memory *)
(* has lost, however appends, refreshes and compactions interleaved.          *)
LedgerCatchesUp ==
  phase = "ready" /\ ~damaged /\ ~unterminated =>
    \A k \in Keys : LET last == LastLine(FileAfter[Len(writeQueue)], k) IN
      Live(last) \/ Live(entries[k]) => last = entries[k]
=============================================================================
