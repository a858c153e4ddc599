------------------------- MODULE IdempotencyProofs -------------------------
(***************************************************************************)
(* The idempotency store and the handlers over it, for every number of     *)
(* keys, payloads, answers, handlers, crashes and compactions: typing, the *)
(* index of fingerprints, and that an answer once given is the one every   *)
(* retry gets.  The last is not inductive.  It rests on an order: of the   *)
(* lines of a key, in the file, in the queue of writes and in memory, a    *)
(* later one lives longer and, as long as the earlier one lives, repeats   *)
(* its answer.                                                             *)
(***************************************************************************)
EXTENDS HttpIdempotency, FiniteSetTheorems, SequenceTheorems, TLAPS

Write == {w \in [op : {"append", "rewrite"}, lines : Seq(Line)] :
            w.op = "append" => Len(w.lines) = 1}

Held == {k \in Keys : entries[k] # None}

StoreTypes ==
  /\ now \in 1..MaxNow
  /\ phase \in {"reading", "parsing", "ready"}
  /\ offset \in 0..Len(ledger)
  /\ entries \in [Keys -> Entry \cup {None}] /\ IsFiniteSet(Held)
  /\ methodKeyIndex \in [MethodKeys -> Keys \cup {None}]
  /\ ledger \in Seq(Line \cup {Torn}) /\ unterminated \in BOOLEAN
  /\ writeQueue \in Seq(Write)
  /\ compacting \in BOOLEAN /\ sinceCompaction \in Nat
  /\ promised \in [Keys -> Entry \cup {None}]
  /\ durable \in [Keys -> Entry \cup {None}]
  /\ restarts \in 0..MaxRestarts /\ damaged \in BOOLEAN
  /\ request \in [Requests -> Keys \cup {None}]

(* A load has the store to itself; at most one rewrite is queued.            *)
LoadAlone ==
  /\ phase # "ready" => /\ writeQueue = <<>> /\ promised = durable
                        /\ \A r \in Requests : request[r] = None
  /\ phase = "parsing" => offset < Len(ledger)
  /\ phase = "ready" => offset = 0

OneRewrite ==
  \A i, j \in 1..Len(writeQueue) :
    writeQueue[i].op = "rewrite" =>
      compacting /\ (writeQueue[j].op = "rewrite" => i = j)

TypesInv == StoreTypes /\ LoadAlone /\ OneRewrite

(* The order of the lines of a key.                                          *)
Behind(x, y) ==
  x.key = y.key => x.exp <= y.exp /\ (x.exp > now => x.reply = y.reply)

FileLines(file) == ToSet(file) \ {Torn}
LinesIn(queue) == UNION {ToSet(queue[q].lines) : q \in 1..Len(queue)}

Ordered(file) ==
  \A i, j \in 1..Len(file) :
    i <= j /\ file[i] # Torn /\ file[j] # Torn => Behind(file[i], file[j])

AppendsAfter(lines, p) ==
  \A q \in 1..Len(writeQueue) : p < q /\ writeQueue[q].op = "append" =>
    \A x \in lines : Behind(x, writeQueue[q].lines[1])

OrderInv ==
  /\ Ordered(ledger)
  /\ \A p \in 1..Len(writeQueue) : Ordered(writeQueue[p].lines)
  /\ AppendsAfter(FileLines(ledger), 0)
  /\ \A p \in 1..Len(writeQueue) : AppendsAfter(ToSet(writeQueue[p].lines), p)
  /\ \A x \in FileLines(ledger) \cup LinesIn(writeQueue) : x.exp <= now + Ttl
  /\ \A k \in Keys : entries[k] # None => entries[k].exp <= now + Ttl

(* The memory holds an answer as fresh as line x, and the same.              *)
Fresh(x) ==
  x.exp > now =>
    /\ entries[x.key] # None
    /\ x.exp <= entries[x.key].exp
    /\ x.reply = entries[x.key].reply

FreshInv ==
  phase = "ready" =>
    /\ \A x \in FileLines(ledger) \cup LinesIn(writeQueue) : Fresh(x)
    /\ ~damaged => \A k \in Keys :
         /\ durable[k] # None => Fresh(LineOf(k, durable[k]))
         /\ promised[k] # None => Fresh(LineOf(k, promised[k]))

(* What a load can rely on, and what it has read so far.                     *)
LoadInv ==
  /\ ~damaged => \A k \in Keys : Live(durable[k]) => Keeps(ledger, k)
  /\ phase # "ready" =>
       /\ \A i \in 1..offset : ledger[i] # Torn /\ Fresh(ledger[i])
       /\ ~damaged => \A k \in Keys : Live(durable[k]) =>
            \A x \in FileLines(ledger) :
              x.key = k /\ x.exp > now => x.reply = durable[k].reply

(* A rewrite carries every live answer reported written, and those that will *)
(* be when its turn comes.                                                   *)
RewritesCover ==
  \A p \in 1..Len(writeQueue) : writeQueue[p].op = "rewrite" =>
    /\ ~damaged => \A k \in Keys : Live(durable[k]) => Keeps(writeQueue[p].lines, k)
    /\ \A q \in 1..p - 1 :
         LET line == writeQueue[q].lines[1] IN
         writeQueue[q].op = "append" /\ line.exp > now =>
           \E x \in ToSet(writeQueue[p].lines) : x.key = line.key /\ x.exp >= line.exp

AnswersInv == OrderInv /\ FreshInv /\ LoadInv /\ RewritesCover

HttpInv == TypesInv /\ FingerprintsMatch /\ AnswersInv

-----------------------------------------------------------------------------
(* The lines of a rewrite: one for each entry kept, and no other.             *)
LEMMA LinesOfKept ==
  ASSUME StoreTypes, NEW kept, kept \subseteq Held
  PROVE  /\ LinesOf(kept) \in Seq(Line)
         /\ \A x \in ToSet(LinesOf(kept)) : x.key \in kept /\ x = LineOf(x.key, entries[x.key])
         /\ \A k \in kept : LineOf(k, entries[k]) \in ToSet(LinesOf(kept))
         /\ \A i, j \in 1..Len(LinesOf(kept)) :
              LinesOf(kept)[i].key = LinesOf(kept)[j].key => i = j
<1> DEFINE n == Cardinality(kept)
           ks == SetToSeq(kept)
<1>1. IsFiniteSet(kept)
  BY FS_Subset DEF StoreTypes
<1>2. n \in Nat /\ \E f \in [1..n -> kept] : IsInjective(f)
  BY <1>1, FS_CardinalityType
     DEF IsInjective, ExistsBijection, Bijection, Injection, Surjection
<1>3. ks \in [1..n -> kept] /\ IsInjective(ks)
  BY <1>2 DEF SetToSeq
<1>4. \A k \in kept : \E i \in 1..n : ks[i] = k
  <2>1. ks \in Injection(1..n, kept)
    BY <1>3 DEF Injection
  <2>2. Cardinality(1..n) = n
    BY <1>2, FS_Interval
  <2>3. ks \in Surjection(1..n, kept)
    BY <1>1, <2>1, <2>2, FS_Injection
  <2> QED
    BY <2>3 DEF Surjection
<1>5. LinesOf(kept) = [i \in 1..n |-> LineOf(ks[i], entries[ks[i]])]
  BY <1>3 DEF LinesOf
<1>6. \A k \in kept : LineOf(k, entries[k]) \in Line /\ LineOf(k, entries[k]).key = k
  BY DEF StoreTypes, Held, LineOf, Line, Entry
<1>7. /\ LinesOf(kept) \in [1..n -> Line]
      /\ \A i \in 1..n : LinesOf(kept)[i] = LineOf(ks[i], entries[ks[i]])
                         /\ LinesOf(kept)[i].key = ks[i]
  BY <1>3, <1>5, <1>6
<1>8. LinesOf(kept) \in Seq(Line) /\ Len(LinesOf(kept)) = n /\ DOMAIN LinesOf(kept) = 1..n
  BY <1>2, <1>7
<1>9. \A i, j \in 1..n : ks[i] = ks[j] => i = j
  BY <1>3 DEF IsInjective
<1> QED
  BY <1>3, <1>4, <1>7, <1>8, <1>9 DEF ToSet

-----------------------------------------------------------------------------
(* What a write or a crash leaves of a file: some of its first lines, each in *)
(* its place, and torn ones.                                                  *)
Traces(file, of) ==
  \A i \in 1..Len(file) : file[i] # Torn => i \in 1..Len(of) /\ file[i] = of[i]

LEMMA WriteTypes ==
  ASSUME NEW w \in Write
  PROVE  /\ w.op \in {"append", "rewrite"} /\ w.lines \in Seq(Line)
         /\ w.op = "append" => w.lines[1] \in Line /\ w.lines = <<w.lines[1]>>
  BY DEF Write

(* An append to a file without its last newline spoils two lines; a rewrite   *)
(* replaces the file.                                                         *)
LEMMA WrittenLines ==
  ASSUME StoreTypes, NEW w \in Write
  PROVE  /\ Written(ledger, w) \in Seq(Line \cup {Torn})
         /\ w.op = "rewrite" => Written(ledger, w) = w.lines
         /\ w.op = "append" /\ unterminated => Traces(Written(ledger, w), ledger)
         /\ w.op = "append" /\ ~unterminated =>
              Written(ledger, w) = Append(ledger, w.lines[1])
<1>1. CASE w.op = "rewrite"
  <2>1. Written(ledger, w) = w.lines
    BY <1>1 DEF Written
  <2>2. w.lines \in Seq(Line \cup {Torn})
    BY WriteTypes
  <2> QED
    BY <1>1, <2>1, <2>2
<1>2. CASE w.op = "append" /\ unterminated
  <2> DEFINE front == Front(ledger)
  <2>1. Written(ledger, w) = front \o <<Torn>>
    BY <1>2 DEF Written
  <2>2. ledger \in Seq(Line \cup {Torn}) /\ Len(ledger) \in Nat
    BY DEF StoreTypes
  <2>3. /\ front \in Seq(Line \cup {Torn}) /\ Len(front) <= Len(ledger)
        /\ \A i \in 1..Len(front) : front[i] = ledger[i]
    BY <2>2, SubSeqProperties DEF Front
  <2>4. /\ Written(ledger, w) \in Seq(Line \cup {Torn})
        /\ Len(Written(ledger, w)) = Len(front) + 1
        /\ \A i \in 1..Len(front) : Written(ledger, w)[i] = front[i]
        /\ Written(ledger, w)[Len(front) + 1] = Torn
    <3> HIDE DEF front
    <3> QED  BY <2>1, <2>3
  <2>5. Traces(Written(ledger, w), ledger)
    <3> HIDE DEF front
    <3> QED  BY <2>2, <2>3, <2>4 DEF Traces
  <2> QED
    BY <1>2, <2>4, <2>5
<1>3. CASE w.op = "append" /\ ~unterminated
  <2>1. Written(ledger, w) = ledger \o w.lines
    BY <1>3 DEF Written
  <2>2. w.lines = <<w.lines[1]>> /\ w.lines[1] \in Line
    BY <1>3, WriteTypes
  <2>3. ledger \in Seq(Line \cup {Torn})
    BY DEF StoreTypes
  <2>4. Append(ledger, w.lines[1]) = ledger \o <<w.lines[1]>>
    BY <2>2, <2>3, AppendIsConcat
  <2>5. Append(ledger, w.lines[1]) \in Seq(Line \cup {Torn})
    BY <2>2, <2>3
  <2> QED
    BY <1>3, <2>1, <2>2, <2>4, <2>5
<1> QED
  BY <1>1, <1>2, <1>3, WriteTypes

LEMMA PrefixTraces ==
  ASSUME NEW of \in Seq(Line \cup {Torn}), NEW p \in Prefixes(of)
  PROVE  /\ p \in Seq(Line \cup {Torn}) /\ Traces(p, of)
         /\ Append(p, Torn) \in Seq(Line \cup {Torn}) /\ Traces(Append(p, Torn), of)
<1>1. PICK n \in 0..Len(of) : p = SubSeq(of, 1, n)
  BY DEF Prefixes
<1>2. /\ p \in Seq(Line \cup {Torn}) /\ Len(p) = n
      /\ \A i \in 1..n : p[i] = of[i]
  BY <1>1, SubSeqProperties
<1>3. /\ Append(p, Torn) \in Seq(Line \cup {Torn}) /\ Len(Append(p, Torn)) = n + 1
      /\ \A i \in 1..n : Append(p, Torn)[i] = p[i]
      /\ Append(p, Torn)[n + 1] = Torn
  BY <1>2
<1>4. Traces(p, of)
  BY <1>2 DEF Traces
<1>5. Traces(Append(p, Torn), of)
  BY <1>2, <1>3 DEF Traces
<1> QED
  BY <1>2, <1>3, <1>4, <1>5

(* A crash leaves lines of the file, with the line in progress or without it, *)
(* or lines of the rewrite in progress.                                       *)
LEMMA CrashLines ==
  ASSUME StoreTypes, CrashLeavesFile
  PROVE  /\ ledger' \in Seq(Line \cup {Torn}) /\ unterminated' \in BOOLEAN
         /\ \/ Traces(ledger', ledger)
            \/ /\ writeQueue # <<>> /\ Head(writeQueue).op = "append" /\ ~unterminated
               /\ ledger' = Append(ledger, Head(writeQueue).lines[1])
            \/ /\ writeQueue # <<>> /\ Head(writeQueue).op = "rewrite"
               /\ Traces(ledger', Head(writeQueue).lines)
<1> DEFINE head == Head(writeQueue)
<1>1. ledger \in Seq(Line \cup {Torn}) /\ unterminated \in BOOLEAN
  BY DEF StoreTypes
<1>2. ledger \in Prefixes(ledger)
  <2>1. SubSeq(ledger, 1, Len(ledger)) = ledger /\ Len(ledger) \in 0..Len(ledger)
    BY <1>1, SubSeqFull
  <2> QED
    BY <2>1, Zenon DEF Prefixes
<1>3. Traces(ledger, ledger)
  BY DEF Traces
<1>4. CASE UNCHANGED <<ledger, unterminated>>
  BY <1>1, <1>3, <1>4
<1>5. CASE writeQueue # <<>> /\ ~UNCHANGED <<ledger, unterminated>>
  <2>1. head \in Write
    BY <1>5, HeadTailProperties DEF StoreTypes
  <2>2. head.op \in {"append", "rewrite"} /\ head.lines \in Seq(Line \cup {Torn})
    BY <2>1, WriteTypes
  <2>3. \/ /\ head.op = "append" /\ ledger' = Written(ledger, head)
           /\ unterminated' \in BOOLEAN
        \/ /\ head.op = "append" /\ ledger' = Append(ledger, Torn)
           /\ unterminated' = FALSE
        \/ /\ head.op = "rewrite" /\ ledger' \in Prefixes(head.lines)
           /\ unterminated' \in BOOLEAN
        \/ /\ head.op = "rewrite" /\ unterminated' = FALSE
           /\ \E part \in Prefixes(head.lines) : ledger' = Append(part, Torn)
    BY <1>5 DEF CrashLeavesFile
  <2> HIDE DEF head
  <2>4. CASE head.op = "append" /\ ledger' = Written(ledger, head)
    <3>1. /\ ledger' \in Seq(Line \cup {Torn})
          /\ \/ Traces(ledger', ledger)
             \/ ~unterminated /\ ledger' = Append(ledger, head.lines[1])
      BY <1>1, <2>1, <2>4, WrittenLines
    <3>2. unterminated' \in BOOLEAN
      BY <2>3, <2>4
    <3> QED
      BY <1>5, <2>4, <3>1, <3>2 DEF head
  <2>5. CASE ledger' = Append(ledger, Torn)
    <3>1. ledger' \in Seq(Line \cup {Torn}) /\ Traces(ledger', ledger)
      BY <1>1, <1>2, <2>5, PrefixTraces
    <3>2. unterminated' \in BOOLEAN
      BY <2>3
    <3> QED
      BY <3>1, <3>2
  <2>6. CASE head.op = "rewrite"
    <3>1. ledger' \in Seq(Line \cup {Torn}) /\ Traces(ledger', head.lines)
      BY <2>2, <2>3, <2>6, PrefixTraces
    <3>2. unterminated' \in BOOLEAN
      BY <2>3
    <3> QED
      BY <1>5, <2>6, <3>1, <3>2 DEF head
  <2> QED
    BY <2>3, <2>4, <2>5, <2>6
<1> QED
  BY <1>4, <1>5 DEF CrashLeavesFile

-----------------------------------------------------------------------------
(* Dropping entries keeps the types and the index of fingerprints.            *)
LEMMA DropKeeps ==
  ASSUME StoreTypes, FingerprintsMatch, NEW dropped, Drop(dropped)
  PROVE  /\ entries' \in [Keys -> Entry \cup {None}] /\ IsFiniteSet(Held')
         /\ methodKeyIndex' \in [MethodKeys -> Keys \cup {None}]
         /\ FingerprintsMatch'
<1>1. entries' \in [Keys -> Entry \cup {None}]
  BY DEF Drop, StoreTypes
<1>2. Held' \subseteq Held
  BY DEF Held, Drop, StoreTypes
<1>3. IsFiniteSet(Held')
  BY <1>2, FS_Subset DEF StoreTypes
<1>4. methodKeyIndex' \in [MethodKeys -> Keys \cup {None}]
  BY DEF Drop, Forget, StoreTypes
<1>5. ASSUME NEW k \in Keys
      PROVE  entries'[k] # None <=> methodKeyIndex'[MethodKey[k]] = k
  BY StoreAssumption DEF FingerprintsMatch, Drop, Forget, StoreTypes
<1> QED
  BY <1>1, <1>3, <1>4, <1>5 DEF FingerprintsMatch

(* A compaction is queued at the tail, when none is.                          *)
OneRewriteIn(queue, marked) ==
  \A i, j \in 1..Len(queue) :
    queue[i].op = "rewrite" => marked /\ (queue[j].op = "rewrite" => i = j)

Survivor == {k \in Keys : Live(entries[k])}

LEMMA PurgeLines ==
  ASSUME StoreTypes
  PROVE  /\ Survivors \in Seq(Line)
         /\ \A x \in ToSet(Survivors) :
              Live(entries[x.key]) /\ x.key \in Keys /\ x = LineOf(x.key, entries[x.key])
         /\ \A k \in Keys : Live(entries[k]) => LineOf(k, entries[k]) \in ToSet(Survivors)
         /\ \A i, j \in 1..Len(Survivors) : Survivors[i].key = Survivors[j].key => i = j
<1>1. Survivor \subseteq Held
  BY DEF Survivor, Held, Live
<1>2. Survivors = LinesOf(Survivor)
  BY DEF Survivors, Survivor
<1> QED
  BY <1>1, <1>2, LinesOfKept DEF Survivor

LEMMA MaybeCompactKeeps ==
  ASSUME StoreTypes, FingerprintsMatch, NEW queue \in Seq(Write),
         OneRewriteIn(queue, compacting), MaybeCompact(queue)
  PROVE  /\ entries' \in [Keys -> Entry \cup {None}] /\ IsFiniteSet(Held')
         /\ methodKeyIndex' \in [MethodKeys -> Keys \cup {None}]
         /\ writeQueue' \in Seq(Write) /\ compacting' \in BOOLEAN
         /\ OneRewriteIn(writeQueue', compacting')
         /\ FingerprintsMatch'
<1>1. CASE Purge(queue) /\ ~compacting
  <2> DEFINE rewrite == [op |-> "rewrite", lines |-> Survivors]
  <2>1. rewrite \in Write
    BY PurgeLines DEF Write
  <2>2. /\ entries' \in [Keys -> Entry \cup {None}] /\ IsFiniteSet(Held')
        /\ methodKeyIndex' \in [MethodKeys -> Keys \cup {None}]
        /\ FingerprintsMatch'
    <3>1. Drop(Expired)
      BY <1>1 DEF Purge
    <3> QED
      BY <3>1, DropKeeps
  <2>3. writeQueue' = Append(queue, rewrite) /\ compacting' = TRUE
    BY <1>1 DEF Purge
  <2>4. \A i \in 1..Len(queue) : queue[i].op # "rewrite"
    BY <1>1 DEF OneRewriteIn
  <2> HIDE DEF rewrite
  <2>5. /\ writeQueue' \in Seq(Write) /\ Len(writeQueue') = Len(queue) + 1
        /\ \A i \in 1..Len(queue) : writeQueue'[i] = queue[i]
    BY <2>1, <2>3, AppendProperties
  <2>6. OneRewriteIn(writeQueue', compacting')
    BY <2>3, <2>4, <2>5 DEF OneRewriteIn
  <2> QED
    BY <2>2, <2>3, <2>5, <2>6
<1>2. CASE writeQueue' = queue /\ UNCHANGED <<entries, methodKeyIndex, compacting>>
  BY <1>2 DEF StoreTypes, Held, FingerprintsMatch
<1> QED
  BY <1>1, <1>2 DEF MaybeCompact

(* What the head of the queue leaves behind.                                  *)
LEMMA TailOfQueue ==
  ASSUME StoreTypes, OneRewrite, writeQueue # <<>>
  PROVE  /\ Head(writeQueue) \in Write /\ Head(writeQueue) = writeQueue[1]
         /\ Tail(writeQueue) \in Seq(Write)
         /\ Len(writeQueue) \in Nat /\ Len(Tail(writeQueue)) = Len(writeQueue) - 1
         /\ \A i \in 1..Len(Tail(writeQueue)) : Tail(writeQueue)[i] = writeQueue[i + 1]
         /\ OneRewriteIn(Tail(writeQueue), compacting)
         /\ Head(writeQueue).op = "rewrite" =>
              \A i \in 1..Len(Tail(writeQueue)) : Tail(writeQueue)[i].op # "rewrite"
<1>1. writeQueue \in Seq(Write)
  BY DEF StoreTypes
<1>2. /\ Head(writeQueue) \in Write /\ Head(writeQueue) = writeQueue[1]
      /\ Tail(writeQueue) \in Seq(Write)
      /\ Len(writeQueue) \in Nat /\ Len(Tail(writeQueue)) = Len(writeQueue) - 1
      /\ \A i \in 1..Len(Tail(writeQueue)) : Tail(writeQueue)[i] = writeQueue[i + 1]
  BY <1>1, HeadTailProperties
<1>3. \A i \in 1..Len(Tail(writeQueue)) : i + 1 \in 1..Len(writeQueue)
  BY <1>2
<1>4. OneRewriteIn(Tail(writeQueue), compacting)
  BY <1>2, <1>3 DEF OneRewriteIn, OneRewrite
<1>5. ASSUME Head(writeQueue).op = "rewrite", NEW i \in 1..Len(Tail(writeQueue))
      PROVE  Tail(writeQueue)[i].op # "rewrite"
  <2>1. 1 \in 1..Len(writeQueue) /\ i + 1 \in 1..Len(writeQueue) /\ i + 1 # 1
    BY <1>2
  <2> QED
    BY <1>2, <1>5, <2>1 DEF OneRewrite
<1> QED
  BY <1>2, <1>4, <1>5
-----------------------------------------------------------------------------
(* Typing and the index of fingerprints.                                      *)
Typed == TypesInv /\ FingerprintsMatch

LEMMA TypedInit == HttpInit => Typed
<1> SUFFICES ASSUME HttpInit PROVE Typed
  OBVIOUS
<1> USE StoreAssumption DEF HttpInit, StoreInit
<1>1. Held = {} /\ IsFiniteSet(Held)
  <2>1. Held = {}
    BY DEF Held
  <2> QED
    BY <2>1, FS_EmptySet
<1>2. StoreTypes
  <2>1. now \in 1..MaxNow /\ restarts \in 0..MaxRestarts /\ offset \in 0..Len(ledger)
    OBVIOUS
  <2>2. ledger \in Seq(Line \cup {Torn}) /\ writeQueue \in Seq(Write)
    OBVIOUS
  <2> QED
    BY <1>1, <2>1, <2>2 DEF StoreTypes
<1>3. LoadAlone /\ OneRewrite
  BY DEF LoadAlone, OneRewrite
<1>4. FingerprintsMatch
  BY DEF FingerprintsMatch
<1> QED
  BY <1>2, <1>3, <1>4 DEF Typed, TypesInv

LEMMA TypedTick ==
  ASSUME Typed, Tick, UNCHANGED request PROVE Typed'
<1>1. StoreTypes'
  <2>1. now' \in 1..MaxNow
    BY StoreAssumption DEF Typed, TypesInv, StoreTypes, Tick
  <2>2. Held' = Held
    BY DEF Tick, memVars, Held
  <2> QED
    BY <2>1, <2>2 DEF Typed, TypesInv, StoreTypes, Tick, memVars, diskVars
<1>2. LoadAlone' /\ OneRewrite' /\ FingerprintsMatch'
  BY DEF Typed, TypesInv, LoadAlone, OneRewrite, FingerprintsMatch, Tick, memVars, diskVars
<1> QED
  BY <1>1, <1>2 DEF Typed, TypesInv

LEMMA TypedReceive ==
  ASSUME Typed, NEW r \in Requests, NEW k \in Keys, Receive(r, k) PROVE Typed'
<1>1. /\ entries' \in [Keys -> Entry \cup {None}] /\ IsFiniteSet(Held')
      /\ methodKeyIndex' \in [MethodKeys -> Keys \cup {None}]
      /\ FingerprintsMatch'
  <2>1. Drop({k} \cap Expired)
    BY DEF Receive, Get
  <2> QED
    BY <2>1, DropKeeps DEF Typed, TypesInv
<1>2. /\ phase = "ready" /\ request' \in [Requests -> Keys \cup {None}]
      /\ UNCHANGED <<now, phase, offset, compacting, sinceCompaction, diskVars,
                     promised, durable, restarts, damaged>>
  BY DEF Receive, Get, Typed, TypesInv, StoreTypes
<1>3. StoreTypes'
  BY <1>1, <1>2 DEF Typed, TypesInv, StoreTypes, diskVars
<1>4. LoadAlone' /\ OneRewrite'
  BY <1>2 DEF Typed, TypesInv, LoadAlone, OneRewrite, diskVars
<1> QED
  BY <1>1, <1>3, <1>4 DEF Typed, TypesInv

(* Setting an entry claims its method key, which none else held.              *)
LEMMA SetKeeps ==
  ASSUME StoreTypes, FingerprintsMatch, NEW k \in Keys, NEW entry \in Entry,
         Consistent(methodKeyIndex, k),
         entries' = [entries EXCEPT ![k] = entry],
         methodKeyIndex' = Register(methodKeyIndex, k)
  PROVE  /\ entries' \in [Keys -> Entry \cup {None}] /\ IsFiniteSet(Held')
         /\ methodKeyIndex' \in [MethodKeys -> Keys \cup {None}]
         /\ FingerprintsMatch'
<1>1. entries' \in [Keys -> Entry \cup {None}]
  BY DEF StoreTypes
<1>2. IsFiniteSet(Held')
  <2>1. IsFiniteSet(Held \cup {k})
    BY FS_AddElement DEF StoreTypes
  <2>2. Held' \subseteq Held \cup {k}
    BY DEF Held, StoreTypes
  <2> QED
    BY <2>1, <2>2, FS_Subset
<1>3. methodKeyIndex' \in [MethodKeys -> Keys \cup {None}]
  BY StoreAssumption DEF Register, StoreTypes
<1>4. ASSUME NEW j \in Keys
      PROVE  entries'[j] # None <=> methodKeyIndex'[MethodKey[j]] = j
  BY StoreAssumption DEF FingerprintsMatch, Register, Consistent, StoreTypes
<1> QED
  BY <1>1, <1>2, <1>3, <1>4 DEF FingerprintsMatch

LEMMA TypedSet ==
  ASSUME Typed, phase = "ready", NEW k \in Keys, NEW reply \in Replies, Set(k, reply),
         request' \in [Requests -> Keys \cup {None}]
  PROVE  Typed'
<1> DEFINE entry == [reply |-> reply, exp |-> now + Ttl]
           write == [op |-> "append", lines |-> <<LineOf(k, entry)>>]
<1>1. entry \in Entry /\ LineOf(k, entry) \in Line
  BY StoreAssumption DEF Typed, TypesInv, StoreTypes, Entry, LineOf, Line
<1>2. write \in Write
  BY <1>1 DEF Write
<1>3. /\ entries' = [entries EXCEPT ![k] = entry]
      /\ writeQueue' = Append(writeQueue, write)
      /\ methodKeyIndex' = Register(methodKeyIndex, k) /\ Consistent(methodKeyIndex, k)
      /\ promised' = [promised EXCEPT ![k] = entry]
      /\ UNCHANGED <<now, phase, offset, compacting, sinceCompaction, ledger,
                     unterminated, durable, restarts, damaged>>
  BY DEF Set, MaySet, Publish
<1> HIDE DEF entry, write
<1>4. /\ entries' \in [Keys -> Entry \cup {None}] /\ IsFiniteSet(Held')
      /\ methodKeyIndex' \in [MethodKeys -> Keys \cup {None}]
      /\ FingerprintsMatch'
  BY <1>1, <1>3, SetKeeps DEF Typed, TypesInv
<1>5. /\ writeQueue \in Seq(Write)
      /\ writeQueue' \in Seq(Write) /\ Len(writeQueue') = Len(writeQueue) + 1
      /\ \A i \in 1..Len(writeQueue) : writeQueue'[i] = writeQueue[i]
      /\ writeQueue'[Len(writeQueue) + 1] = write /\ write.op = "append"
  BY <1>2, <1>3, AppendProperties DEF Typed, TypesInv, StoreTypes, write
<1>6. StoreTypes'
  <2>1. promised' \in [Keys -> Entry \cup {None}]
    BY <1>1, <1>3 DEF Typed, TypesInv, StoreTypes
  <2> QED
    BY <1>3, <1>4, <1>5, <2>1 DEF Typed, TypesInv, StoreTypes
<1>7. LoadAlone'
  BY <1>3 DEF Typed, TypesInv, LoadAlone
<1>8. OneRewrite'
  BY <1>3, <1>5 DEF Typed, TypesInv, OneRewrite
<1> QED
  BY <1>4, <1>6, <1>7, <1>8 DEF Typed, TypesInv

LEMMA TypedAnswer ==
  ASSUME Typed, NEW r \in Requests, NEW reply \in Replies, Answer(r, reply) PROVE Typed'
<1>1. /\ request[r] \in Keys /\ phase = "ready"
      /\ request' \in [Requests -> Keys \cup {None}]
  BY DEF Answer, Typed, TypesInv, StoreTypes, LoadAlone
<1>2. CASE Set(request[r], reply)
  BY <1>1, <1>2, TypedSet
<1>3. CASE UNCHANGED storeVars
  <2>1. StoreTypes'
    BY <1>1, <1>3 DEF Typed, TypesInv, StoreTypes, storeVars, memVars, diskVars, Held
  <2>2. LoadAlone' /\ OneRewrite' /\ FingerprintsMatch'
    BY <1>1, <1>3
       DEF Typed, TypesInv, LoadAlone, OneRewrite, FingerprintsMatch, storeVars, memVars, diskVars
  <2> QED
    BY <2>1, <2>2 DEF Typed, TypesInv
<1> QED
  BY <1>2, <1>3 DEF Answer

LEMMA TypedAppendDone ==
  ASSUME Typed, AppendDone, UNCHANGED request PROVE Typed'
<1> DEFINE head == Head(writeQueue)
           line == head.lines[1]
<1> USE DEF Typed, TypesInv
<1>1. /\ writeQueue # <<>> /\ head.op = "append" /\ head \in Write /\ phase = "ready"
      /\ Tail(writeQueue) \in Seq(Write) /\ OneRewriteIn(Tail(writeQueue), compacting)
  BY TailOfQueue DEF AppendDone, LoadAlone
<1>2. line \in Line
  <2> HIDE DEF head
  <2> QED  BY <1>1, WriteTypes
<1>3. ledger' \in Seq(Line \cup {Torn})
  <2>1. ledger' = Written(ledger, head)
    BY DEF AppendDone
  <2> HIDE DEF head
  <2> QED
    BY <1>1, <2>1, WrittenLines
<1>4. /\ MaybeCompact(Tail(writeQueue))
      /\ unterminated' = FALSE /\ damaged' \in BOOLEAN
      /\ durable' = [durable EXCEPT ![line.key] = [reply |-> line.reply, exp |-> line.exp]]
      /\ sinceCompaction' = sinceCompaction + 1
      /\ UNCHANGED <<now, phase, offset, promised, restarts>>
  BY DEF AppendDone, StoreTypes
<1> HIDE DEF head, line
<1>5. durable' \in [Keys -> Entry \cup {None}]
  <2>1. line.key \in Keys /\ [reply |-> line.reply, exp |-> line.exp] \in Entry
    BY <1>2 DEF Line, Entry
  <2> QED
    BY <1>4, <2>1 DEF StoreTypes
<1>6. /\ entries' \in [Keys -> Entry \cup {None}] /\ IsFiniteSet(Held')
      /\ methodKeyIndex' \in [MethodKeys -> Keys \cup {None}]
      /\ writeQueue' \in Seq(Write) /\ compacting' \in BOOLEAN
      /\ OneRewriteIn(writeQueue', compacting')
      /\ FingerprintsMatch'
  BY <1>1, <1>4, MaybeCompactKeeps
<1>7. StoreTypes'
  <2>1. offset' \in 0..Len(ledger')
    BY <1>1, <1>3, <1>4 DEF LoadAlone
  <2>2. sinceCompaction' \in Nat
    BY <1>4 DEF StoreTypes
  <2> QED
    BY <1>3, <1>4, <1>5, <1>6, <2>1, <2>2 DEF StoreTypes
<1>8. LoadAlone'
  BY <1>1, <1>4 DEF LoadAlone
<1>9. OneRewrite'
  BY <1>6 DEF OneRewrite, OneRewriteIn
<1> QED
  BY <1>6, <1>7, <1>8, <1>9

LEMMA TypedRewriteDone ==
  ASSUME Typed, RewriteDone, UNCHANGED request PROVE Typed'
<1> DEFINE head == Head(writeQueue)
<1> USE DEF Typed, TypesInv
<1>1. /\ writeQueue # <<>> /\ head.op = "rewrite" /\ head \in Write /\ phase = "ready"
      /\ Tail(writeQueue) \in Seq(Write)
      /\ \A i \in 1..Len(Tail(writeQueue)) : Tail(writeQueue)[i].op # "rewrite"
  BY TailOfQueue DEF RewriteDone, LoadAlone
<1>2. ledger' \in Seq(Line \cup {Torn})
  <2>1. ledger' = Written(ledger, head)
    BY DEF RewriteDone
  <2> HIDE DEF head
  <2> QED
    BY <1>1, <2>1, WrittenLines
<1>3. /\ unterminated' = FALSE /\ writeQueue' = Tail(writeQueue)
      /\ compacting' = FALSE /\ sinceCompaction' = 0
      /\ UNCHANGED <<now, phase, offset, entries, methodKeyIndex, promised, durable,
                     restarts, damaged>>
  BY DEF RewriteDone
<1> HIDE DEF head
<1>4. StoreTypes'
  <2>1. offset' \in 0..Len(ledger')
    BY <1>1, <1>2, <1>3 DEF LoadAlone
  <2> QED
    BY <1>1, <1>2, <1>3, <2>1 DEF StoreTypes, Held
<1>5. LoadAlone'
  BY <1>1, <1>3 DEF LoadAlone
<1>6. OneRewrite' /\ FingerprintsMatch'
  BY <1>1, <1>3 DEF OneRewrite, FingerprintsMatch
<1> QED
  BY <1>4, <1>5, <1>6

LEMMA TypedRestart ==
  ASSUME Typed, Restart PROVE Typed'
<1> USE DEF Typed, TypesInv
<1>1. /\ CrashLeavesFile /\ restarts' = restarts + 1 /\ restarts < MaxRestarts
      /\ damaged' \in BOOLEAN /\ phase' = "reading" /\ offset' = 0
      /\ entries' = [k \in Keys |-> None]
      /\ methodKeyIndex' = [m \in MethodKeys |-> None]
      /\ writeQueue' = <<>> /\ compacting' = FALSE /\ sinceCompaction' = 0
      /\ promised' = durable /\ UNCHANGED <<now, durable>>
      /\ request' = [r \in Requests |-> None]
  BY DEF Restart, Crash, StoreTypes
<1>2. ledger' \in Seq(Line \cup {Torn}) /\ unterminated' \in BOOLEAN
  BY <1>1, CrashLines
<1>3. IsFiniteSet(Held')
  <2>1. Held' = {}
    BY <1>1 DEF Held
  <2> QED
    BY <2>1, FS_EmptySet
<1>4. restarts' \in 0..MaxRestarts
  BY <1>1, StoreAssumption DEF StoreTypes
<1>5. StoreTypes'
  <2>1. offset' \in 0..Len(ledger') /\ writeQueue' \in Seq(Write)
    BY <1>1, <1>2
  <2> QED
    BY <1>1, <1>2, <1>3, <1>4, <2>1 DEF StoreTypes
<1>6. LoadAlone' /\ OneRewrite'
  BY <1>1 DEF LoadAlone, OneRewrite
<1>7. FingerprintsMatch'
  BY <1>1, StoreAssumption DEF FingerprintsMatch
<1> QED
  BY <1>5, <1>6, <1>7

LEMMA TypedReadLine ==
  ASSUME Typed, ReadLine, UNCHANGED request PROVE Typed'
<1> USE DEF Typed, TypesInv
<1>1. /\ phase = "reading" /\ writeQueue = <<>>
      /\ UNCHANGED <<now, ledger, unterminated, promised, durable, restarts, damaged, request>>
  BY DEF ReadLine, LoadAlone
<1>2. CASE offset < Len(ledger)
  <2>1. /\ phase' = "parsing"
        /\ UNCHANGED <<offset, sinceCompaction, entries, methodKeyIndex, writeQueue,
                       compacting>>
    BY <1>2 DEF ReadLine
  <2>2. StoreTypes'
    BY <1>1, <2>1 DEF StoreTypes, Held
  <2>3. LoadAlone' /\ OneRewrite' /\ FingerprintsMatch'
    BY <1>1, <1>2, <2>1 DEF LoadAlone, OneRewrite, FingerprintsMatch
  <2> QED
    BY <2>2, <2>3
<1>3. CASE ~(offset < Len(ledger))
  <2>1. /\ phase' = "ready" /\ offset' = 0 /\ sinceCompaction' = Cardinality(Held)
        /\ MaybeCompact(<<>>)
    BY <1>3 DEF ReadLine, Held
  <2>2. /\ entries' \in [Keys -> Entry \cup {None}] /\ IsFiniteSet(Held')
        /\ methodKeyIndex' \in [MethodKeys -> Keys \cup {None}]
        /\ writeQueue' \in Seq(Write) /\ compacting' \in BOOLEAN
        /\ OneRewriteIn(writeQueue', compacting')
        /\ FingerprintsMatch'
    <3>1. <<>> \in Seq(Write) /\ OneRewriteIn(<<>>, compacting)
      BY DEF OneRewriteIn
    <3> QED
      BY <2>1, <3>1, MaybeCompactKeeps
  <2>3. sinceCompaction' \in Nat
    BY <2>1, FS_CardinalityType DEF StoreTypes
  <2>4. offset' \in 0..Len(ledger')
    BY <1>1, <2>1 DEF StoreTypes
  <2>5. StoreTypes'
    BY <1>1, <2>1, <2>2, <2>3, <2>4 DEF StoreTypes
  <2>6. LoadAlone' /\ OneRewrite'
    BY <1>1, <2>1, <2>2 DEF LoadAlone, OneRewrite, OneRewriteIn
  <2> QED
    BY <2>2, <2>5, <2>6
<1> QED
  BY <1>2, <1>3

LEMMA TypedParseLine ==
  ASSUME Typed, ParseLine, UNCHANGED request PROVE Typed'
<1> DEFINE line == ledger[offset + 1]
           entry == [reply |-> line.reply, exp |-> line.exp]
<1> USE DEF Typed, TypesInv
<1>1. /\ phase = "parsing" /\ phase' = "reading" /\ offset < Len(ledger)
      /\ UNCHANGED <<now, compacting, sinceCompaction, diskVars, promised, durable, restarts,
                     damaged, request>>
  BY DEF ParseLine, LoadAlone
<1>2. /\ entries' \in [Keys -> Entry \cup {None}] /\ IsFiniteSet(Held')
      /\ methodKeyIndex' \in [MethodKeys -> Keys \cup {None}]
      /\ FingerprintsMatch' /\ offset' \in 0..Len(ledger)
  <2>1. CASE Accepts(line)
    <3>1. /\ entries' = [entries EXCEPT ![line.key] = entry]
          /\ methodKeyIndex' = Register(methodKeyIndex, line.key)
          /\ offset' = offset + 1
      BY <2>1 DEF ParseLine
    <3>2. line \in Line /\ offset' \in 0..Len(ledger)
      BY <1>1, <2>1, <3>1 DEF StoreTypes, Accepts
    <3>3. line.key \in Keys /\ entry \in Entry
      BY <3>2 DEF Line, Entry
    <3>4. Consistent(methodKeyIndex, line.key)
      BY <2>1 DEF Accepts
    <3> HIDE DEF line, entry
    <3> QED
      BY <3>1, <3>2, <3>3, <3>4, SetKeeps
  <2>2. CASE ~Accepts(line)
    <3>1. UNCHANGED <<entries, methodKeyIndex, offset>>
      BY <2>2 DEF ParseLine
    <3> QED
      BY <3>1 DEF StoreTypes, Held, FingerprintsMatch
  <2> QED
    BY <2>1, <2>2
<1>3. StoreTypes'
  BY <1>1, <1>2 DEF StoreTypes, diskVars
<1>4. LoadAlone' /\ OneRewrite'
  BY <1>1 DEF LoadAlone, OneRewrite, diskVars
<1> QED
  BY <1>2, <1>3, <1>4

LEMMA TypedNext ==
  ASSUME Typed, [HttpNext]_httpVars PROVE Typed'
<1>1. CASE UNCHANGED httpVars
  <2>1. StoreTypes'
    BY <1>1 DEF Typed, TypesInv, StoreTypes, httpVars, storeVars, memVars, diskVars, Held
  <2>2. LoadAlone' /\ OneRewrite' /\ FingerprintsMatch'
    BY <1>1 DEF Typed, TypesInv, LoadAlone, OneRewrite, FingerprintsMatch, httpVars, storeVars,
                memVars, diskVars
  <2> QED
    BY <2>1, <2>2 DEF Typed, TypesInv
<1> QED
  BY <1>1, TypedTick, TypedAppendDone, TypedRewriteDone, TypedReadLine, TypedParseLine,
     TypedReceive, TypedAnswer, TypedRestart
     DEF HttpNext, StoreNext

LEMMA TypedAlways == HttpSpec => []Typed
  BY TypedInit, TypedNext, PTL DEF HttpSpec

(* Every reachable state is well typed: at most one compaction is queued, and *)
(* a load never reads past the end of the file.                               *)
THEOREM HttpTyping == HttpSpec => []HttpTypeOK
<1>1. ASSUME Typed PROVE HttpTypeOK
  <2>1. /\ \A i \in DOMAIN ledger : ledger[i] \in Line \cup {Torn}
        /\ DOMAIN writeQueue = 1..Len(writeQueue)
    BY <1>1 DEF Typed, TypesInv, StoreTypes
  <2>2. ASSUME NEW i \in DOMAIN writeQueue
        PROVE  \/ writeQueue[i].op = "append" /\ writeQueue[i].lines[1] \in Line
               \/ writeQueue[i].op = "rewrite" /\ compacting
    <3>1. writeQueue[i] \in Write
      BY <1>1, <2>1 DEF Typed, TypesInv, StoreTypes
    <3> QED
      BY <1>1, <2>1, <3>1, WriteTypes DEF Typed, TypesInv, OneRewrite
  <2> QED
    BY <1>1, <2>1, <2>2 DEF Typed, TypesInv, StoreTypes, HttpTypeOK, StoreTypeOK
<1> QED
  BY <1>1, TypedAlways, PTL

(* Two payloads never hold one idempotency key, through expiry, refreshes,    *)
(* compactions and restarts.                                                  *)
THEOREM OnePayloadPerKey == HttpSpec => []FingerprintsMatch
<1>1. Typed => FingerprintsMatch
  BY DEF Typed
<1> QED
  BY <1>1, TypedAlways, PTL

-----------------------------------------------------------------------------
(* The answers.  First, what the sets of lines are.                           *)
LEMMA FileLinesAre ==
  ASSUME NEW file \in Seq(Line \cup {Torn})
  PROVE  /\ FileLines(file) \subseteq Line
         /\ \A x : x \in FileLines(file) <=> x # Torn /\ \E i \in 1..Len(file) : x = file[i]
  BY DEF FileLines, ToSet

LEMMA QueueLinesAre ==
  ASSUME NEW queue \in Seq(Write)
  PROVE  /\ LinesIn(queue) \subseteq Line
         /\ \A x : x \in LinesIn(queue) <=>
                     \E q \in 1..Len(queue) : x \in ToSet(queue[q].lines)
         /\ \A q \in 1..Len(queue) :
              /\ queue[q].op \in {"append", "rewrite"}
              /\ queue[q].lines \in Seq(Line)
              /\ ToSet(queue[q].lines) \subseteq Line
              /\ ToSet(queue[q].lines) = FileLines(queue[q].lines)
              /\ queue[q].op = "append" =>
                   queue[q].lines[1] \in Line /\ ToSet(queue[q].lines) = {queue[q].lines[1]}
<1>1. ASSUME NEW q \in 1..Len(queue)
      PROVE  /\ queue[q].op \in {"append", "rewrite"}
             /\ queue[q].lines \in Seq(Line)
             /\ ToSet(queue[q].lines) \subseteq Line
             /\ ToSet(queue[q].lines) = FileLines(queue[q].lines)
             /\ queue[q].op = "append" =>
                  queue[q].lines[1] \in Line /\ ToSet(queue[q].lines) = {queue[q].lines[1]}
  <2> DEFINE w == queue[q]
  <2>1. w \in Write
    OBVIOUS
  <2> HIDE DEF w
  <2>2. /\ w.op \in {"append", "rewrite"} /\ w.lines \in Seq(Line)
        /\ w.op = "append" => w.lines[1] \in Line /\ w.lines = <<w.lines[1]>>
    BY <2>1, WriteTypes
  <2>3. DOMAIN w.lines = 1..Len(w.lines) /\ \A i \in 1..Len(w.lines) : w.lines[i] \in Line
    BY <2>2
  <2>4. ToSet(w.lines) \subseteq Line /\ ToSet(w.lines) = FileLines(w.lines)
    BY <2>3, StoreAssumption DEF ToSet, FileLines
  <2>5. ASSUME w.op = "append" PROVE ToSet(w.lines) = {w.lines[1]}
    <3>1. DOMAIN w.lines = {1}
      BY <2>2, <2>5
    <3> QED
      BY <3>1 DEF ToSet
  <2> QED
    BY <2>2, <2>4, <2>5 DEF w
<1>2. \A x : x \in LinesIn(queue) <=> \E q \in 1..Len(queue) : x \in ToSet(queue[q].lines)
  BY DEF LinesIn
<1> QED
  BY <1>1, <1>2

LEMMA TracesKeep ==
  ASSUME NEW file \in Seq(Line \cup {Torn}), NEW of \in Seq(Line \cup {Torn}), Traces(file, of)
  PROVE  /\ FileLines(file) \subseteq FileLines(of)
         /\ Ordered(of) => Ordered(file)
<1>1. FileLines(file) \subseteq FileLines(of)
  BY FileLinesAre DEF Traces
<1>2. ASSUME Ordered(of) PROVE Ordered(file)
  BY <1>2 DEF Traces, Ordered
<1> QED
  BY <1>1, <1>2

(* No step but those of the clock changes now.                                *)
LEMMA SameClock ==
  ASSUME now' = now
  PROVE  /\ \A x, y : Behind(x, y)' <=> Behind(x, y)
         /\ \A e : Live(e)' <=> Live(e)
  BY DEF Behind, Live

(* What MaybeCompact does to the memory and to the queue.                     *)
Purged ==
  \A k \in Keys : entries'[k] = entries[k] \/ (entries'[k] = None /\ ~Live(entries[k]))

Compaction == [op |-> "rewrite", lines |-> Survivors]

LEMMA MaybeCompactEffect ==
  ASSUME StoreTypes, NEW queue \in Seq(Write), MaybeCompact(queue)
  PROVE  /\ Purged
         /\ Len(queue) \in Nat /\ Len(writeQueue') \in {Len(queue), Len(queue) + 1}
         /\ \A q \in 1..Len(writeQueue') :
              \/ q \in 1..Len(queue) /\ writeQueue'[q] = queue[q]
              \/ q = Len(queue) + 1 /\ writeQueue'[q] = Compaction
<1>1. CASE Purge(queue)
  <2>1. Purged
    BY <1>1 DEF Purge, Drop, Expired, Purged, StoreTypes
  <2>2. writeQueue' = Append(queue, Compaction)
    BY <1>1 DEF Purge, Compaction
  <2>3. Compaction \in Write
    BY PurgeLines DEF Write, Compaction
  <2>4. /\ Len(writeQueue') = Len(queue) + 1
        /\ \A i \in 1..Len(queue) : writeQueue'[i] = queue[i]
        /\ writeQueue'[Len(queue) + 1] = Compaction
    BY <2>2, <2>3, AppendProperties
  <2> QED
    BY <2>1, <2>4
<1>2. CASE writeQueue' = queue /\ UNCHANGED entries
  BY <1>2 DEF Purged
<1> QED
  BY <1>1, <1>2 DEF MaybeCompact

LEMMA PurgedKeepsFresh ==
  ASSUME StoreTypes, Purged, now' = now, NEW x \in Line, Fresh(x)
  PROVE  Fresh(x)'
  BY DEF Purged, Fresh, StoreTypes, Line, Entry, Live

(* The lines of a compaction: ordered, live, and as the memory has them.      *)
LEMMA CompactionLines ==
  ASSUME StoreTypes
  PROVE  /\ Compaction.op = "rewrite" /\ Compaction.lines \in Seq(Line)
         /\ Ordered(Compaction.lines)
         /\ \A x \in ToSet(Compaction.lines) :
              x \in Line /\ Fresh(x) /\ entries[x.key] # None /\ x.exp = entries[x.key].exp
         /\ \A x \in Line : x.exp > now /\ Fresh(x) =>
              \E y \in ToSet(Compaction.lines) : y.key = x.key /\ y.exp >= x.exp
<1>1. /\ Compaction.op = "rewrite" /\ Compaction.lines = Survivors
      /\ Survivors \in Seq(Line)
  BY PurgeLines DEF Compaction
<1>2. Ordered(Survivors)
  <2>1. ASSUME NEW i \in 1..Len(Survivors), NEW j \in 1..Len(Survivors)
        PROVE  Behind(Survivors[i], Survivors[j])
    <3>1. Survivors[i] \in Line
      BY <1>1
    <3> QED
      BY <3>1, PurgeLines DEF Behind, Line
  <2> QED
    BY <2>1 DEF Ordered
<1>3. ASSUME NEW x \in ToSet(Survivors)
      PROVE  x \in Line /\ Fresh(x) /\ entries[x.key] # None /\ x.exp = entries[x.key].exp
  <2>1. Live(entries[x.key]) /\ x.key \in Keys /\ x = LineOf(x.key, entries[x.key])
    BY PurgeLines
  <2>2. entries[x.key] \in Entry
    BY <2>1 DEF StoreTypes, Live
  <2>3. x.exp = entries[x.key].exp /\ x.reply = entries[x.key].reply
    BY <2>1 DEF LineOf
  <2>4. x \in Line
    BY <2>1, <2>2 DEF LineOf, Line, Entry
  <2> QED
    BY <2>1, <2>2, <2>3, <2>4 DEF Fresh, Live, Entry
<1>4. ASSUME NEW x \in Line, x.exp > now, Fresh(x)
      PROVE  \E y \in ToSet(Survivors) : y.key = x.key /\ y.exp >= x.exp
  <2>1. x.key \in Keys /\ entries[x.key] # None /\ x.exp <= entries[x.key].exp
    BY <1>4 DEF Line, Fresh
  <2>2. entries[x.key] \in Entry
    BY <2>1 DEF StoreTypes
  <2>3. Live(entries[x.key])
    BY <1>4, <2>1, <2>2 DEF Live, Entry, Line, StoreTypes
  <2>4. LineOf(x.key, entries[x.key]) \in ToSet(Survivors)
    BY <2>1, <2>3, PurgeLines
  <2> QED
    BY <2>1, <2>4 DEF LineOf
<1> QED
  BY <1>1, <1>2, <1>3, <1>4

-----------------------------------------------------------------------------
(* Each step keeps the order of the lines and what rests on it.               *)
LEMMA AnswersInit == HttpInit => AnswersInv
<1> SUFFICES ASSUME HttpInit PROVE AnswersInv
  OBVIOUS
<1>1. /\ phase = "ready" /\ ledger = <<>> /\ writeQueue = <<>>
      /\ entries = [k \in Keys |-> None] /\ promised = [k \in Keys |-> None]
      /\ durable = [k \in Keys |-> None]
  BY DEF HttpInit, StoreInit
<1>2. FileLines(ledger) = {} /\ LinesIn(writeQueue) = {}
  BY <1>1 DEF FileLines, LinesIn, ToSet
<1>3. OrderInv
  BY <1>1, <1>2 DEF OrderInv, Ordered, AppendsAfter
<1>4. FreshInv /\ LoadInv /\ RewritesCover
  BY <1>1, <1>2 DEF FreshInv, LoadInv, RewritesCover, Live
<1> QED
  BY <1>3, <1>4 DEF AnswersInv

LEMMA AnswersTick ==
  ASSUME Typed, AnswersInv, Tick PROVE AnswersInv'
<1> USE DEF Typed, TypesInv
<1>1. /\ phase = "ready" /\ phase' = "ready" /\ now \in Nat /\ now' = now + 1
      /\ UNCHANGED <<entries, ledger, writeQueue, promised, durable, damaged>>
  BY DEF Tick, memVars, diskVars, StoreTypes
<1>2. /\ FileLines(ledger) \subseteq Line /\ LinesIn(writeQueue) \subseteq Line
      /\ \A q \in 1..Len(writeQueue) :
           /\ writeQueue[q].lines \in Seq(Line) /\ ToSet(writeQueue[q].lines) \subseteq Line
           /\ writeQueue[q].op = "append" => writeQueue[q].lines[1] \in Line
  BY FileLinesAre, QueueLinesAre DEF StoreTypes
<1>3. /\ \A x \in Line : \A y : Behind(x, y) => Behind(x, y)'
      /\ \A x \in Line : Fresh(x) => Fresh(x)'
      /\ \A k \in Keys : Live(durable[k])' => Live(durable[k])
      /\ \A k \in Keys : durable[k] # None => LineOf(k, durable[k]) \in Line
      /\ \A k \in Keys : promised[k] # None => LineOf(k, promised[k]) \in Line
  BY <1>1 DEF Behind, Fresh, Live, Line, Entry, StoreTypes, LineOf
<1>4. OrderInv'
  <2>1. Ordered(ledger)'
    BY <1>1, <1>3 DEF AnswersInv, OrderInv, Ordered, StoreTypes
  <2>2. \A p \in 1..Len(writeQueue) : Ordered(writeQueue[p].lines)'
    BY <1>1, <1>2, <1>3 DEF AnswersInv, OrderInv, Ordered
  <2>3. AppendsAfter(FileLines(ledger), 0)'
    BY <1>1, <1>2, <1>3 DEF AnswersInv, OrderInv, AppendsAfter
  <2>4. \A p \in 1..Len(writeQueue) : AppendsAfter(ToSet(writeQueue[p].lines), p)'
    BY <1>1, <1>2, <1>3 DEF AnswersInv, OrderInv, AppendsAfter
  <2>5. (\A x \in FileLines(ledger) \cup LinesIn(writeQueue) : x.exp <= now + Ttl)'
    <3>1. FileLines(ledger)' = FileLines(ledger) /\ LinesIn(writeQueue)' = LinesIn(writeQueue)
      BY <1>1
    <3> QED
      BY <1>1, <1>2, <3>1, StoreAssumption DEF AnswersInv, OrderInv, Line
  <2>6. (\A k \in Keys : entries[k] # None => entries[k].exp <= now + Ttl)'
    BY <1>1, StoreAssumption DEF AnswersInv, OrderInv, StoreTypes, Entry
  <2> QED
    BY <1>1, <2>1, <2>2, <2>3, <2>4, <2>5, <2>6 DEF OrderInv
<1>5. FreshInv'
  <2>1. \A x \in FileLines(ledger) \cup LinesIn(writeQueue) : Fresh(x)'
    BY <1>1, <1>2, <1>3 DEF AnswersInv, FreshInv
  <2>2. ~damaged => \A k \in Keys :
          /\ durable[k] # None => Fresh(LineOf(k, durable[k]))'
          /\ promised[k] # None => Fresh(LineOf(k, promised[k]))'
    BY <1>1, <1>3 DEF AnswersInv, FreshInv
  <2>3. FileLines(ledger)' = FileLines(ledger) /\ LinesIn(writeQueue)' = LinesIn(writeQueue)
    BY <1>1
  <2> QED
    BY <1>1, <2>1, <2>2, <2>3 DEF FreshInv, LineOf
<1>6. LoadInv'
  BY <1>1, <1>3 DEF AnswersInv, LoadInv, Keeps
<1>7. RewritesCover'
  BY <1>1, <1>2, <1>3 DEF AnswersInv, RewritesCover, Keeps, Line
<1> QED
  BY <1>4, <1>5, <1>6, <1>7 DEF AnswersInv

LEMMA AnswersReceive ==
  ASSUME Typed, AnswersInv, NEW r \in Requests, NEW k \in Keys, Receive(r, k) PROVE AnswersInv'
<1> USE DEF Typed, TypesInv
<1>1. /\ phase = "ready"
      /\ UNCHANGED <<now, phase, ledger, writeQueue, promised, durable, damaged>>
  BY DEF Receive, Get, diskVars
<1>2. Purged
  BY DEF Receive, Get, Drop, Expired, Purged, StoreTypes
<1>3. \A x \in Line : Fresh(x) => Fresh(x)'
  BY <1>1, <1>2, PurgedKeepsFresh
<1>4. /\ FileLines(ledger) \subseteq Line /\ LinesIn(writeQueue) \subseteq Line
      /\ \A j \in Keys : durable[j] # None => LineOf(j, durable[j]) \in Line
      /\ \A j \in Keys : promised[j] # None => LineOf(j, promised[j]) \in Line
  BY FileLinesAre, QueueLinesAre DEF StoreTypes, LineOf, Line, Entry
<1>5. OrderInv'
  <2>1. \A j \in Keys : entries'[j] # None => entries[j] # None /\ entries'[j].exp <= now + Ttl
    BY <1>2 DEF AnswersInv, OrderInv, Purged
  <2> QED
    BY <1>1, <2>1 DEF AnswersInv, OrderInv, Ordered, AppendsAfter, Behind
<1>6. FreshInv'
  <2>1. \A x \in FileLines(ledger) \cup LinesIn(writeQueue) : Fresh(x)'
    BY <1>1, <1>3, <1>4 DEF AnswersInv, FreshInv
  <2>2. ~damaged => \A j \in Keys :
          /\ durable[j] # None => Fresh(LineOf(j, durable[j]))'
          /\ promised[j] # None => Fresh(LineOf(j, promised[j]))'
    BY <1>1, <1>3, <1>4 DEF AnswersInv, FreshInv
  <2>3. FileLines(ledger)' = FileLines(ledger) /\ LinesIn(writeQueue)' = LinesIn(writeQueue)
    BY <1>1
  <2> QED
    BY <1>1, <2>1, <2>2, <2>3 DEF FreshInv, LineOf
<1>7. LoadInv' /\ RewritesCover'
  BY <1>1 DEF AnswersInv, LoadInv, RewritesCover, Keeps, Live
<1> QED
  BY <1>5, <1>6, <1>7 DEF AnswersInv

(* The line of a new answer comes after all lines of its key: none lives      *)
(* longer, and the live ones say the same, as memory does.                    *)
LEMMA AnswersSet ==
  ASSUME Typed, AnswersInv, phase = "ready", NEW k \in Keys, NEW reply \in Replies,
         Set(k, reply)
  PROVE  AnswersInv'
<1> DEFINE entry == [reply |-> reply, exp |-> now + Ttl]
           line == LineOf(k, entry)
           write == [op |-> "append", lines |-> <<line>>]
           n == Len(writeQueue)
<1> USE DEF Typed, TypesInv
<1>1. /\ entry \in Entry /\ line \in Line /\ line.key = k /\ line.reply = reply
      /\ line.exp = now + Ttl /\ now \in Nat /\ Ttl \in Nat \ {0}
      /\ entry # None /\ entry.reply = reply /\ entry.exp = now + Ttl
  BY StoreAssumption DEF StoreTypes, Entry, LineOf, Line
<1>2. /\ entries' = [entries EXCEPT ![k] = entry]
      /\ entries[k] # None => entries[k].reply = reply
      /\ writeQueue' = Append(writeQueue, write)
      /\ promised' = [promised EXCEPT ![k] = entry]
      /\ UNCHANGED <<now, phase, ledger, durable, damaged>>
  BY DEF Set, MaySet, Publish
<1>3. write \in Write /\ write.op = "append" /\ write.lines = <<line>> /\ write.lines[1] = line
  BY <1>1 DEF Write
<1>3a. line' = line
  BY <1>2 DEF LineOf
<1> HIDE DEF entry, line, write
<1>4. /\ n \in Nat /\ Len(writeQueue') = n + 1
      /\ \A i \in 1..n : writeQueue'[i] = writeQueue[i]
      /\ writeQueue'[n + 1] = write
  BY <1>2, <1>3, AppendProperties DEF StoreTypes
<1> HIDE DEF n
<1>5. /\ FileLines(ledger) \subseteq Line /\ LinesIn(writeQueue) \subseteq Line
      /\ \A q \in 1..n : /\ writeQueue[q].lines \in Seq(Line)
                         /\ ToSet(writeQueue[q].lines) \subseteq LinesIn(writeQueue)
      /\ ToSet(write.lines) = {line} /\ Len(write.lines) = 1
  <2>1. /\ FileLines(ledger) \subseteq Line /\ LinesIn(writeQueue) \subseteq Line
        /\ \A q \in 1..n : /\ writeQueue[q].lines \in Seq(Line)
                           /\ ToSet(writeQueue[q].lines) \subseteq LinesIn(writeQueue)
    BY FileLinesAre, QueueLinesAre DEF StoreTypes, n
  <2>2. ToSet(write.lines) = {line} /\ Len(write.lines) = 1
    BY <1>3 DEF ToSet
  <2> QED
    BY <2>1, <2>2
<1>6. LinesIn(writeQueue') = LinesIn(writeQueue) \cup {line}
  <2>1. \A x : x \in LinesIn(writeQueue') <=>
                 \/ \E q \in 1..n : x \in ToSet(writeQueue[q].lines)
                 \/ x = line
    <3>1. \A x : x \in LinesIn(writeQueue') <=>
                   \E q \in 1..n + 1 : x \in ToSet(writeQueue'[q].lines)
      BY <1>4 DEF LinesIn
    <3>2. \A q \in 1..n + 1 : q \in 1..n \/ q = n + 1
      BY <1>4
    <3>3. 1..n \subseteq 1..n + 1 /\ n + 1 \in 1..n + 1
      BY <1>4
    <3>4. \A q \in 1..n : writeQueue'[q].lines = writeQueue[q].lines
      BY <1>4
    <3>5. ToSet(writeQueue'[n + 1].lines) = {line}
      BY <1>4, <1>5
    <3> QED
      BY <3>1, <3>2, <3>3, <3>4, <3>5
  <2>2. \A x : x \in LinesIn(writeQueue) <=> \E q \in 1..n : x \in ToSet(writeQueue[q].lines)
    BY DEF LinesIn, n
  <2> QED
    BY <2>1, <2>2
<1>7. \A x \in FileLines(ledger) \cup LinesIn(writeQueue) : x \in Line /\ Behind(x, line)
  <2>1. ASSUME NEW x \in FileLines(ledger) \cup LinesIn(writeQueue), x.key = k
        PROVE  x.exp <= now + Ttl /\ (x.exp > now => x.reply = reply)
    <3>1. x \in Line /\ Fresh(x) /\ x.exp <= now + Ttl
      BY <1>5 DEF AnswersInv, OrderInv, FreshInv
    <3> QED
      BY <1>2, <2>1, <3>1 DEF Fresh
  <2> QED
    BY <1>1, <1>5, <2>1 DEF Behind
<1>8. OrderInv'
  <2>1. Ordered(ledger)'
    BY <1>2 DEF AnswersInv, OrderInv, Ordered, Behind
  <2>2. (\A p \in 1..Len(writeQueue) : Ordered(writeQueue[p].lines))'
    <3>1. ASSUME NEW p \in 1..n + 1 PROVE Ordered(writeQueue[p].lines)'
      <4>1. CASE p \in 1..n
        <5>1. Ordered(writeQueue[p].lines)
          BY <4>1 DEF AnswersInv, OrderInv, n
        <5> QED
          BY <1>2, <1>4, <4>1, <5>1 DEF Ordered, Behind
      <4>2. CASE p = n + 1
        <5>1. writeQueue'[p].lines = <<line>>
          BY <1>3, <1>4, <4>2
        <5> QED
          BY <1>1, <5>1 DEF Ordered, Behind, Line
      <4> QED
        BY <1>4, <4>1, <4>2
    <3> QED
      BY <1>4, <3>1
  <2>3. AppendsAfter(FileLines(ledger), 0)'
    <3>1. AppendsAfter(FileLines(ledger), 0)
      BY DEF AnswersInv, OrderInv
    <3> QED
      BY <1>2, <1>3, <1>4, <1>7, <3>1 DEF AppendsAfter, Behind, n
  <2>4. ASSUME NEW p \in 1..n + 1
        PROVE  AppendsAfter(ToSet(writeQueue[p].lines), p)'
    <3>1. CASE p \in 1..n
      <4>1. AppendsAfter(ToSet(writeQueue[p].lines), p)
        BY <3>1 DEF AnswersInv, OrderInv, n
      <4>2. \A x \in ToSet(writeQueue[p].lines) : Behind(x, line)
        BY <1>5, <1>7, <3>1
      <4>3. ASSUME NEW q \in 1..n + 1, p < q, writeQueue'[q].op = "append",
                   NEW x \in ToSet(writeQueue[p].lines)
            PROVE  Behind(x, writeQueue'[q].lines[1])
        <5>1. CASE q \in 1..n
          BY <1>4, <4>1, <4>3, <5>1 DEF AppendsAfter, n
        <5>2. CASE q = n + 1
          BY <1>3, <1>4, <4>2, <5>2
        <5> QED
          BY <1>4, <5>1, <5>2
      <4>4. writeQueue'[p] = writeQueue[p]
        BY <1>4, <3>1
      <4> QED
        BY <1>2, <1>4, <4>3, <4>4 DEF AppendsAfter, Behind
    <3>2. CASE p = n + 1
      BY <1>4, <3>2 DEF AppendsAfter
    <3> QED
      BY <1>4, <3>1, <3>2
  <2>5. (\A x \in FileLines(ledger) \cup LinesIn(writeQueue) : x.exp <= now + Ttl)'
    BY <1>1, <1>2, <1>6 DEF AnswersInv, OrderInv
  <2>6. (\A j \in Keys : entries[j] # None => entries[j].exp <= now + Ttl)'
    BY <1>1, <1>2 DEF AnswersInv, OrderInv, StoreTypes
  <2> QED
    BY <1>4, <2>1, <2>2, <2>3, <2>4, <2>5, <2>6 DEF OrderInv
<1>9. \A x \in Line : Fresh(x) /\ x.exp <= now + Ttl => Fresh(x)'
  BY <1>1, <1>2 DEF Fresh, StoreTypes, Line
<1>10. FreshInv'
  <2>1. \A x : x = line => Fresh(x)'
    BY <1>1, <1>2 DEF Fresh, StoreTypes
  <2>2. \A x \in FileLines(ledger) \cup LinesIn(writeQueue) \cup {line} : Fresh(x)'
    <3>1. \A x \in FileLines(ledger) \cup LinesIn(writeQueue) : Fresh(x)
      BY DEF AnswersInv, FreshInv
    <3>2. \A x \in FileLines(ledger) \cup LinesIn(writeQueue) : x.exp <= now + Ttl
      BY DEF AnswersInv, OrderInv
    <3>3. \A x \in FileLines(ledger) \cup LinesIn(writeQueue) : Fresh(x)'
      BY <1>5, <1>9, <3>1, <3>2
    <3> QED
      BY <2>1, <3>3
  <2>3. ASSUME ~damaged, NEW j \in Keys, NEW e \in Entry, e \in {durable[j], promised[j]}
        PROVE  Fresh(LineOf(j, e))'
    <3>1. LineOf(j, e) \in Line /\ Fresh(LineOf(j, e))
          /\ LineOf(j, e).key = j /\ LineOf(j, e).exp = e.exp
      BY <2>3, StoreAssumption DEF AnswersInv, FreshInv, LineOf, Line, Entry
    <3>2. CASE e.exp > now
      <4>1. entries[j] # None /\ e.exp <= entries[j].exp /\ entries[j].exp <= now + Ttl
            /\ entries[j] \in Entry
        BY <3>1, <3>2 DEF Fresh, AnswersInv, OrderInv, StoreTypes
      <4>2. e.exp <= now + Ttl
        BY <1>1, <4>1 DEF Entry
      <4> QED
        BY <1>9, <3>1, <4>2
    <3>3. CASE ~(e.exp > now)
      BY <1>2, <3>1, <3>3 DEF Fresh
    <3> QED
      BY <3>2, <3>3
  <2>4. ASSUME ~damaged, NEW j \in Keys
        PROVE  /\ durable'[j] # None => Fresh(LineOf(j, durable[j]))'
               /\ promised'[j] # None => Fresh(LineOf(j, promised[j]))'
    <3>1. durable[j] # None => Fresh(LineOf(j, durable[j]))'
      BY <1>2, <2>3, <2>4 DEF StoreTypes, LineOf
    <3>2. CASE j = k
      <4>1. promised'[j] = entry
        BY <1>2, <3>2 DEF StoreTypes
      <4>2. LineOf(j, promised'[j]) = line
        BY <3>2, <4>1 DEF line
      <4> QED
        BY <1>2, <1>3a, <2>1, <3>1, <4>2
    <3>3. CASE j # k
      <4>1. promised'[j] = promised[j]
        BY <1>2, <3>3 DEF StoreTypes
      <4>2. promised[j] # None => Fresh(LineOf(j, promised[j]))'
        BY <2>3, <2>4, <4>1 DEF StoreTypes, LineOf
      <4> QED
        BY <1>2, <3>1, <4>1, <4>2
    <3> QED
      BY <3>2, <3>3
  <2> QED
    BY <1>2, <1>6, <2>2, <2>4 DEF FreshInv
<1>11. LoadInv'
  BY <1>2 DEF AnswersInv, LoadInv, Keeps, Live
<1>12. RewritesCover'
  <2>1. ASSUME NEW p \in 1..n, writeQueue[p].op = "rewrite"
        PROVE  /\ ~damaged => \A j \in Keys : Live(durable[j]) => Keeps(writeQueue[p].lines, j)
               /\ \A q \in 1..p - 1 :
                    LET x == writeQueue[q].lines[1] IN
                    writeQueue[q].op = "append" /\ x.exp > now =>
                      \E y \in ToSet(writeQueue[p].lines) : y.key = x.key /\ y.exp >= x.exp
    BY <2>1 DEF AnswersInv, RewritesCover, n
  <2>2. \A p \in 1..n + 1 : p # n + 1 => p \in 1..n /\ writeQueue'[p] = writeQueue[p]
    BY <1>4
  <2>3. \A p \in 1..n + 1 : writeQueue'[p].op = "rewrite" => p \in 1..n
    BY <1>3, <1>4, <2>2
  <2>4. ASSUME NEW p \in 1..Len(writeQueue'), writeQueue'[p].op = "rewrite"
        PROVE  /\ ~damaged' => \A j \in Keys : Live(durable[j])' => Keeps(writeQueue[p].lines, j)'
               /\ \A q \in 1..p - 1 :
                    LET x == writeQueue'[q].lines[1] IN
                    writeQueue'[q].op = "append" /\ x.exp > now' =>
                      \E y \in ToSet(writeQueue'[p].lines) : y.key = x.key /\ y.exp >= x.exp
    <3>1. p \in 1..n /\ writeQueue'[p] = writeQueue[p] /\ writeQueue[p].op = "rewrite"
          /\ \A q \in 1..p - 1 : writeQueue'[q] = writeQueue[q]
      BY <1>4, <2>3, <2>4
    <3> QED
      BY <1>2, <2>1, <3>1 DEF Keeps, Live
  <2> QED
    BY <2>4 DEF RewritesCover
<1> QED
  BY <1>8, <1>10, <1>11, <1>12 DEF AnswersInv

LEMMA AnswersAnswer ==
  ASSUME Typed, AnswersInv, NEW r \in Requests, NEW reply \in Replies, Answer(r, reply)
  PROVE  AnswersInv'
<1>1. request[r] \in Keys /\ phase = "ready"
  BY DEF Answer, Typed, TypesInv, StoreTypes, LoadAlone
<1>2. CASE Set(request[r], reply)
  BY <1>1, <1>2, AnswersSet
<1>3. CASE UNCHANGED storeVars
  BY <1>3 DEF storeVars, memVars, diskVars, AnswersInv, OrderInv, FreshInv, LoadInv, RewritesCover,
              Ordered, AppendsAfter, Behind, Fresh, Keeps, Live, FileLines, LinesIn
<1> QED
  BY <1>2, <1>3 DEF Answer

(* The write in progress is the first of the queue.                           *)
LEMMA HeadLines ==
  ASSUME Typed, AnswersInv, writeQueue # <<>>
  PROVE  /\ Head(writeQueue) = writeQueue[1] /\ 1 \in 1..Len(writeQueue)
         /\ Head(writeQueue).lines \in Seq(Line)
         /\ ToSet(Head(writeQueue).lines) \subseteq LinesIn(writeQueue)
         /\ FileLines(Head(writeQueue).lines) = ToSet(Head(writeQueue).lines)
         /\ Ordered(Head(writeQueue).lines)
         /\ AppendsAfter(ToSet(Head(writeQueue).lines), 1)
         /\ Head(writeQueue).op = "append" =>
              /\ Head(writeQueue).lines[1] \in Line
              /\ ToSet(Head(writeQueue).lines) = {Head(writeQueue).lines[1]}
              /\ \A x \in FileLines(ledger) : Behind(x, Head(writeQueue).lines[1])
<1>1. /\ Head(writeQueue) = writeQueue[1] /\ 1 \in 1..Len(writeQueue)
      /\ writeQueue \in Seq(Write)
  BY TailOfQueue DEF Typed, TypesInv, StoreTypes
<1>2. /\ writeQueue[1].lines \in Seq(Line)
      /\ ToSet(writeQueue[1].lines) \subseteq LinesIn(writeQueue)
      /\ FileLines(writeQueue[1].lines) = ToSet(writeQueue[1].lines)
      /\ writeQueue[1].op = "append" =>
           /\ writeQueue[1].lines[1] \in Line
           /\ ToSet(writeQueue[1].lines) = {writeQueue[1].lines[1]}
  BY <1>1, QueueLinesAre
<1>3. /\ Ordered(writeQueue[1].lines) /\ AppendsAfter(ToSet(writeQueue[1].lines), 1)
      /\ AppendsAfter(FileLines(ledger), 0)
  BY <1>1 DEF AnswersInv, OrderInv
<1>4. writeQueue[1].op = "append" =>
        \A x \in FileLines(ledger) : Behind(x, writeQueue[1].lines[1])
  BY <1>1, <1>3 DEF AppendsAfter
<1> QED
  BY <1>1, <1>2, <1>3, <1>4

(* An append adds its line, after all others of its key.                      *)
LEMMA AppendedLines ==
  ASSUME NEW file \in Seq(Line \cup {Torn}), NEW line \in Line, Ordered(file),
         \A x \in FileLines(file) : Behind(x, line)
  PROVE  /\ Append(file, line) \in Seq(Line \cup {Torn})
         /\ FileLines(Append(file, line)) = FileLines(file) \cup {line}
         /\ ToSet(file) \subseteq ToSet(Append(file, line))
         /\ line \in ToSet(Append(file, line))
         /\ Ordered(Append(file, line))
<1> DEFINE new == Append(file, line)
<1>1. /\ new \in Seq(Line \cup {Torn}) /\ Len(file) \in Nat /\ Len(new) = Len(file) + 1
      /\ \A i \in 1..Len(file) : new[i] = file[i]
      /\ new[Len(file) + 1] = line
  BY AppendProperties
<1> HIDE DEF new
<1>2. \A i \in 1..Len(new) : i \in 1..Len(file) \/ i = Len(file) + 1
  BY <1>1
<1>3. 1..Len(file) \subseteq 1..Len(new) /\ Len(file) + 1 \in 1..Len(new)
  BY <1>1
<1>4. line # Torn
  BY StoreAssumption
<1>5. FileLines(new) = FileLines(file) \cup {line}
  BY <1>1, <1>2, <1>3, <1>4, FileLinesAre
<1>6. ToSet(file) \subseteq ToSet(new) /\ line \in ToSet(new)
  <2>1. DOMAIN file = 1..Len(file) /\ DOMAIN new = 1..Len(new)
    BY <1>1
  <2> QED
    BY <1>1, <1>3, <2>1 DEF ToSet
<1>7. ASSUME NEW i \in 1..Len(new), NEW j \in 1..Len(new), i <= j,
             new[i] # Torn, new[j] # Torn
      PROVE  Behind(new[i], new[j])
  <2>1. CASE j \in 1..Len(file)
    BY <1>1, <1>7, <2>1 DEF Ordered
  <2>2. CASE i \in 1..Len(file) /\ j = Len(file) + 1
    BY <1>1, <1>7, <2>2, FileLinesAre
  <2>3. CASE i = Len(file) + 1 /\ j = Len(file) + 1
    BY <1>1, <2>3 DEF Behind, Line
  <2> QED
    BY <1>1, <1>2, <1>7, <2>1, <2>2, <2>3
<1> QED
  BY <1>1, <1>5, <1>6, <1>7 DEF Ordered, new

(* A queue whose writes are those of an earlier queue from p + 1 on, perhaps  *)
(* with a compaction at its end, keeps their order.                           *)
LEMMA QueueOrder ==
  ASSUME Typed, AnswersInv, now' = now, Purged, NEW d \in {0, 1}, Len(writeQueue') \in Nat,
         \A q \in 1..Len(writeQueue') :
           \/ q + d \in 1..Len(writeQueue) /\ writeQueue'[q] = writeQueue[q + d]
           \/ q = Len(writeQueue') /\ writeQueue'[q] = Compaction
  PROVE  /\ \A x \in LinesIn(writeQueue') : x \in Line /\ x.exp <= now + Ttl
         /\ phase = "ready" => \A x \in LinesIn(writeQueue') : Fresh(x)'
         /\ \A q \in 1..Len(writeQueue') : Ordered(writeQueue'[q].lines)
         /\ \A q \in 1..Len(writeQueue') : AppendsAfter(ToSet(writeQueue[q].lines), q)'
         /\ \A lines : AppendsAfter(lines, d) => AppendsAfter(lines, 0)'
<1> USE DEF Typed, TypesInv
<1>1. /\ Compaction.op = "rewrite" /\ Ordered(Compaction.lines)
      /\ \A x \in ToSet(Compaction.lines) :
           x \in Line /\ Fresh(x) /\ x.exp <= now + Ttl
  <2>1. \A x \in ToSet(Compaction.lines) :
          x \in Line /\ Fresh(x) /\ entries[x.key] # None /\ x.exp = entries[x.key].exp
    BY CompactionLines
  <2>2. \A x \in Line : entries[x.key] # None => entries[x.key].exp <= now + Ttl
    BY DEF AnswersInv, OrderInv, Line
  <2> QED
    BY <2>1, <2>2, CompactionLines
<1>2. \A x : x \in LinesIn(writeQueue') <=>
               \E q \in 1..Len(writeQueue') : x \in ToSet(writeQueue'[q].lines)
  BY DEF LinesIn
<1>3. /\ LinesIn(writeQueue) \subseteq Line
      /\ \A q \in 1..Len(writeQueue) : ToSet(writeQueue[q].lines) \subseteq LinesIn(writeQueue)
      /\ Len(writeQueue) \in Nat
  BY QueueLinesAre DEF StoreTypes
<1>4. ASSUME NEW x \in LinesIn(writeQueue')
      PROVE  x \in LinesIn(writeQueue) \/ x \in ToSet(Compaction.lines)
  <2>1. PICK q \in 1..Len(writeQueue') : x \in ToSet(writeQueue'[q].lines)
    BY <1>2
  <2> QED
    BY <1>3, <2>1
<1>5. \A x \in LinesIn(writeQueue') : x \in Line /\ x.exp <= now + Ttl
  <2>1. \A x \in LinesIn(writeQueue) : x.exp <= now + Ttl
    BY DEF AnswersInv, OrderInv
  <2> QED
    BY <1>1, <1>3, <1>4, <2>1
<1>6. ASSUME phase = "ready", NEW x \in LinesIn(writeQueue') PROVE Fresh(x)'
  <2>1. x \in Line /\ Fresh(x)
    BY <1>1, <1>4, <1>5, <1>6 DEF AnswersInv, FreshInv
  <2> QED
    BY <2>1, PurgedKeepsFresh
<1>7. ASSUME NEW q \in 1..Len(writeQueue') PROVE Ordered(writeQueue'[q].lines)
  <2>1. CASE q + d \in 1..Len(writeQueue) /\ writeQueue'[q] = writeQueue[q + d]
    BY <2>1 DEF AnswersInv, OrderInv
  <2>2. CASE writeQueue'[q] = Compaction
    BY <1>1, <2>2
  <2> QED
    BY <2>1, <2>2
<1>8. ASSUME NEW q \in 1..Len(writeQueue'), NEW r \in 1..Len(writeQueue'), q < r,
             writeQueue'[r].op = "append", NEW x \in ToSet(writeQueue'[q].lines)
      PROVE  Behind(x, writeQueue[r].lines[1])'
  <2>1. r + d \in 1..Len(writeQueue) /\ writeQueue'[r] = writeQueue[r + d]
    BY <1>1, <1>8
  <2>2. q + d \in 1..Len(writeQueue) /\ writeQueue'[q] = writeQueue[q + d] /\ q + d < r + d
    BY <1>8
  <2>3. AppendsAfter(ToSet(writeQueue[q + d].lines), q + d)
    BY <2>2 DEF AnswersInv, OrderInv
  <2>4. Behind(x, writeQueue[r + d].lines[1])
    BY <1>8, <2>1, <2>2, <2>3 DEF AppendsAfter
  <2> QED
    BY <2>1, <2>4 DEF Behind
<1>9. ASSUME NEW lines, AppendsAfter(lines, d) PROVE AppendsAfter(lines, 0)'
  <2>1. ASSUME NEW r \in 1..Len(writeQueue'), writeQueue'[r].op = "append", NEW x \in lines
        PROVE  Behind(x, writeQueue[r].lines[1])'
    <3>1. r + d \in 1..Len(writeQueue) /\ writeQueue'[r] = writeQueue[r + d] /\ d < r + d
      BY <1>1, <2>1
    <3>2. Behind(x, writeQueue[r + d].lines[1])
      BY <1>9, <2>1, <3>1 DEF AppendsAfter
    <3> QED
      BY <3>1, <3>2 DEF Behind
  <2> QED
    BY <2>1 DEF AppendsAfter
<1> QED
  BY <1>5, <1>6, <1>7, <1>8, <1>9 DEF AppendsAfter

LEMMA AnswersAppendDone ==
  ASSUME Typed, AnswersInv, AppendDone PROVE AnswersInv'
<1> DEFINE head == Head(writeQueue)
           line == head.lines[1]
           queue == Tail(writeQueue)
<1> USE DEF Typed, TypesInv
<1>1. /\ writeQueue # <<>> /\ head.op = "append" /\ head \in Write /\ phase = "ready"
      /\ queue \in Seq(Write) /\ Len(queue) = Len(writeQueue) - 1
      /\ \A i \in 1..Len(queue) : queue[i] = writeQueue[i + 1]
      /\ head = writeQueue[1] /\ 1 \in 1..Len(writeQueue) /\ Len(writeQueue) \in Nat
  BY TailOfQueue, HeadLines DEF AppendDone, LoadAlone
<1>2. /\ line \in Line /\ line \in LinesIn(writeQueue)
      /\ \A x \in FileLines(ledger) : Behind(x, line)
      /\ AppendsAfter({line}, 1)
  BY <1>1, HeadLines
<1>3. /\ ledger' = Written(ledger, head)
      /\ damaged' = (damaged \/ unterminated)
      /\ durable' = [durable EXCEPT ![line.key] = [reply |-> line.reply, exp |-> line.exp]]
      /\ MaybeCompact(queue)
      /\ UNCHANGED <<now, phase, offset, promised>>
  BY DEF AppendDone
<1> HIDE DEF head, queue, line
<1>4. /\ ledger \in Seq(Line \cup {Torn}) /\ ledger' \in Seq(Line \cup {Torn})
      /\ FileLines(ledger) \subseteq Line
      /\ Ordered(ledger') /\ FileLines(ledger') \subseteq FileLines(ledger) \cup {line}
      /\ ~damaged' => /\ ToSet(ledger) \subseteq ToSet(ledger') /\ line \in ToSet(ledger')
  <2>1. ledger \in Seq(Line \cup {Torn}) /\ Ordered(ledger)
        /\ FileLines(ledger) \subseteq Line /\ unterminated \in BOOLEAN
    BY FileLinesAre DEF StoreTypes, AnswersInv, OrderInv
  <2>2. ledger' \in Seq(Line \cup {Torn})
    BY <1>1, <1>3, WrittenLines
  <2>3. CASE unterminated
    <3>1. Traces(ledger', ledger)
      BY <1>1, <1>3, <2>3, WrittenLines
    <3> QED
      BY <1>3, <2>1, <2>2, <2>3, <3>1, TracesKeep
  <2>4. CASE ~unterminated
    <3>1. ledger' = Append(ledger, line)
      BY <1>1, <1>3, <2>4, WrittenLines DEF line
    <3> QED
      BY <1>2, <2>1, <2>2, <3>1, AppendedLines
  <2> QED
    BY <2>3, <2>4
<1>5. /\ Purged /\ Len(writeQueue') \in Nat
      /\ \A q \in 1..Len(writeQueue') :
           \/ q + 1 \in 1..Len(writeQueue) /\ writeQueue'[q] = writeQueue[q + 1]
           \/ q = Len(writeQueue') /\ writeQueue'[q] = Compaction
  <2>1. /\ Purged /\ Len(queue) \in Nat /\ Len(writeQueue') \in {Len(queue), Len(queue) + 1}
        /\ \A q \in 1..Len(writeQueue') :
             \/ q \in 1..Len(queue) /\ writeQueue'[q] = queue[q]
             \/ q = Len(queue) + 1 /\ writeQueue'[q] = Compaction
    BY <1>1, <1>3, MaybeCompactEffect
  <2> QED
    BY <1>1, <2>1
<1>6. /\ \A x \in LinesIn(writeQueue') : x \in Line /\ x.exp <= now + Ttl
      /\ \A x \in LinesIn(writeQueue') : Fresh(x)'
      /\ \A q \in 1..Len(writeQueue') : Ordered(writeQueue'[q].lines)
      /\ \A q \in 1..Len(writeQueue') : AppendsAfter(ToSet(writeQueue[q].lines), q)'
      /\ \A lines : AppendsAfter(lines, 1) => AppendsAfter(lines, 0)'
  BY <1>1, <1>3, <1>5, QueueOrder
<1>7. OrderInv'
  <2>1. Ordered(ledger)'
    BY <1>3, <1>4 DEF Ordered, Behind
  <2>2. (\A p \in 1..Len(writeQueue) : Ordered(writeQueue[p].lines))'
    BY <1>3, <1>6 DEF Ordered, Behind
  <2>3. AppendsAfter(FileLines(ledger), 0)'
    <3>1. AppendsAfter(FileLines(ledger), 0)
      BY DEF AnswersInv, OrderInv
    <3>2. AppendsAfter(FileLines(ledger'), 1)
      BY <1>2, <1>4, <3>1 DEF AppendsAfter
    <3>3. \A lines : lines = FileLines(ledger') => AppendsAfter(lines, 0)'
      BY <1>6, <3>2
    <3> QED
      BY <3>3 DEF AppendsAfter
  <2>4. (\A x \in FileLines(ledger) \cup LinesIn(writeQueue) : x.exp <= now + Ttl)'
    BY <1>2, <1>3, <1>4, <1>6 DEF AnswersInv, OrderInv
  <2>5. (\A j \in Keys : entries[j] # None => entries[j].exp <= now + Ttl)'
    BY <1>3, <1>5 DEF AnswersInv, OrderInv, Purged
  <2> QED
    BY <1>6, <2>1, <2>2, <2>3, <2>4, <2>5 DEF OrderInv
<1>8. \A x \in Line : Fresh(x) => Fresh(x)'
  BY <1>3, <1>5, PurgedKeepsFresh
<1>9. FreshInv'
  <2>1. \A x \in FileLines(ledger') \cup LinesIn(writeQueue') : Fresh(x)'
    <3>1. \A x \in FileLines(ledger) \cup {line} : x \in Line /\ Fresh(x)
      BY <1>1, <1>2, <1>4 DEF AnswersInv, FreshInv
    <3> QED
      BY <1>4, <1>6, <1>8, <3>1
  <2>2. ASSUME ~damaged', NEW j \in Keys
        PROVE  /\ \A x : x = LineOf(j, durable'[j]) /\ durable'[j] # None => Fresh(x)'
               /\ \A x : x = LineOf(j, promised'[j]) /\ promised'[j] # None => Fresh(x)'
    <3>1. /\ durable[j] # None => Fresh(LineOf(j, durable[j])) /\ LineOf(j, durable[j]) \in Line
          /\ promised[j] # None => Fresh(LineOf(j, promised[j])) /\ LineOf(j, promised[j]) \in Line
      BY <1>1, <1>3, <2>2 DEF AnswersInv, FreshInv, StoreTypes, LineOf, Line, Entry
    <3>2. \/ durable'[j] = durable[j]
          \/ j = line.key /\ durable'[j] = [reply |-> line.reply, exp |-> line.exp]
      BY <1>3 DEF StoreTypes
    <3>3. LineOf(line.key, [reply |-> line.reply, exp |-> line.exp]) = line
      BY <1>2 DEF LineOf, Line
    <3>4. Fresh(line)
      BY <1>1, <1>2 DEF AnswersInv, FreshInv
    <3> QED
      BY <1>2, <1>3, <1>8, <3>1, <3>2, <3>3, <3>4
  <2> QED
    BY <2>1, <2>2 DEF FreshInv, LineOf
<1>10. ASSUME NEW j \in Keys, Live(durable'[j])
       PROVE  \/ j = line.key /\ durable'[j].exp = line.exp
              \/ durable'[j] = durable[j]
  BY <1>3 DEF StoreTypes
<1>11. LoadInv'
  <2>1. ASSUME ~damaged', NEW j \in Keys, Live(durable'[j])
        PROVE  \E x \in ToSet(ledger') : x # Torn /\ x.key = j /\ x.exp >= durable'[j].exp
    <3>1. CASE j = line.key /\ durable'[j].exp = line.exp
      BY <1>2, <1>4, <2>1, <3>1, StoreAssumption DEF Line
    <3>2. CASE durable'[j] = durable[j]
      <4>1. Keeps(ledger, j)
        BY <1>3, <2>1, <3>2 DEF AnswersInv, LoadInv
      <4> QED
        BY <1>4, <2>1, <3>2, <4>1 DEF Keeps
    <3> QED
      BY <1>10, <2>1, <3>1, <3>2
  <2> QED
    BY <1>1, <1>3, <2>1 DEF LoadInv, Keeps, Live
<1>12. RewritesCover'
  <2>1. ASSUME NEW p \in 1..Len(writeQueue'), writeQueue'[p].op = "rewrite",
               ~damaged', NEW j \in Keys, Live(durable'[j])
        PROVE  \E x \in ToSet(writeQueue'[p].lines) :
                 x # Torn /\ x.key = j /\ x.exp >= durable'[j].exp
    <3>1. CASE p + 1 \in 1..Len(writeQueue) /\ writeQueue'[p] = writeQueue[p + 1]
      <4>1. /\ ~damaged => \A k \in Keys : Live(durable[k]) => Keeps(writeQueue[p + 1].lines, k)
            /\ \A q \in 1..p :
                 LET x == writeQueue[q].lines[1] IN
                 writeQueue[q].op = "append" /\ x.exp > now =>
                   \E y \in ToSet(writeQueue[p + 1].lines) : y.key = x.key /\ y.exp >= x.exp
        BY <2>1, <3>1 DEF AnswersInv, RewritesCover
      <4>2. CASE j = line.key /\ durable'[j].exp = line.exp
        <5>1. 1 \in 1..p /\ writeQueue[1].op = "append" /\ writeQueue[1].lines[1] = line
              /\ line.exp > now
          BY <1>1, <2>1, <4>2 DEF Live, line
        <5>2. PICK y \in ToSet(writeQueue[p + 1].lines) : y.key = line.key /\ y.exp >= line.exp
          BY <4>1, <5>1
        <5>3. y \in Line
          BY <3>1, <5>2, QueueLinesAre DEF StoreTypes
        <5> QED
          BY <3>1, <4>2, <5>2, <5>3, StoreAssumption
      <4>3. CASE durable'[j] = durable[j]
        BY <1>3, <2>1, <3>1, <4>1, <4>3 DEF Keeps
      <4> QED
        BY <1>10, <2>1, <4>2, <4>3
    <3>2. CASE writeQueue'[p] = Compaction
      <4> DEFINE last == LineOf(j, durable'[j])
      <4>1. last \in Line /\ last.key = j /\ last.exp = durable'[j].exp /\ last.exp > now
            /\ durable'[j] # None
        <5>1. durable'[j] \in Entry
          BY <1>2, <1>3, <2>1 DEF Live, StoreTypes, Line, Entry
        <5> QED
          BY <2>1, <5>1, StoreAssumption DEF LineOf, Line, Entry, Live
      <4>2. Fresh(last)
        <5>1. \/ durable'[j] = durable[j]
              \/ last = line
          BY <1>2, <1>3 DEF StoreTypes, LineOf, Line
        <5>2. Fresh(line)
          BY <1>1, <1>2 DEF AnswersInv, FreshInv
        <5>3. durable[j] # None => Fresh(LineOf(j, durable[j]))
          BY <1>1, <1>3, <2>1 DEF AnswersInv, FreshInv
        <5> QED
          BY <4>1, <5>1, <5>2, <5>3
      <4>3. PICK y \in ToSet(Compaction.lines) : y.key = last.key /\ y.exp >= last.exp
        <5> HIDE DEF last
        <5> QED  BY <4>1, <4>2, CompactionLines
      <4>4. y \in Line
        BY <4>3, CompactionLines
      <4> QED
        BY <3>2, <4>1, <4>3, <4>4, StoreAssumption
    <3> QED
      BY <1>5, <2>1, <3>1, <3>2
  <2>2. ASSUME NEW p \in 1..Len(writeQueue'), writeQueue'[p].op = "rewrite",
               NEW q \in 1..p - 1, writeQueue'[q].op = "append",
               writeQueue'[q].lines[1].exp > now
        PROVE  \E y \in ToSet(writeQueue'[p].lines) :
                 /\ y.key = writeQueue'[q].lines[1].key
                 /\ y.exp >= writeQueue'[q].lines[1].exp
    <3>1. q + 1 \in 1..Len(writeQueue) /\ writeQueue'[q] = writeQueue[q + 1]
      BY <1>5, <2>2
    <3>2. CASE p + 1 \in 1..Len(writeQueue) /\ writeQueue'[p] = writeQueue[p + 1]
      <4>1. q + 1 \in 1..(p + 1) - 1
        BY <2>2
      <4> QED
        BY <2>2, <3>1, <3>2, <4>1 DEF AnswersInv, RewritesCover
    <3>3. CASE writeQueue'[p] = Compaction
      <4> DEFINE x == writeQueue[q + 1].lines[1]
      <4>1. x \in Line /\ x \in LinesIn(writeQueue) /\ x.exp > now
        BY <2>2, <3>1, QueueLinesAre DEF StoreTypes
      <4>2. Fresh(x)
        BY <1>1, <4>1 DEF AnswersInv, FreshInv
      <4>3. \E y \in ToSet(Compaction.lines) : y.key = x.key /\ y.exp >= x.exp
        <5> HIDE DEF x
        <5> QED  BY <4>1, <4>2, CompactionLines
      <4> QED
        BY <3>1, <3>3, <4>3
    <3> QED
      BY <1>5, <2>2, <3>2, <3>3
  <2> QED
    BY <1>3, <2>1, <2>2 DEF RewritesCover, Keeps, Live
<1> QED
  BY <1>7, <1>9, <1>11, <1>12 DEF AnswersInv

(* A compaction replaces the file by lines that were queued, and was asked    *)
(* for when the memory was no older than what has been written since.         *)
LEMMA AnswersRewriteDone ==
  ASSUME Typed, AnswersInv, RewriteDone PROVE AnswersInv'
<1> DEFINE head == Head(writeQueue)
<1> USE DEF Typed, TypesInv
<1>1. /\ writeQueue # <<>> /\ head.op = "rewrite" /\ head \in Write /\ phase = "ready"
      /\ Len(Tail(writeQueue)) = Len(writeQueue) - 1
      /\ \A i \in 1..Len(Tail(writeQueue)) : Tail(writeQueue)[i] = writeQueue[i + 1]
      /\ \A i \in 1..Len(Tail(writeQueue)) : Tail(writeQueue)[i].op # "rewrite"
      /\ head = writeQueue[1] /\ 1 \in 1..Len(writeQueue) /\ Len(writeQueue) \in Nat
  BY TailOfQueue, HeadLines DEF RewriteDone, LoadAlone
<1>2. /\ head.lines \in Seq(Line) /\ Ordered(head.lines)
      /\ FileLines(head.lines) = ToSet(head.lines)
      /\ ToSet(head.lines) \subseteq LinesIn(writeQueue)
      /\ AppendsAfter(ToSet(head.lines), 1)
  BY <1>1, HeadLines
<1>3. /\ ledger' = Written(ledger, head) /\ writeQueue' = Tail(writeQueue)
      /\ UNCHANGED <<now, phase, entries, promised, durable, damaged>>
  BY DEF RewriteDone
<1> HIDE DEF head
<1>4. ledger' = head.lines
  BY <1>1, <1>3, WrittenLines
<1>5. /\ Purged /\ Len(writeQueue') \in Nat
      /\ \A q \in 1..Len(writeQueue') :
           \/ q + 1 \in 1..Len(writeQueue) /\ writeQueue'[q] = writeQueue[q + 1]
           \/ q = Len(writeQueue') /\ writeQueue'[q] = Compaction
  <2>1. Purged
    BY <1>3 DEF Purged
  <2>2. Len(writeQueue') = Len(writeQueue) - 1 /\ Len(writeQueue') \in Nat
    <3>1. Len(writeQueue) \in Nat \ {0}
      BY <1>1
    <3> QED
      BY <1>1, <1>3, <3>1
  <2>3. \A q \in 1..Len(writeQueue') : writeQueue'[q] = writeQueue[q + 1]
    BY <1>1, <1>3
  <2>4. \A q \in 1..Len(writeQueue') : q + 1 \in 1..Len(writeQueue)
    BY <1>1, <2>2
  <2> QED
    BY <2>1, <2>2, <2>3, <2>4
<1>6. /\ \A x \in LinesIn(writeQueue') : x \in Line /\ x.exp <= now + Ttl
      /\ \A x \in LinesIn(writeQueue') : Fresh(x)'
      /\ \A q \in 1..Len(writeQueue') : Ordered(writeQueue'[q].lines)
      /\ \A q \in 1..Len(writeQueue') : AppendsAfter(ToSet(writeQueue[q].lines), q)'
      /\ \A lines : AppendsAfter(lines, 1) => AppendsAfter(lines, 0)'
  BY <1>1, <1>3, <1>5, QueueOrder
<1>7. OrderInv'
  <2>1. Ordered(ledger)'
    BY <1>2, <1>3, <1>4 DEF Ordered, Behind
  <2>2. (\A p \in 1..Len(writeQueue) : Ordered(writeQueue[p].lines))'
    BY <1>3, <1>6 DEF Ordered, Behind
  <2>3. AppendsAfter(FileLines(ledger), 0)'
    <3>1. \A lines : lines = FileLines(ledger') => AppendsAfter(lines, 0)'
      BY <1>2, <1>4, <1>6
    <3> QED
      BY <3>1 DEF AppendsAfter
  <2>4. (\A x \in FileLines(ledger) \cup LinesIn(writeQueue) : x.exp <= now + Ttl)'
    BY <1>2, <1>3, <1>4, <1>6 DEF AnswersInv, OrderInv
  <2>5. (\A j \in Keys : entries[j] # None => entries[j].exp <= now + Ttl)'
    BY <1>3 DEF AnswersInv, OrderInv
  <2> QED
    BY <1>6, <2>1, <2>2, <2>3, <2>4, <2>5 DEF OrderInv
<1>8. FreshInv'
  <2>1. \A x \in FileLines(ledger') : Fresh(x)'
    BY <1>1, <1>2, <1>3, <1>4 DEF AnswersInv, FreshInv, Fresh
  <2>2. ~damaged => \A k \in Keys :
          /\ durable[k] # None => Fresh(LineOf(k, durable[k]))'
          /\ promised[k] # None => Fresh(LineOf(k, promised[k]))'
    BY <1>1, <1>3 DEF AnswersInv, FreshInv, Fresh, LineOf
  <2> QED
    BY <1>3, <1>6, <2>1, <2>2 DEF FreshInv, LineOf
<1>9. LoadInv'
  <2>1. ~damaged => \A k \in Keys : Live(durable[k]) => Keeps(head.lines, k)
    BY <1>1 DEF AnswersInv, RewritesCover
  <2> QED
    BY <1>1, <1>3, <1>4, <2>1 DEF LoadInv, Keeps, Live
<1>10. RewritesCover'
  BY <1>1, <1>3 DEF RewritesCover
<1> QED
  BY <1>7, <1>8, <1>9, <1>10 DEF AnswersInv

(* Whatever a crash leaves, its live lines repeat the answers that were       *)
(* reported written.                                                          *)
LEMMA AnswersRestart ==
  ASSUME Typed, AnswersInv, Restart PROVE AnswersInv'
<1> USE DEF Typed, TypesInv
<1>1. /\ CrashLeavesFile
      /\ damaged' = (damaged \/ \E k \in Keys :
                       Live(durable[k]) /\ Keeps(ledger, k) /\ ~Keeps(ledger', k))
      /\ phase' = "reading" /\ offset' = 0
      /\ entries' = [k \in Keys |-> None] /\ writeQueue' = <<>>
      /\ UNCHANGED <<now, durable>>
  BY DEF Restart, Crash
<1>2. /\ ledger \in Seq(Line \cup {Torn}) /\ ledger' \in Seq(Line \cup {Torn})
      /\ Ordered(ledger) /\ FileLines(ledger) \subseteq Line
      /\ FileLines(ledger') \subseteq Line
  BY <1>1, CrashLines, FileLinesAre DEF StoreTypes, AnswersInv, OrderInv
<1>3. /\ Ordered(ledger')
      /\ FileLines(ledger') \subseteq FileLines(ledger) \cup LinesIn(writeQueue)
      /\ phase # "ready" => FileLines(ledger') \subseteq FileLines(ledger)
  <2>1. CASE Traces(ledger', ledger)
    BY <1>2, <2>1, TracesKeep
  <2>2. CASE /\ writeQueue # <<>> /\ Head(writeQueue).op = "append"
             /\ ledger' = Append(ledger, Head(writeQueue).lines[1])
    <3> DEFINE line == Head(writeQueue).lines[1]
    <3>1. /\ line \in Line /\ line \in LinesIn(writeQueue)
          /\ \A x \in FileLines(ledger) : Behind(x, line)
      BY <2>2, HeadLines
    <3>2. Ordered(Append(ledger, line))
          /\ FileLines(Append(ledger, line)) = FileLines(ledger) \cup {line}
      <4> HIDE DEF line
      <4> QED  BY <1>2, <3>1, AppendedLines
    <3> QED
      BY <2>2, <3>1, <3>2 DEF LoadAlone
  <2>3. CASE /\ writeQueue # <<>> /\ Head(writeQueue).op = "rewrite"
             /\ Traces(ledger', Head(writeQueue).lines)
    <3> DEFINE lines == Head(writeQueue).lines
    <3>1. /\ lines \in Seq(Line \cup {Torn}) /\ Ordered(lines)
          /\ FileLines(lines) \subseteq LinesIn(writeQueue)
      BY <2>3, HeadLines
    <3>2. Ordered(ledger') /\ FileLines(ledger') \subseteq FileLines(lines)
      <4>1. Traces(ledger', lines)
        BY <2>3
      <4> HIDE DEF lines
      <4> QED  BY <1>2, <3>1, <4>1, TracesKeep
    <3> QED
      BY <2>3, <3>1, <3>2 DEF LoadAlone
  <2> QED
    BY <1>1, <2>1, <2>2, <2>3, CrashLines
<1>4. OrderInv'
  <2>1. Ordered(ledger)'
    BY <1>1, <1>3 DEF Ordered, Behind
  <2>2. LinesIn(writeQueue)' = {} /\ Len(writeQueue') = 0
    BY <1>1 DEF LinesIn
  <2>3. (\A x \in FileLines(ledger) \cup LinesIn(writeQueue) : x.exp <= now + Ttl)'
    BY <1>1, <1>3, <2>2 DEF AnswersInv, OrderInv
  <2>4. (\A j \in Keys : entries[j] # None => entries[j].exp <= now + Ttl)'
    BY <1>1
  <2> QED
    BY <1>1, <2>1, <2>2, <2>3, <2>4 DEF OrderInv, AppendsAfter
<1>5. FreshInv'
  BY <1>1 DEF FreshInv
<1>6. LoadInv'
  <2>1. ASSUME ~damaged', NEW k \in Keys, Live(durable[k]) PROVE Keeps(ledger', k)
    BY <1>1, <2>1 DEF AnswersInv, LoadInv
  <2>2. ASSUME ~damaged', NEW k \in Keys, Live(durable[k]),
               NEW x \in FileLines(ledger'), x.key = k, x.exp > now
        PROVE  x.reply = durable[k].reply
    <3>1. ~damaged
      BY <1>1, <2>2
    <3>2. CASE phase = "ready"
      <4>1. Fresh(x) /\ x \in Line
        BY <1>2, <1>3, <2>2, <3>2 DEF AnswersInv, FreshInv
      <4>2. Fresh(LineOf(k, durable[k])) /\ durable[k] # None /\ durable[k].exp > now
        BY <2>2, <3>1, <3>2 DEF AnswersInv, FreshInv, Live
      <4> QED
        BY <2>2, <4>1, <4>2 DEF Fresh, LineOf
    <3>3. CASE phase # "ready"
      BY <1>3, <2>2, <3>1, <3>3 DEF AnswersInv, LoadInv
    <3> QED
      BY <3>2, <3>3
  <2> QED
    BY <1>1, <2>1, <2>2 DEF LoadInv, Keeps, Live
<1>7. RewritesCover'
  BY <1>1 DEF RewritesCover
<1> QED
  BY <1>4, <1>5, <1>6, <1>7 DEF AnswersInv

(* A line that is read is fresher than those read before it.                  *)
LEMMA AnswersParseLine ==
  ASSUME Typed, AnswersInv, ParseLine PROVE AnswersInv'
<1> DEFINE line == ledger[offset + 1]
           entry == [reply |-> line.reply, exp |-> line.exp]
<1> USE DEF Typed, TypesInv
<1>1. /\ phase = "parsing" /\ phase' = "reading" /\ offset < Len(ledger)
      /\ offset \in Nat /\ Len(ledger) \in Nat
      /\ UNCHANGED <<now, ledger, writeQueue, promised, durable, damaged>>
  BY DEF ParseLine, LoadAlone, StoreTypes, diskVars
<1>2. CASE Accepts(line)
  <2>1. entries' = [entries EXCEPT ![line.key] = entry] /\ offset' = offset + 1
    BY <1>2 DEF ParseLine
  <2>2. /\ offset + 1 \in 1..Len(ledger) /\ line \in Line /\ line # Torn
        /\ line \in FileLines(ledger) /\ line.exp > now
    <3>1. offset + 1 \in 1..Len(ledger)
      BY <1>1
    <3>2. line # Torn /\ line.exp > now
      BY <1>2 DEF Accepts
    <3> QED
      BY <3>1, <3>2, FileLinesAre DEF StoreTypes
  <2>3. entry # None /\ entry.exp = line.exp /\ entry.reply = line.reply /\ line.key \in Keys
    BY <2>2, StoreAssumption DEF Line, Entry
  <2>4. line.exp <= now + Ttl
    BY <2>2 DEF AnswersInv, OrderInv
  <2>5. ASSUME NEW i \in 1..offset
        PROVE  /\ ledger[i] # Torn /\ ledger[i] \in Line
               /\ Fresh(ledger[i]) /\ Behind(ledger[i], line)
    <3>1. i \in 1..Len(ledger) /\ i <= offset + 1
      BY <1>1
    <3>2. ledger[i] # Torn /\ Fresh(ledger[i])
      BY <1>1 DEF AnswersInv, LoadInv
    <3>3. ledger[i] \in Line
      BY <3>1, <3>2 DEF StoreTypes
    <3>4. Ordered(ledger)
      BY DEF AnswersInv, OrderInv
    <3>5. Behind(ledger[i], line)
      BY <2>2, <3>1, <3>2, <3>4 DEF Ordered
    <3> QED
      BY <3>2, <3>3, <3>5
  <2> HIDE DEF line, entry
  <2>6. OrderInv'
    <3>1. (\A j \in Keys : entries[j] # None => entries[j].exp <= now + Ttl)'
      BY <1>1, <2>1, <2>3, <2>4 DEF AnswersInv, OrderInv, StoreTypes
    <3>2. /\ Ordered(ledger)'
          /\ (\A p \in 1..Len(writeQueue) : Ordered(writeQueue[p].lines))'
      <4>1. \A file : Ordered(file) => Ordered(file)'
        BY <1>1 DEF Ordered, Behind
      <4>2. Ordered(ledger) /\ \A p \in 1..Len(writeQueue) : Ordered(writeQueue[p].lines)
        BY DEF AnswersInv, OrderInv
      <4> QED
        BY <1>1, <4>1, <4>2
    <3>3. \A lines, p : AppendsAfter(lines, p) => AppendsAfter(lines, p)'
      BY <1>1 DEF AppendsAfter, Behind
    <3>4. FileLines(ledger') = FileLines(ledger) /\ LinesIn(writeQueue') = LinesIn(writeQueue)
      BY <1>1
    <3>5. AppendsAfter(FileLines(ledger), 0) /\ \A p \in 1..Len(writeQueue) :
            AppendsAfter(ToSet(writeQueue[p].lines), p)
      BY DEF AnswersInv, OrderInv
    <3>6. AppendsAfter(FileLines(ledger), 0)' /\ (\A p \in 1..Len(writeQueue) :
            AppendsAfter(ToSet(writeQueue[p].lines), p))'
      BY <1>1, <3>3, <3>4, <3>5
    <3>7. (\A x \in FileLines(ledger) \cup LinesIn(writeQueue) : x.exp <= now + Ttl)'
      BY <1>1, <3>4 DEF AnswersInv, OrderInv
    <3> QED
      BY <3>1, <3>2, <3>6, <3>7 DEF OrderInv
  <2>7. ASSUME NEW i \in 1..offset' PROVE ledger'[i] # Torn /\ Fresh(ledger[i])'
    <3>1. CASE i \in 1..offset
      <4>1. ledger[i] \in Line /\ Fresh(ledger[i]) /\ Behind(ledger[i], line)
            /\ ledger[i] # Torn
        BY <2>5, <3>1
      <4>2. CASE ledger[i].key = line.key
        BY <1>1, <2>1, <2>3, <4>1, <4>2 DEF Fresh, Behind, StoreTypes
      <4>3. CASE ledger[i].key # line.key
        <5>1. entries'[ledger[i].key] = entries[ledger[i].key]
          BY <2>1, <4>1, <4>3 DEF StoreTypes, Line
        <5> QED
          BY <1>1, <4>1, <5>1 DEF Fresh
      <4> QED
        BY <1>1, <4>2, <4>3, <4>1
    <3>2. CASE i = offset + 1
      <4>1. ledger'[i] = line /\ offset' = offset + 1
        BY <1>1, <2>1, <3>2 DEF line
      <4> QED
        BY <1>1, <2>1, <2>2, <2>3, <4>1 DEF Fresh, StoreTypes, Line
    <3> QED
      BY <1>1, <2>1, <3>1, <3>2
  <2>8. LoadInv'
    BY <1>1, <2>7 DEF AnswersInv, LoadInv, Keeps, Live
  <2>9. FreshInv' /\ RewritesCover'
    BY <1>1 DEF AnswersInv, FreshInv, RewritesCover, LoadAlone
  <2> QED
    BY <2>6, <2>8, <2>9 DEF AnswersInv
<1>3. CASE ~Accepts(line)
  <2>1. UNCHANGED <<entries, offset>>
    BY <1>3 DEF ParseLine
  <2>2. OrderInv'
    BY <1>1, <2>1 DEF AnswersInv, OrderInv, Ordered, AppendsAfter, Behind
  <2>3. LoadInv'
    BY <1>1, <2>1 DEF AnswersInv, LoadInv, Fresh, Keeps, Live
  <2>4. FreshInv' /\ RewritesCover'
    BY <1>1 DEF FreshInv, RewritesCover, LoadAlone
  <2> QED
    BY <2>2, <2>3, <2>4 DEF AnswersInv
<1> QED
  BY <1>2, <1>3

(* At the end of a load the memory holds what the file holds: every live      *)
(* answer reported written is in it, under the line that lives longest.       *)
LEMMA AnswersReadLine ==
  ASSUME Typed, AnswersInv, ReadLine PROVE AnswersInv'
<1> USE DEF Typed, TypesInv
<1>1. /\ phase = "reading" /\ writeQueue = <<>> /\ promised = durable
      /\ offset \in 0..Len(ledger) /\ Len(ledger) \in Nat
      /\ UNCHANGED <<now, ledger, promised, durable, damaged>>
  BY DEF ReadLine, LoadAlone, StoreTypes
<1>2. CASE offset < Len(ledger)
  <2>1. phase' = "parsing" /\ UNCHANGED <<offset, entries, writeQueue>>
    BY <1>2 DEF ReadLine
  <2>2. OrderInv'
    BY <1>1, <2>1 DEF AnswersInv, OrderInv, Ordered, AppendsAfter, Behind
  <2>3. LoadInv'
    BY <1>1, <2>1 DEF AnswersInv, LoadInv, Fresh, Keeps, Live
  <2>4. FreshInv' /\ RewritesCover'
    BY <1>1, <2>1 DEF FreshInv, RewritesCover
  <2> QED
    BY <2>2, <2>3, <2>4 DEF AnswersInv
<1>3. CASE ~(offset < Len(ledger))
  <2>1. phase' = "ready" /\ MaybeCompact(<<>>) /\ offset = Len(ledger)
    BY <1>1, <1>3 DEF ReadLine
  <2>2. \A x \in FileLines(ledger) : x \in Line /\ Fresh(x)
    <3>1. \A i \in 1..Len(ledger) : Fresh(ledger[i])
      BY <1>1, <2>1 DEF AnswersInv, LoadInv
    <3> QED
      BY <3>1, FileLinesAre DEF StoreTypes
  <2>3. /\ Purged /\ Len(writeQueue') \in {0, 1}
        /\ \A q \in 1..Len(writeQueue') : q = 1 /\ writeQueue'[q] = Compaction
    <3>1. <<>> \in Seq(Write) /\ Len(<<>>) = 0
      OBVIOUS
    <3>2. /\ Purged /\ Len(writeQueue') \in {Len(<<>>), Len(<<>>) + 1}
          /\ \A q \in 1..Len(writeQueue') :
               \/ q \in 1..Len(<<>>) /\ writeQueue'[q] = <<>>[q]
               \/ q = Len(<<>>) + 1 /\ writeQueue'[q] = Compaction
      BY <2>1, <3>1, MaybeCompactEffect
    <3> QED
      BY <3>1, <3>2
  <2>4. /\ Compaction.op = "rewrite" /\ Ordered(Compaction.lines)
        /\ \A x \in ToSet(Compaction.lines) : x \in Line /\ Fresh(x) /\ x.exp <= now + Ttl
    <3>1. \A x \in ToSet(Compaction.lines) :
            x \in Line /\ Fresh(x) /\ entries[x.key] # None /\ x.exp = entries[x.key].exp
      BY CompactionLines
    <3>2. \A x \in Line : entries[x.key] # None => entries[x.key].exp <= now + Ttl
      BY DEF AnswersInv, OrderInv, Line
    <3> QED
      BY <3>1, <3>2, CompactionLines
  <2>5. \A x \in LinesIn(writeQueue') : x \in ToSet(Compaction.lines)
    BY <2>3 DEF LinesIn
  <2>6. \A x \in Line : Fresh(x) => Fresh(x)'
    BY <1>1, <2>3, PurgedKeepsFresh
  <2>7. OrderInv'
    <3>1. Ordered(ledger)'
      BY <1>1 DEF AnswersInv, OrderInv, Ordered, Behind
    <3>2. (\A p \in 1..Len(writeQueue) : Ordered(writeQueue[p].lines))'
      BY <1>1, <2>3, <2>4 DEF Ordered, Behind
    <3>3. \A q \in 1..Len(writeQueue') : writeQueue'[q].op # "append"
      BY <2>3, <2>4
    <3>4. (\A x \in FileLines(ledger) \cup LinesIn(writeQueue) : x.exp <= now + Ttl)'
      BY <1>1, <2>4, <2>5 DEF AnswersInv, OrderInv
    <3>5. (\A j \in Keys : entries[j] # None => entries[j].exp <= now + Ttl)'
      BY <1>1, <2>3 DEF AnswersInv, OrderInv, Purged
    <3> QED
      BY <3>1, <3>2, <3>3, <3>4, <3>5 DEF OrderInv, AppendsAfter
  <2>8. ASSUME ~damaged, NEW k \in Keys, durable[k] # None
        PROVE  LineOf(k, durable[k]) \in Line /\ Fresh(LineOf(k, durable[k]))
    <3>1. durable[k] \in Entry /\ now \in Nat
      BY <2>8 DEF StoreTypes
    <3>2. LineOf(k, durable[k]) \in Line
      BY <3>1 DEF LineOf, Line, Entry
    <3>3. CASE Live(durable[k])
      <4>1. Keeps(ledger, k)
        BY <2>8, <3>3 DEF AnswersInv, LoadInv
      <4>2. PICK x \in ToSet(ledger) : x # Torn /\ x.key = k /\ x.exp >= durable[k].exp
        BY <4>1 DEF Keeps
      <4>3. x \in FileLines(ledger) /\ x \in Line /\ Fresh(x)
        BY <2>2, <4>2 DEF FileLines
      <4>4. x.exp > now
        BY <3>1, <3>3, <4>2, <4>3 DEF Live, Line, Entry
      <4>5. x.reply = durable[k].reply
        BY <1>1, <2>8, <3>3, <4>2, <4>3, <4>4 DEF AnswersInv, LoadInv
      <4>6. entries[k] # None /\ x.exp <= entries[k].exp /\ entries[k].reply = durable[k].reply
        BY <4>2, <4>3, <4>4, <4>5 DEF Fresh
      <4>7. entries[k] \in Entry
        BY <4>6 DEF StoreTypes
      <4>8. durable[k].exp <= entries[k].exp
        BY <3>1, <4>2, <4>3, <4>6, <4>7 DEF Entry, Line
      <4> QED
        BY <3>2, <4>6, <4>8 DEF Fresh, LineOf
    <3>4. CASE ~Live(durable[k])
      BY <2>8, <3>2, <3>4 DEF Fresh, LineOf, Live
    <3> QED
      BY <3>3, <3>4
  <2>9. FreshInv'
    <3>1. \A x \in FileLines(ledger') \cup LinesIn(writeQueue') : Fresh(x)'
      BY <1>1, <2>2, <2>4, <2>5, <2>6
    <3>2. ~damaged => \A k \in Keys : durable[k] # None => Fresh(LineOf(k, durable[k]))'
      BY <1>1, <2>6, <2>8
    <3> QED
      BY <1>1, <3>1, <3>2 DEF FreshInv, LineOf
  <2>10. LoadInv'
    BY <1>1, <2>1 DEF AnswersInv, LoadInv, Keeps, Live
  <2>11. RewritesCover'
    <3>1. ASSUME ~damaged, NEW k \in Keys, Live(durable[k])
          PROVE  \E y \in ToSet(Compaction.lines) :
                   y # Torn /\ y.key = k /\ y.exp >= durable[k].exp
      <4> DEFINE last == LineOf(k, durable[k])
      <4>1. last \in Line /\ Fresh(last) /\ last.exp > now
            /\ last.key = k /\ last.exp = durable[k].exp
        BY <2>8, <3>1 DEF Live, LineOf
      <4>2. PICK y \in ToSet(Compaction.lines) : y.key = last.key /\ y.exp >= last.exp
        <5> HIDE DEF last
        <5> QED  BY <4>1, CompactionLines
      <4> QED
        BY <2>4, <4>1, <4>2, StoreAssumption
    <3> QED
      BY <1>1, <2>3, <3>1 DEF RewritesCover, Keeps, Live
  <2> QED
    BY <2>7, <2>9, <2>10, <2>11 DEF AnswersInv
<1> QED
  BY <1>2, <1>3

LEMMA AnswersNext ==
  ASSUME Typed, AnswersInv, [HttpNext]_httpVars PROVE AnswersInv'
<1>1. CASE UNCHANGED httpVars
  BY <1>1 DEF httpVars, storeVars, memVars, diskVars, AnswersInv, OrderInv, FreshInv, LoadInv,
              RewritesCover, Ordered, AppendsAfter, Behind, Fresh, Keeps, Live, FileLines, LinesIn
<1> QED
  BY <1>1, AnswersTick, AnswersAppendDone, AnswersRewriteDone, AnswersReadLine,
     AnswersParseLine, AnswersReceive, AnswersAnswer, AnswersRestart
     DEF HttpNext, StoreNext

(* The invariant of the store: types, fingerprints, and the order of the      *)
(* lines of every key in the file, in the queue and in memory.                *)
THEOREM HttpInvariant == HttpSpec => []HttpInv
<1>1. HttpInit => Typed /\ AnswersInv
  BY TypedInit, AnswersInit
<1>2. Typed /\ AnswersInv /\ [HttpNext]_httpVars => Typed' /\ AnswersInv'
  BY TypedNext, AnswersNext
<1>3. Typed /\ AnswersInv => HttpInv
  BY DEF Typed, HttpInv
<1> QED
  BY <1>1, <1>2, <1>3, PTL DEF HttpSpec

(* What is held for a key is the last answer given to it, as fresh and the    *)
(* same, for every length of life, every threshold and any number of restarts.*)
THEOREM HeldAnswersAreGiven == HttpSpec => []MemoryKeepsPromises
<1>1. ASSUME HttpInv PROVE MemoryKeepsPromises
  <2>1. ASSUME phase = "ready", ~damaged, NEW k \in Keys, Live(promised[k])
        PROVE  /\ entries[k] # None
               /\ entries[k].exp >= promised[k].exp
               /\ entries[k].reply = promised[k].reply
    <3>1. promised[k] # None /\ promised[k] \in Entry /\ promised[k].exp > now
      BY <1>1, <2>1 DEF HttpInv, TypesInv, StoreTypes, Live
    <3>2. Fresh(LineOf(k, promised[k]))
      BY <1>1, <2>1, <3>1 DEF HttpInv, AnswersInv, FreshInv
    <3>3. /\ entries[k] # None /\ promised[k].exp <= entries[k].exp
          /\ promised[k].reply = entries[k].reply
      BY <3>1, <3>2 DEF Fresh, LineOf
    <3>4. entries[k] \in Entry
      BY <1>1, <3>3 DEF HttpInv, TypesInv, StoreTypes
    <3> QED
      BY <3>1, <3>3, <3>4 DEF Entry
  <2> QED
    BY <2>1 DEF MemoryKeepsPromises
<1> QED
  BY <1>1, HttpInvariant, PTL

(* No handler starts to execute a call while an unexpired answer to it was    *)
(* given by this process or had been reported written before a crash.         *)
THEOREM RetriesAreReplayed == HttpSpec => RetryIsReplayed
<1>1. ASSUME Typed, MemoryKeepsPromises, HttpNext,
             NEW r \in Requests, request[r] = None, request'[r] # None
      PROVE  damaged \/ ~Live(promised[request'[r]])
  <2>1. \E k \in Keys : Receive(r, k) /\ request'[r] = k
    <3>1. request \in [Requests -> Keys \cup {None}]
      BY <1>1 DEF Typed, TypesInv, StoreTypes
    <3>2. ~(\E s \in Requests : \E reply \in Replies : Answer(s, reply))
      BY <1>1, <3>1 DEF Answer
    <3>3. ~Restart /\ ~UNCHANGED request
      BY <1>1 DEF Restart
    <3>4. PICK s \in Requests, k \in Keys : Receive(s, k)
      BY <1>1, <3>2, <3>3 DEF HttpNext
    <3>5. request' = [request EXCEPT ![s] = IF Live(entries[k]) THEN None ELSE k]
      BY <3>4 DEF Receive
    <3>6. s = r /\ request'[r] = k
      BY <1>1, <3>1, <3>5
    <3> QED
      BY <3>4, <3>6
  <2>2. PICK k \in Keys : Receive(r, k) /\ request'[r] = k
    BY <2>1
  <2>3. phase = "ready" /\ ~Live(entries[k])
    BY <1>1, <2>2 DEF Receive, Typed, TypesInv, StoreTypes
  <2>4. ASSUME ~damaged, Live(promised[k]) PROVE FALSE
    <3>1. entries[k] # None /\ entries[k].exp >= promised[k].exp /\ promised[k].exp > now
          /\ promised[k] # None
      BY <1>1, <2>3, <2>4 DEF MemoryKeepsPromises, Live
    <3>2. entries[k] \in Entry /\ promised[k] \in Entry /\ now \in Nat
      BY <1>1, <3>1 DEF Typed, TypesInv, StoreTypes
    <3> QED
      BY <2>3, <3>1, <3>2 DEF Live, Entry
  <2> QED
    BY <2>2, <2>4
<1>2. Typed /\ MemoryKeepsPromises /\ [HttpNext]_httpVars =>
        [\A r \in Requests : request[r] = None /\ request'[r] # None =>
           damaged \/ ~Live(promised[request'[r]])]_httpVars
  BY <1>1
<1> QED
  BY <1>2, TypedAlways, HeldAnswersAreGiven, PTL DEF HttpSpec, RetryIsReplayed
=============================================================================
