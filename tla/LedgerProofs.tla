---------------------------- MODULE LedgerProofs ----------------------------
(***************************************************************************)
(* The ledger follows the memory of the idempotency store.  What the file  *)
(* will be once its writes are done is a recursive function of the queue:  *)
(* it is shown to exist, and to hold the lines that reach the end of the   *)
(* queue, in their order, by induction on the number of writes.  An        *)
(* invariant says that the line of every live entry is among them.         *)
(***************************************************************************)
EXTENDS IdempotencyProofs, SequenceTheorems, WellFoundedInduction

-----------------------------------------------------------------------------
(* The file after the queued writes, one by one.                              *)
LEMMA NaturalInduction ==
  ASSUME NEW bound \in Nat, NEW T \in SUBSET (0..bound), 0 \in T,
         \A n \in 1..bound : n - 1 \in T => n \in T
  PROVE  T = 0..bound
<1> DEFINE Bad == (0..bound) \ T
<1>1. ASSUME Bad # {} PROVE FALSE
  <2>1. Bad \in SUBSET Nat
    OBVIOUS
  <2>2. PICK m \in Bad : \A n \in Bad : ~(<<n, m>> \in OpToRel(<, Nat))
    BY <1>1, <2>1, NatLessThanWellFounded, WFMin
  <2>3. m \in 0..bound /\ m \notin T /\ m # 0
    OBVIOUS
  <2>4. m \in 1..bound /\ m - 1 \in 0..bound /\ m - 1 < m
    BY <2>3
  <2>5. m - 1 \in T
    BY <2>1, <2>2, <2>4 DEF OpToRel
  <2> QED
    BY <2>3, <2>4, <2>5
<1> QED
  BY <1>1

LEMMA FileAfterIs ==
  ASSUME StoreTypes
  PROVE  FileAfter = [n \in 0..Len(writeQueue) |->
                        IF n = 0 THEN ledger ELSE Written(FileAfter[n - 1], writeQueue[n])]
<1> DEFINE N == Len(writeQueue)
           Next(f, n) == IF n = 0 THEN ledger ELSE Written(f[n - 1], writeQueue[n])
           Is(f, m) == f = [n \in 0..m |-> Next(f, n)]
           Good == {m \in 0..N : \E f : Is(f, m)}
<1>1. N \in Nat
  BY DEF StoreTypes
<1>2. 0 \in Good
  <2> DEFINE f == [n \in 0..0 |-> ledger]
  <2>1. Is(f, 0)
    OBVIOUS
  <2> HIDE DEF Is, f
  <2> QED
    BY <1>1, <2>1
<1>3. ASSUME NEW m \in 1..N, m - 1 \in Good PROVE m \in Good
  <2>1. PICK f : Is(f, m - 1)
    BY <1>3
  <2> DEFINE g == [n \in 0..m |-> IF n = m THEN Next(f, m) ELSE f[n]]
  <2>2. ASSUME NEW n \in 0..m PROVE g[n] = Next(g, n)
    <3>1. CASE n = m
      <4>1. m - 1 \in 0..m /\ m - 1 # m /\ m # 0
        BY <1>1
      <4>2. g[m - 1] = f[m - 1]
        BY <4>1
      <4>3. g[n] = Written(f[m - 1], writeQueue[m])
        BY <3>1, <4>1
      <4> HIDE DEF g
      <4> QED
        BY <3>1, <4>1, <4>2, <4>3
    <3>2. CASE n # m
      <4>1. n \in 0..m - 1
        BY <1>1, <3>2
      <4>2. f[n] = Next(f, n)
        BY <2>1, <4>1
      <4>3. n # 0 => n - 1 \in 0..m /\ n - 1 # m
        BY <1>1, <4>1
      <4>4. n # 0 => g[n - 1] = f[n - 1]
        BY <4>3
      <4>5. g[n] = f[n]
        BY <3>2
      <4> HIDE DEF g
      <4> QED
        BY <4>2, <4>4, <4>5
    <3> QED
      BY <3>1, <3>2
  <2>3. Is(g, m)
    <3>1. g = [n \in 0..m |-> g[n]]
      OBVIOUS
    <3> HIDE DEF g, Next
    <3> QED
      BY <2>2, <3>1
  <2> HIDE DEF g, Is
  <2> QED
    BY <2>3
<1>4. \E f : Is(f, N)
  <2>1. Good = 0..N
    <3>1. Good \in SUBSET (0..N)
      OBVIOUS
    <3> HIDE DEF Good, N
    <3> QED
      BY <1>1, <1>2, <1>3, <3>1, NaturalInduction
  <2>2. N \in Good
    BY <1>1, <2>1
  <2> QED
    BY <2>2
<1> QED
  BY <1>4 DEF FileAfter

(* The greatest of a set of indices.                                          *)
LEMMA MaxIs ==
  ASSUME NEW bound \in Nat, NEW S \in SUBSET (1..bound), S # {}
  PROVE  Max(S) \in S /\ \A i \in S : i <= Max(S)
<1> DEFINE Bounds == {m \in Nat : \A i \in S : i <= m}
<1>0. \A i \in S : i \in Nat /\ i # 0 /\ i <= bound
  OBVIOUS
<1>1. Bounds \in SUBSET Nat /\ bound \in Bounds
  BY <1>0
<1>2. PICK m \in Bounds : \A n \in Bounds : ~(<<n, m>> \in OpToRel(<, Nat))
  BY <1>1, NatLessThanWellFounded, WFMin
<1>3. ASSUME m \notin S PROVE FALSE
  <2>1. PICK i \in S : i \in Nat /\ i # 0
    BY <1>0
  <2>2. m \in Nat /\ \A j \in S : j \in Nat /\ j <= m /\ j # m
    BY <1>0, <1>3
  <2>3. m - 1 \in Nat /\ m - 1 < m /\ \A j \in S : j <= m - 1
    BY <2>1, <2>2
  <2> QED
    BY <1>1, <1>2, <2>3 DEF OpToRel
<1>4. m \in S /\ \A i \in S : m >= i
  BY <1>2, <1>3
<1> HIDE DEF Bounds
<1>5. Max(S) \in S /\ \A i \in S : Max(S) >= i
  BY <1>4 DEF Max
<1> QED
  BY <1>5

(* The lines in the file once the first n queued writes are done.             *)
NoRewrite(from, to) == \A q \in from..to : writeQueue[q].op = "append"

Reaches(x, n) ==
  \/ x \in FileLines(ledger) /\ NoRewrite(1, n)
  \/ \E p \in 1..n : x \in ToSet(writeQueue[p].lines) /\ NoRewrite(p + 1, n)

LEMMA ReachesStep ==
  ASSUME StoreTypes, NEW n \in 1..Len(writeQueue), NEW x
  PROVE  Reaches(x, n) <=>
           \/ x \in ToSet(writeQueue[n].lines)
           \/ writeQueue[n].op = "append" /\ Reaches(x, n - 1)
<1>1. Len(writeQueue) \in Nat /\ n \in Nat /\ n - 1 \in Nat
  BY DEF StoreTypes
<1>2. \A p \in 1..n : p = n \/ p \in 1..n - 1
  BY <1>1
<1>3. \A p \in 0..n - 1 : NoRewrite(p + 1, n) <=>
                            NoRewrite(p + 1, n - 1) /\ writeQueue[n].op = "append"
  <2> TAKE p \in 0..n - 1
  <2>1. \A q : q \in p + 1..n <=> q = n \/ q \in p + 1..n - 1
    BY <1>1
  <2> QED
    BY <2>1 DEF NoRewrite
<1>4. NoRewrite(n + 1, n)
  BY <1>1 DEF NoRewrite
<1>5. NoRewrite(1, n) <=> NoRewrite(1, n - 1) /\ writeQueue[n].op = "append"
  <2>1. 0 \in 0..n - 1 /\ 0 + 1 = 1
    BY <1>1
  <2> QED
    BY <1>3, <2>1
<1>6. 1..n - 1 \subseteq 0..n - 1 /\ 1..n - 1 \subseteq 1..n /\ n \in 1..n
  BY <1>1
<1>7. (\E p \in 1..n : x \in ToSet(writeQueue[p].lines) /\ NoRewrite(p + 1, n)) <=>
        \/ x \in ToSet(writeQueue[n].lines)
        \/ \E p \in 1..n - 1 : x \in ToSet(writeQueue[p].lines) /\ NoRewrite(p + 1, n)
  BY <1>2, <1>4, <1>6
<1>8. (\E p \in 1..n - 1 : x \in ToSet(writeQueue[p].lines) /\ NoRewrite(p + 1, n)) <=>
        /\ writeQueue[n].op = "append"
        /\ \E p \in 1..n - 1 : x \in ToSet(writeQueue[p].lines) /\ NoRewrite(p + 1, n - 1)
  BY <1>3, <1>6
<1> QED
  BY <1>5, <1>7, <1>8 DEF Reaches

(* The queue read by its order: whatever reaches the file is behind the       *)
(* appends still to come.                                                     *)
LEMMA ReachesBehind ==
  ASSUME StoreTypes, OrderInv, NEW n \in 1..Len(writeQueue), writeQueue[n].op = "append",
         NEW x, Reaches(x, n - 1)
  PROVE  Behind(x, writeQueue[n].lines[1])
<1>1. Len(writeQueue) \in Nat
  BY DEF StoreTypes
<1>2. CASE x \in FileLines(ledger)
  BY <1>1, <1>2 DEF OrderInv, AppendsAfter
<1>3. CASE \E p \in 1..n - 1 : x \in ToSet(writeQueue[p].lines)
  <2>1. PICK p \in 1..n - 1 : x \in ToSet(writeQueue[p].lines)
    BY <1>3
  <2>2. p \in 1..Len(writeQueue) /\ p < n
    BY <1>1
  <2>3. AppendsAfter(ToSet(writeQueue[p].lines), p)
    BY <2>2 DEF OrderInv
  <2> QED
    BY <2>1, <2>2, <2>3 DEF AppendsAfter
<1> QED
  BY <1>2, <1>3 DEF Reaches

(* What the file will be: the lines that reach it, in order.                  *)
Settled(n) ==
  /\ FileAfter[n] \in Seq(Line \cup {Torn})
  /\ Ordered(FileAfter[n])
  /\ \A x : x \in FileLines(FileAfter[n]) <=> Reaches(x, n)

LEMMA FileSettles ==
  ASSUME StoreTypes, OrderInv, ~unterminated
  PROVE  Settled(Len(writeQueue))
<1> DEFINE N == Len(writeQueue)
           T == {n \in 0..N : Settled(n)}
<1>1. N \in Nat
  BY DEF StoreTypes
<1>2. /\ FileAfter[0] = ledger
      /\ \A n \in 1..N : FileAfter[n] = Written(FileAfter[n - 1], writeQueue[n])
  <2>1. 0 \in 0..N /\ \A n \in 1..N : n \in 0..N /\ n # 0
    BY <1>1
  <2> QED
    BY <2>1, FileAfterIs
<1>3. 0 \in T
  <2>1. NoRewrite(1, 0) /\ ~ \E p \in 1..0 : TRUE
    BY DEF NoRewrite
  <2>2. \A x : Reaches(x, 0) <=> x \in FileLines(ledger)
    BY <2>1 DEF Reaches
  <2>3. Settled(0)
    BY <1>2, <2>2 DEF Settled, StoreTypes, OrderInv
  <2> QED
    BY <1>1, <2>3
<1>4. ASSUME NEW n \in 1..N, n - 1 \in T PROVE n \in T
  <2> DEFINE w == writeQueue[n]
             file == FileAfter[n - 1]
  <2>1. /\ file \in Seq(Line \cup {Torn}) /\ Ordered(file)
        /\ \A x : x \in FileLines(file) <=> Reaches(x, n - 1)
    BY <1>4 DEF Settled
  <2>2. w \in Write
    BY DEF StoreTypes
  <2>3. /\ w.op \in {"append", "rewrite"} /\ w.lines \in Seq(Line)
        /\ ToSet(w.lines) = FileLines(w.lines)
        /\ w.op = "append" => /\ w.lines[1] \in Line /\ w.lines = <<w.lines[1]>>
                              /\ ToSet(w.lines) = {w.lines[1]}
    BY <2>2, WriteTypes, QueueLinesAre DEF StoreTypes
  <2>4. \A x : Reaches(x, n) <=> x \in ToSet(w.lines) \/ (w.op = "append" /\ Reaches(x, n - 1))
    BY ReachesStep
  <2>5. w.op = "append" => \A x \in FileLines(file) : Behind(x, w.lines[1])
    BY <2>1, ReachesBehind
  <2>6. Ordered(w.lines)
    BY DEF OrderInv
  <2>7. FileAfter[n] = Written(file, w)
    BY <1>2
  <2> HIDE DEF w, file
  <2>8. CASE w.op = "rewrite"
    <3>1. FileAfter[n] = w.lines
      BY <2>7, <2>8 DEF Written
    <3>2. w.lines \in Seq(Line \cup {Torn})
      BY <2>3
    <3> QED
      BY <2>3, <2>4, <2>6, <2>8, <3>1, <3>2 DEF Settled
  <2>9. CASE w.op = "append"
    <3>1. FileAfter[n] = file \o w.lines
      BY <2>7, <2>9 DEF Written
    <3>2. FileAfter[n] = Append(file, w.lines[1])
      <4>1. Append(file, w.lines[1]) = file \o <<w.lines[1]>>
        BY <2>1, <2>3, <2>9, AppendIsConcat
      <4>2. w.lines = <<w.lines[1]>>
        BY <2>3, <2>9
      <4> QED
        BY <3>1, <4>1, <4>2
    <3>3. /\ Append(file, w.lines[1]) \in Seq(Line \cup {Torn})
          /\ FileLines(Append(file, w.lines[1])) = FileLines(file) \cup {w.lines[1]}
          /\ Ordered(Append(file, w.lines[1]))
      BY <2>1, <2>3, <2>5, <2>9, AppendedLines
    <3>4. \A x : x \in FileLines(FileAfter[n]) <=> Reaches(x, n)
      BY <2>1, <2>3, <2>4, <2>9, <3>2, <3>3
    <3>5. Settled(n)
      BY <3>2, <3>3, <3>4, Zenon DEF Settled
    <3> QED
      BY <1>1, <3>5
  <2> QED
    BY <2>3, <2>8, <2>9
<1>5. T = 0..N
  <2>1. T \in SUBSET (0..N)
    OBVIOUS
  <2> HIDE DEF T, N
  <2> QED
    BY <1>1, <1>3, <1>4, <2>1, NaturalInduction
<1> QED
  BY <1>1, <1>5

-----------------------------------------------------------------------------
(* No live entry is lost on its way to the file: its line is in the file or   *)
(* in the queue, and no rewrite after it leaves it out.  A load holds lines   *)
(* of the file.                                                               *)
HeldInv ==
  ~damaged => \A k \in Keys :
    /\ phase = "ready" /\ Live(entries[k]) =>
         Reaches(LineOf(k, entries[k]), Len(writeQueue))
    /\ phase # "ready" /\ entries[k] # None => LineOf(k, entries[k]) \in FileLines(ledger)

LEMMA HeldInit == HttpInit => HeldInv
  BY DEF HttpInit, StoreInit, HeldInv, Live

(* Steps that only forget entries that are not live any more.                 *)
LEMMA HeldForgets ==
  ASSUME HeldInv, phase = "ready", UNCHANGED <<phase, damaged, ledger, writeQueue>>,
         \A k \in Keys : Live(entries[k])' => entries'[k] = entries[k] /\ Live(entries[k])
  PROVE  HeldInv'
  BY DEF HeldInv, Reaches, NoRewrite, FileLines

LEMMA HeldTick ==
  ASSUME Typed, HeldInv, Tick PROVE HeldInv'
<1>1. /\ phase = "ready" /\ now' = now + 1 /\ now \in Nat /\ entries' = entries
      /\ UNCHANGED <<phase, damaged, ledger, writeQueue>>
  BY StoreAssumption DEF Tick, memVars, diskVars, Typed, TypesInv, StoreTypes
<1>2. ASSUME NEW k \in Keys, Live(entries[k])'
      PROVE  entries'[k] = entries[k] /\ Live(entries[k])
  <2>1. entries[k] \in Entry /\ entries[k].exp > now + 1
    BY <1>1, <1>2 DEF Live, Typed, TypesInv, StoreTypes
  <2> QED
    BY <1>1, <1>2, <2>1 DEF Live, Entry
<1> QED
  BY <1>1, <1>2, HeldForgets

LEMMA HeldReceive ==
  ASSUME Typed, HeldInv, NEW r \in Requests, NEW k \in Keys, Receive(r, k) PROVE HeldInv'
<1>1. /\ phase = "ready" /\ Drop({k} \cap Expired)
      /\ UNCHANGED <<phase, damaged, ledger, writeQueue, now>>
  BY DEF Receive, Get, diskVars
<1>2. ASSUME NEW j \in Keys, Live(entries[j])'
      PROVE  entries'[j] = entries[j] /\ Live(entries[j])
  BY <1>1, <1>2 DEF Drop, Expired, Live, Typed, TypesInv, StoreTypes
<1> QED
  BY <1>1, <1>2, HeldForgets

LEMMA HeldSet ==
  ASSUME Typed, HeldInv, phase = "ready", NEW k \in Keys, NEW reply \in Replies,
         Set(k, reply)
  PROVE  HeldInv'
<1>0. PICK entry \in Entry : entry = [reply |-> reply, exp |-> now + Ttl]
  <2>1. now + Ttl \in Nat
    BY StoreAssumption DEF Typed, TypesInv, StoreTypes
  <2>2. [reply |-> reply, exp |-> now + Ttl] \in Entry
    BY <2>1 DEF Entry
  <2> QED
    BY <2>2, Zenon
<1> DEFINE write == [op |-> "append", lines |-> <<LineOf(k, entry)>>]
<1>1. /\ entries' = [entries EXCEPT ![k] = entry] /\ writeQueue' = Append(writeQueue, write)
      /\ UNCHANGED <<phase, damaged, ledger, now>>
  BY <1>0 DEF Set, Publish
<1>2. write.op = "append" /\ LineOf(k, entry) \in ToSet(write.lines)
  BY DEF ToSet
<1>3. writeQueue \in Seq(Write) /\ entries \in [Keys -> Entry \cup {None}]
  BY DEF Typed, TypesInv, StoreTypes
<1>4. write \in Write
  <2>1. LineOf(k, entry) \in Line
    BY <1>0 DEF LineOf, Line, Entry
  <2> QED
    BY <2>1 DEF Write
<1> HIDE DEF write
<1>5. PICK N \in Nat :
        /\ N = Len(writeQueue) /\ Len(writeQueue') = N + 1 /\ writeQueue'[N + 1] = write
        /\ \A q \in 1..N : writeQueue'[q] = writeQueue[q]
  BY <1>1, <1>3, <1>4, AppendProperties
<1>6. ASSUME NEW p \in 0..N, NoRewrite(p + 1, N) PROVE NoRewrite(p + 1, N + 1)'
  <2>1. \A q \in p + 1..N + 1 : q = N + 1 \/ (q \in p + 1..N /\ q \in 1..N)
    BY <1>5
  <2> QED
    BY <1>2, <1>5, <1>6, <2>1 DEF NoRewrite
<1>7. ASSUME NEW x, Reaches(x, N) PROVE Reaches(x, N + 1)'
  <2>1. CASE x \in FileLines(ledger) /\ NoRewrite(1, N)
    <3>1. NoRewrite(1, N + 1)'
      <4>1. 0 \in 0..N /\ 0 + 1 = 1
        BY <1>5
      <4> QED
        BY <1>6, <2>1, <4>1
    <3> QED
      BY <1>1, <2>1, <3>1 DEF Reaches
  <2>2. CASE \E p \in 1..N : x \in ToSet(writeQueue[p].lines) /\ NoRewrite(p + 1, N)
    <3>1. PICK p \in 1..N : x \in ToSet(writeQueue[p].lines) /\ NoRewrite(p + 1, N)
      BY <2>2
    <3>2. p \in 0..N /\ p \in 1..N + 1
      BY <1>5
    <3>3. NoRewrite(p + 1, N + 1)'
      BY <1>6, <3>1, <3>2
    <3>4. x \in ToSet(writeQueue'[p].lines)
      BY <1>5, <3>1
    <3> QED
      BY <3>2, <3>3, <3>4 DEF Reaches
  <2> QED
    BY <1>7, <2>1, <2>2 DEF Reaches
<1>8. Reaches(LineOf(k, entry), N + 1)'
  <2>1. N + 1 \in 1..N + 1 /\ N + 1 + 1..N + 1 = {}
    BY <1>5
  <2>2. NoRewrite(N + 1 + 1, N + 1)'
    BY <2>1 DEF NoRewrite
  <2>3. LineOf(k, entry) \in ToSet(writeQueue'[N + 1].lines)
    BY <1>2, <1>5
  <2> QED
    BY <2>1, <2>2, <2>3 DEF Reaches
<1>9. ASSUME ~damaged, NEW j \in Keys, Live(entries[j])'
      PROVE  Reaches(LineOf(j, entries[j]), Len(writeQueue))'
  <2>1. CASE j = k
    <3>1. entries'[j] = entry
      BY <1>1, <1>3, <2>1
    <3> QED
      BY <1>5, <1>8, <2>1, <3>1
  <2>2. CASE j # k
    <3>1. entries'[j] = entries[j] /\ Live(entries[j])
      BY <1>1, <1>3, <1>9, <2>2 DEF Live
    <3>2. Reaches(LineOf(j, entries[j]), N)
      BY <1>5, <1>9, <3>1 DEF HeldInv
    <3> QED
      BY <1>5, <1>7, <3>1, <3>2
  <2> QED
    BY <2>1, <2>2
<1> QED
  BY <1>1, <1>9 DEF HeldInv

LEMMA HeldAnswer ==
  ASSUME Typed, HeldInv, NEW r \in Requests, NEW reply \in Replies, Answer(r, reply)
  PROVE  HeldInv'
<1>1. request[r] \in Keys /\ phase = "ready"
  BY DEF Answer, Typed, TypesInv, StoreTypes, LoadAlone
<1>2. CASE Set(request[r], reply)
  BY <1>1, <1>2, HeldSet
<1>3. CASE UNCHANGED storeVars
  BY <1>1, <1>3, HeldForgets DEF storeVars, memVars, diskVars, Live
<1> QED
  BY <1>2, <1>3 DEF Answer

(* A write done takes the lines of its queue one place further.               *)
LEMMA HeldWritten ==
  ASSUME Typed, HeldInv, phase = "ready", writeQueue # <<>>, ~damaged,
         UNCHANGED <<phase, now>>, Purged,
         Head(writeQueue).op = "append" => FileLines(ledger) \subseteq FileLines(ledger'),
         ToSet(Head(writeQueue).lines) \subseteq FileLines(ledger'),
         \/ Len(writeQueue') = Len(writeQueue) - 1
         \/ Len(writeQueue') = Len(writeQueue) /\ writeQueue'[Len(writeQueue)] = Compaction,
         \A q \in 1..Len(writeQueue) - 1 : writeQueue'[q] = writeQueue[q + 1]
  PROVE  HeldInv'
<1>1. PICK N \in Nat : N = Len(writeQueue) /\ N >= 1
  BY DEF Typed, TypesInv, StoreTypes
<1>2. Head(writeQueue) = writeQueue[1]
  BY TailOfQueue DEF Typed, TypesInv
<1>3. ASSUME NEW k \in Keys, Live(entries[k])'
      PROVE  Reaches(LineOf(k, entries[k]), Len(writeQueue))'
  <2>1. entries'[k] = entries[k] /\ Live(entries[k])
    BY <1>3 DEF Purged, Live
  <2>2. PICK x : x = LineOf(k, entries[k]) /\ x = LineOf(k, entries'[k])
    BY <2>1
  <2>3. Reaches(x, N)
    BY <1>1, <2>1, <2>2 DEF HeldInv
  <2>4. CASE Len(writeQueue') = N /\ writeQueue'[N] = Compaction
    <3>1. x \in ToSet(writeQueue'[N].lines)
      BY <2>1, <2>2, <2>4, PurgeLines DEF Compaction, Typed, TypesInv
    <3>2. N \in 1..N /\ N + 1..N = {}
      BY <1>1
    <3>3. NoRewrite(N + 1, N)'
      BY <3>2 DEF NoRewrite
    <3>4. Reaches(x, N)'
      BY <3>1, <3>2, <3>3 DEF Reaches
    <3> QED
      BY <2>2, <2>4, <3>4
  <2>5. CASE Len(writeQueue') = N - 1
    <3>1. ASSUME NEW p \in 1..N, NoRewrite(p + 1, N) PROVE NoRewrite(p, N - 1)'
      <4>1. \A q \in p..N - 1 : q \in 1..N - 1 /\ q + 1 \in p + 1..N
        BY <1>1
      <4> QED
        BY <1>1, <3>1, <4>1 DEF NoRewrite
    <3>2. CASE x \in FileLines(ledger) /\ NoRewrite(1, N)
      <4>1. 1 \in 1..N
        BY <1>1
      <4>2. writeQueue[1].op = "append" /\ NoRewrite(1 + 1, N)
        <5>1. \A q \in 1 + 1..N : q \in 1..N
          BY <1>1
        <5> QED
          BY <3>2, <4>1, <5>1 DEF NoRewrite
      <4>3. x \in FileLines(ledger') /\ NoRewrite(1, N - 1)'
        BY <1>2, <3>1, <3>2, <4>1, <4>2
      <4> QED
        BY <2>2, <2>5, <4>3 DEF Reaches
    <3>3. ASSUME NEW p \in 1..N, x \in ToSet(writeQueue[p].lines), NoRewrite(p + 1, N)
          PROVE  Reaches(x, N - 1)'
      <4>1. NoRewrite(p, N - 1)'
        BY <3>1, <3>3
      <4>2. CASE p = 1
        BY <1>2, <3>3, <4>1, <4>2 DEF Reaches
      <4>3. CASE p # 1
        <5>1. PICK r \in 1..N - 1 : p = r + 1
          <6>1. p - 1 \in 1..N - 1 /\ p = (p - 1) + 1
            BY <1>1, <4>3
          <6> QED
            BY <6>1
        <5>2. x \in ToSet(writeQueue'[r].lines) /\ NoRewrite(r + 1, N - 1)'
          BY <1>1, <3>3, <4>1, <5>1
        <5> QED
          BY <5>1, <5>2 DEF Reaches
      <4> QED
        BY <4>2, <4>3
    <3> QED
      BY <2>2, <2>3, <2>5, <3>2, <3>3 DEF Reaches
  <2> QED
    BY <1>1, <2>4, <2>5
<1> QED
  BY <1>3 DEF HeldInv

LEMMA HeldAppendDone ==
  ASSUME Typed, AnswersInv, HeldInv, AppendDone PROVE HeldInv'
<1> DEFINE head == Head(writeQueue)
           line == head.lines[1]
<1>1. /\ writeQueue # <<>> /\ head.op = "append" /\ phase = "ready"
      /\ ledger' = Written(ledger, head) /\ damaged' = (damaged \/ unterminated)
      /\ MaybeCompact(Tail(writeQueue)) /\ UNCHANGED <<phase, now>>
  BY DEF AppendDone, Typed, TypesInv, LoadAlone
<1>2. CASE damaged'
  BY <1>2 DEF HeldInv
<1>3. CASE ~damaged'
  <2>1. ~damaged /\ ~unterminated
    BY <1>1, <1>3
  <2>2. /\ head \in Write /\ line \in Line /\ ToSet(head.lines) = {line}
        /\ \A x \in FileLines(ledger) : Behind(x, line)
    BY <1>1, HeadLines, TailOfQueue DEF Typed, TypesInv
  <2>3. ledger \in Seq(Line \cup {Torn}) /\ Ordered(ledger)
    BY DEF Typed, TypesInv, StoreTypes, AnswersInv, OrderInv
  <2>4. ledger' = Append(ledger, line)
    <3> HIDE DEF head
    <3> QED
      BY <1>1, <2>1, <2>2, WrittenLines DEF Typed, TypesInv
  <2>5. FileLines(ledger') = FileLines(ledger) \cup {line}
    <3> HIDE DEF line
    <3> QED
      BY <2>2, <2>3, <2>4, AppendedLines
  <2>6. /\ Tail(writeQueue) \in Seq(Write) /\ Len(writeQueue) \in Nat
        /\ Len(Tail(writeQueue)) = Len(writeQueue) - 1
        /\ \A i \in 1..Len(Tail(writeQueue)) : Tail(writeQueue)[i] = writeQueue[i + 1]
    BY <1>1, TailOfQueue DEF Typed, TypesInv
  <2>7. /\ Purged
        /\ Len(writeQueue') \in {Len(Tail(writeQueue)), Len(Tail(writeQueue)) + 1}
        /\ \A q \in 1..Len(writeQueue') :
             \/ q \in 1..Len(Tail(writeQueue)) /\ writeQueue'[q] = Tail(writeQueue)[q]
             \/ q = Len(Tail(writeQueue)) + 1 /\ writeQueue'[q] = Compaction
    BY <1>1, <2>6, MaybeCompactEffect DEF Typed, TypesInv
  <2>8. PICK N \in Nat : N = Len(writeQueue)
    BY <2>6
  <2>9. /\ Len(writeQueue') = N - 1 \/ (Len(writeQueue') = N /\ writeQueue'[N] = Compaction)
        /\ \A q \in 1..N - 1 : writeQueue'[q] = writeQueue[q + 1]
    <3>1. Len(writeQueue') = N - 1 \/ Len(writeQueue') = N
      <4>1. Len(Tail(writeQueue)) = N - 1 /\ N - 1 + 1 = N
        BY <2>6, <2>8
      <4> QED
        BY <2>7, <4>1
    <3>2. Len(writeQueue') = N => N \in 1..N /\ N \notin 1..N - 1
      <4>1. N # 0
        BY <1>1, <2>8 DEF Typed, TypesInv, StoreTypes
      <4> QED
        BY <4>1
    <3>3. \A q \in 1..N - 1 : q \in 1..Len(writeQueue') /\ q # N - 1 + 1
      BY <3>1
    <3> QED
      BY <2>6, <2>7, <2>8, <3>1, <3>2, <3>3
  <2> HIDE DEF head, line
  <2>10. FileLines(ledger) \subseteq FileLines(ledger') /\ ToSet(head.lines) \subseteq FileLines(ledger')
    BY <2>2, <2>5
  <2> QED
    BY <1>1, <2>1, <2>7, <2>8, <2>9, <2>10, HeldWritten DEF head
<1> QED
  BY <1>2, <1>3

LEMMA HeldRewriteDone ==
  ASSUME Typed, AnswersInv, HeldInv, RewriteDone PROVE HeldInv'
<1>1. /\ writeQueue # <<>> /\ Head(writeQueue).op = "rewrite" /\ phase = "ready"
      /\ ledger' = Written(ledger, Head(writeQueue)) /\ writeQueue' = Tail(writeQueue)
      /\ UNCHANGED <<phase, now, entries, damaged>>
  BY DEF RewriteDone, Typed, TypesInv, LoadAlone
<1>2. CASE damaged'
  BY <1>2 DEF HeldInv
<1>3. CASE ~damaged'
  <2>1. ledger' = Head(writeQueue).lines
    BY <1>1 DEF Written
  <2>2. ToSet(Head(writeQueue).lines) \subseteq FileLines(ledger')
    BY <1>1, <2>1, HeadLines
  <2>3. /\ Len(writeQueue') = Len(writeQueue) - 1
        /\ \A q \in 1..Len(writeQueue) - 1 : writeQueue'[q] = writeQueue[q + 1]
    BY <1>1, TailOfQueue DEF Typed, TypesInv
  <2>4. Purged
    BY <1>1 DEF Purged
  <2> QED
    BY <1>1, <1>3, <2>2, <2>3, <2>4, HeldWritten
<1> QED
  BY <1>2, <1>3

LEMMA HeldRestart ==
  ASSUME Restart PROVE HeldInv'
<1>1. phase' = "reading" /\ entries' = [k \in Keys |-> None]
  BY DEF Restart, Crash
<1> QED
  BY <1>1 DEF HeldInv

LEMMA HeldReadLine ==
  ASSUME Typed, HeldInv, ReadLine PROVE HeldInv'
<1>1. /\ phase = "reading" /\ writeQueue = <<>>
      /\ UNCHANGED <<now, ledger, damaged>>
  BY DEF ReadLine, Typed, TypesInv, LoadAlone
<1>2. CASE phase' = "parsing" /\ UNCHANGED entries
  BY <1>1, <1>2 DEF HeldInv, FileLines
<1>3. CASE phase' = "ready" /\ MaybeCompact(<<>>)
  <2>1. /\ Purged /\ Len(writeQueue') \in {0, 1}
        /\ \A q \in 1..Len(writeQueue') : q = 1 /\ writeQueue'[q] = Compaction
    <3>1. PICK queue \in Seq(Write) : queue = <<>> /\ Len(queue) = 0
      <4>1. <<>> \in Seq(Write) /\ Len(<<>>) = 0
        OBVIOUS
      <4> QED
        BY <4>1, Zenon
    <3>2. /\ Purged /\ Len(writeQueue') \in {Len(queue), Len(queue) + 1}
          /\ \A q \in 1..Len(writeQueue') :
               \/ q \in 1..Len(queue) /\ writeQueue'[q] = queue[q]
               \/ q = Len(queue) + 1 /\ writeQueue'[q] = Compaction
      BY <1>3, <3>1, MaybeCompactEffect DEF Typed, TypesInv
    <3> QED
      BY <3>1, <3>2
  <2>2. ASSUME ~damaged, NEW k \in Keys, Live(entries[k])'
        PROVE  Reaches(LineOf(k, entries[k]), Len(writeQueue))'
    <3>1. entries'[k] = entries[k] /\ Live(entries[k]) /\ entries[k] # None
      BY <1>1, <2>1, <2>2 DEF Purged, Live
    <3>2. PICK x : x = LineOf(k, entries[k]) /\ x = LineOf(k, entries'[k])
      BY <3>1
    <3>3. x \in FileLines(ledger')
      BY <1>1, <2>2, <3>1, <3>2 DEF HeldInv
    <3>4. CASE Len(writeQueue') = 0
      <4>1. NoRewrite(1, 0)'
        BY DEF NoRewrite
      <4> QED
        BY <3>2, <3>3, <3>4, <4>1 DEF Reaches
    <3>5. CASE Len(writeQueue') = 1
      <4>1. x \in ToSet(writeQueue'[1].lines)
        BY <2>1, <3>1, <3>2, <3>5, PurgeLines DEF Compaction, Typed, TypesInv
      <4>2. NoRewrite(1 + 1, 1)'
        BY DEF NoRewrite
      <4>3. Reaches(x, 1)'
        BY <4>1, <4>2 DEF Reaches
      <4> QED
        BY <3>2, <3>5, <4>3
    <3> QED
      BY <2>1, <3>4, <3>5
  <2> QED
    BY <1>1, <1>3, <2>2 DEF HeldInv
<1> QED
  BY <1>1, <1>2, <1>3 DEF ReadLine

LEMMA HeldParseLine ==
  ASSUME Typed, HeldInv, ParseLine PROVE HeldInv'
<1> DEFINE line == ledger[offset + 1]
<1>1. /\ phase = "parsing" /\ phase' = "reading" /\ UNCHANGED <<now, ledger, damaged>>
      /\ offset + 1 \in 1..Len(ledger)
      /\ ledger \in Seq(Line \cup {Torn}) /\ entries \in [Keys -> Entry \cup {None}]
  BY DEF ParseLine, diskVars, Typed, TypesInv, StoreTypes, LoadAlone
<1>2. \/ UNCHANGED entries
      \/ /\ line # Torn
         /\ entries' = [entries EXCEPT ![line.key] = [reply |-> line.reply, exp |-> line.exp]]
  BY DEF ParseLine, Accepts
<1>3. line # Torn => line \in Line /\ line \in FileLines(ledger)
  BY <1>1, FileLinesAre
<1> HIDE DEF line
<1>4. ASSUME ~damaged, NEW k \in Keys, entries'[k] # None
      PROVE  LineOf(k, entries'[k]) \in FileLines(ledger')
  <2>1. CASE entries'[k] = entries[k]
    BY <1>1, <1>4, <2>1 DEF HeldInv, FileLines
  <2>2. CASE line # Torn /\ k = line.key /\ entries'[k] = [reply |-> line.reply, exp |-> line.exp]
    <3>1. LineOf(k, entries'[k]) = line
      BY <1>3, <2>2 DEF LineOf, Line
    <3> QED
      BY <1>1, <1>3, <2>2, <3>1
  <2> QED
    BY <1>1, <1>2, <2>1, <2>2
<1> QED
  BY <1>1, <1>4 DEF HeldInv

LEMMA HeldNext ==
  ASSUME Typed, AnswersInv, HeldInv, [HttpNext]_httpVars PROVE HeldInv'
<1>1. CASE UNCHANGED httpVars
  BY <1>1 DEF httpVars, storeVars, memVars, diskVars, HeldInv, Reaches, NoRewrite, FileLines, Live
<1> QED
  BY <1>1, HeldTick, HeldAppendDone, HeldRewriteDone, HeldReadLine, HeldParseLine,
     HeldReceive, HeldAnswer, HeldRestart
     DEF HttpNext, StoreNext

(* The file catches up with the memory: once the queued writes are done, the  *)
(* last line of a key is the live entry the memory holds for it, and no other *)
(* key has a live line, however appends, refreshes and compactions queue up.  *)
THEOREM FileFollowsMemory == HttpSpec => []LedgerCatchesUp
<1>1. ASSUME Typed, AnswersInv, HeldInv PROVE LedgerCatchesUp
  <2> SUFFICES ASSUME phase = "ready", ~damaged, ~unterminated, NEW k \in Keys
               PROVE  LET last == LastLine(FileAfter[Len(writeQueue)], k) IN
                        Live(last) \/ Live(entries[k]) => last = entries[k]
    BY DEF LedgerCatchesUp
  <2>1. PICK file : file = FileAfter[Len(writeQueue)]
    OBVIOUS
  <2>2. /\ file \in Seq(Line \cup {Torn}) /\ Ordered(file)
        /\ \A x : x \in FileLines(file) <=> Reaches(x, Len(writeQueue))
    BY <1>1, <2>1, FileSettles DEF Typed, TypesInv, AnswersInv, Settled
  <2>3. \A x \in FileLines(file) : Fresh(x)
    <3>1. \A x : Reaches(x, Len(writeQueue)) => x \in FileLines(ledger) \cup LinesIn(writeQueue)
      BY <1>1, QueueLinesAre DEF Reaches, Typed, TypesInv, StoreTypes
    <3> QED
      BY <1>1, <2>2, <3>1 DEF AnswersInv, FreshInv
  <2> DEFINE at == {i \in DOMAIN file : file[i] # Torn /\ file[i].key = k}
             line == file[Max(at)]
  <2>4. Len(file) \in Nat /\ DOMAIN file = 1..Len(file) /\ at \in SUBSET (1..Len(file))
    BY <2>2
  <2>5. ASSUME at # {}
        PROVE  /\ Max(at) \in at /\ \A i \in at : i <= Max(at)
               /\ line \in FileLines(file) /\ line \in Line /\ line.key = k /\ Fresh(line)
               /\ LastLine(file, k) = [reply |-> line.reply, exp |-> line.exp]
    <3>1. Max(at) \in at /\ \A i \in at : i <= Max(at)
      <4> HIDE DEF at
      <4> QED
        BY <2>4, <2>5, MaxIs
    <3>2. line \in FileLines(file) /\ line \in Line /\ line.key = k
      <4>1. Max(at) \in 1..Len(file) /\ line # Torn /\ line.key = k
        BY <2>4, <3>1
      <4> HIDE DEF at
      <4> QED
        BY <2>2, <4>1, FileLinesAre
    <3> QED
      BY <2>3, <2>5, <3>1, <3>2 DEF LastLine
  <2>6. at = {} => LastLine(file, k) = None
    BY DEF LastLine
  <2>7. ASSUME Live(entries[k]) PROVE LastLine(file, k) = entries[k]
    <3>1. PICK x : x = LineOf(k, entries[k])
      OBVIOUS
    <3>2. entries[k] \in Entry /\ x \in Line /\ x.key = k /\ x.exp = entries[k].exp
          /\ x.reply = entries[k].reply /\ x.exp > now
      BY <1>1, <2>7, <3>1 DEF LineOf, Line, Entry, Live, Typed, TypesInv, StoreTypes
    <3>3. x \in FileLines(file)
      BY <1>1, <2>2, <2>7, <3>1 DEF HeldInv
    <3>4. PICK i \in 1..Len(file) : file[i] = x /\ x # Torn
      BY <2>2, <3>3, FileLinesAre
    <3>5. i \in at
      BY <2>4, <3>2, <3>4
    <3> HIDE DEF at, line
    <3>6. /\ Max(at) \in 1..Len(file) /\ i <= Max(at) /\ line \in Line /\ line.key = k
          /\ Fresh(line) /\ LastLine(file, k) = [reply |-> line.reply, exp |-> line.exp]
      BY <2>4, <2>5, <3>5
    <3>7. Behind(x, line)
      <4>1. line # Torn
        BY <3>6, StoreAssumption
      <4> QED
        BY <2>2, <3>4, <3>6, <4>1 DEF Ordered, line
    <3>8. x.exp <= line.exp /\ x.reply = line.reply
      BY <3>2, <3>6, <3>7 DEF Behind
    <3>9. now \in Nat /\ x.exp \in Nat /\ line.exp \in Nat
      BY <1>1, <3>2, <3>6 DEF Line, Typed, TypesInv, StoreTypes
    <3>10. line.exp <= x.exp
      BY <3>2, <3>6, <3>8, <3>9 DEF Fresh
    <3>11. line.exp = entries[k].exp /\ line.reply = entries[k].reply
      BY <3>2, <3>8, <3>9, <3>10
    <3>12. entries[k] = [reply |-> entries[k].reply, exp |-> entries[k].exp]
      BY <3>2 DEF Entry
    <3> QED
      BY <3>6, <3>11, <3>12
  <2>8. ASSUME Live(LastLine(file, k)) PROVE Live(entries[k])
    <3>1. at # {}
      BY <2>6, <2>8 DEF Live
    <3> HIDE DEF at, line
    <3>2. /\ line \in Line /\ line.key = k /\ Fresh(line) /\ line.exp > now
      BY <2>5, <2>8, <3>1 DEF Live
    <3>3. entries[k] # None /\ line.exp <= entries[k].exp
      BY <3>2 DEF Fresh
    <3>4. now \in Nat /\ line.exp \in Nat /\ entries[k].exp \in Nat
      BY <1>1, <3>2, <3>3 DEF Line, Entry, Typed, TypesInv, StoreTypes
    <3> QED
      BY <3>2, <3>3, <3>4 DEF Live
  <2> QED
    BY <2>1, <2>7, <2>8
<1>2. HttpInit => Typed /\ AnswersInv /\ HeldInv
  BY TypedInit, AnswersInit, HeldInit
<1>3. Typed /\ AnswersInv /\ HeldInv /\ [HttpNext]_httpVars => Typed' /\ AnswersInv' /\ HeldInv'
  BY TypedNext, AnswersNext, HeldNext
<1> QED
  BY <1>1, <1>2, <1>3, PTL DEF HttpSpec
=============================================================================
