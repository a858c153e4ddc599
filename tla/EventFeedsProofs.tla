-------------------------- MODULE EventFeedsProofs --------------------------
(***************************************************************************)
(* The histories an orchestrator event is filed in keep their promises for *)
(* every limit, every filter and every number of events.                   *)
(***************************************************************************)
EXTENDS EventFeeds, FiniteSetTheorems, WellFoundedInduction, TLAPS

Last(r) == IF r = "tail" THEN lastSeq ELSE runLast

(* No number is ahead of the counter it was drawn from, and no cursor ahead   *)
(* of the log it reads.                                                       *)
NumbersInv ==
  /\ seq \in Nat /\ runLast \in Nat /\ lastSeq \in Nat /\ runLast <= seq
  /\ \A e \in runHistory : e.seq \in Nat /\ e.seq <= runLast
  /\ \A e \in bucket : e.seq \in Nat /\ e.seq <= lastSeq
  /\ cursor \in [Readers -> Nat] /\ \A r \in Readers : cursor[r] <= Last(r)
  /\ DOMAIN got = Readers
  /\ \A r \in Readers : \A e \in got[r] : e.seq \in Nat /\ e.seq <= Last(r)
  /\ published \in [Readers -> Nat]
  /\ caughtUp \in [Readers -> BOOLEAN]

-----------------------------------------------------------------------------
(* A window that slides over a new entry keeps it, and loses only what comes  *)
(* before everything it keeps.                                                *)
Slid(old, new, e) ==
  /\ new \subseteq old \cup {e} /\ e \in new
  /\ \A x \in old \ new, y \in new : x.seq < y.seq

LEMMA WindowSlides ==
  ASSUME NEW H, NEW e, NEW limit \in Nat \ {0}, NEW last \in Nat,
         e.seq \in Nat, e.seq > last,
         \A x \in H : x.seq \in Nat /\ x.seq <= last
  PROVE  Slid(H, Windowed(H \cup {e}, limit), e)
<1> DEFINE S == H \cup {e}
<1>1. \A x \in S : x.seq \in Nat
  OBVIOUS
<1>2. Windowed(S, limit) \in {S, S \ Oldest(S)}
  BY DEF Windowed
<1>3. CASE H = {}
  <2>1. Cardinality(S) = 1
    BY <1>3, FS_Singleton
  <2> QED
    BY <2>1, <1>3 DEF Windowed, Slid
<1>4. CASE H # {}
  <2>1. PICK h \in H : TRUE
    BY <1>4
  <2>2. e \notin Oldest(S)
    BY <2>1 DEF Oldest
  <2>3. \A x \in Oldest(S), y \in S \ Oldest(S) : x.seq < y.seq
    BY <1>1 DEF Oldest
  <2> QED
    BY <1>2, <2>2, <2>3 DEF Slid
<1> QED
  BY <1>3, <1>4

(* A page is the first part of what is unread, and empty only if that is; the *)
(* cursor after it is the number of its last entry.                           *)
LEMMA PageFacts ==
  ASSUME NEW S, NEW limit \in Nat \ {0}, NEW page \in Pages(S, limit),
         NEW otherwise, NEW next \in NextSeq(page, otherwise)
  PROVE  /\ page \subseteq S
         /\ \A x \in page, y \in S \ page : x.seq < y.seq
         /\ page = {} => S = {} /\ next = otherwise
         /\ page # {} => /\ \E e \in page : next = e.seq
                         /\ \A e \in page : e.seq <= next
BY FS_EmptySet DEF Pages, NextSeq

-----------------------------------------------------------------------------
LEMMA NumbersInit == FeedsInit => NumbersInv
BY DEF FeedsInit, NumbersInv, Last

LEMMA RecordSlides ==
  ASSUME NumbersInv, NEW level \in Levels, NEW given \in Nat, Record(level, given)
  PROVE  /\ lastSeq' \in Nat /\ lastSeq' > lastSeq
         /\ Slid(bucket, bucket', [seq |-> lastSeq', level |-> level])
<1>1. lastSeq' \in Nat /\ lastSeq' > lastSeq /\ lastSeq \in Nat
  BY DEF Record, JournalSeq, NumbersInv
<1>2. PICK e : e = [seq |-> lastSeq', level |-> level]
  OBVIOUS
<1>3. e.seq = lastSeq'
  BY <1>2
<1>4. bucket' = Windowed(bucket \cup {e}, BucketLimit)
  BY <1>2 DEF Record, JournalSeq
<1>5. \A x \in bucket : x.seq \in Nat /\ x.seq <= lastSeq
  BY DEF NumbersInv
<1>6. BucketLimit \in Nat \ {0}
  BY LimitsAssumption
<1>7. Slid(bucket, bucket', e)
  BY <1>1, <1>3, <1>4, <1>5, <1>6, WindowSlides
<1> QED
  BY <1>1, <1>2, <1>7

LEMMA RunEventSlides ==
  ASSUME NumbersInv, NEW level \in Levels, 
         RecordRunEvent([seq |-> seq + 1, level |-> level])
  PROVE  /\ runLast' \in Nat /\ runLast' > runLast
         /\ Slid(runHistory, runHistory', [seq |-> runLast', level |-> level])
<1>1. runLast' \in Nat /\ runLast' > runLast /\ runLast \in Nat
  BY DEF RecordRunEvent, NumbersInv
<1>2. PICK e : e = [seq |-> runLast', level |-> level]
  OBVIOUS
<1>3. e.seq = runLast'
  BY <1>2
<1>4. runHistory' = Windowed(runHistory \cup {e}, RunLimit)
  BY <1>2 DEF RecordRunEvent
<1>5. \A x \in runHistory : x.seq \in Nat /\ x.seq <= runLast
  BY DEF NumbersInv
<1>6. RunLimit \in Nat \ {0}
  BY LimitsAssumption
<1>7. Slid(runHistory, runHistory', e)
  BY <1>1, <1>3, <1>4, <1>5, <1>6, WindowSlides
<1> QED
  BY <1>1, <1>2, <1>7

(* What a publication does to the log of one reader.                          *)
Appended(r, level) ==
  /\ Last(r)' \in Nat /\ Last(r)' > Last(r)
  /\ Slid(Source(r), Source(r)', [seq |-> Last(r)', level |-> level])

(* A publication reaches the log of some readers, and is counted for those    *)
(* that want its level.                                                       *)
Published ==
  /\ UNCHANGED <<got, caughtUp, cursor>>
  /\ published' = [r \in Readers |-> published'[r]]
  /\ \A r \in Readers :
       \/ UNCHANGED <<Source(r), Last(r), published[r]>>
       \/ \E level \in Levels :
            /\ Appended(r, level)
            /\ published'[r] = published[r] + IF level \in Wanted[r] THEN 1 ELSE 0

LEMMA AppendsTail ==
  ASSUME NumbersInv, NEW level \in Levels, NEW given \in Nat, Record(level, given)
  PROVE  Appended("tail", level)
BY RecordSlides DEF Appended, Last, Source

LEMMA AppendsRun ==
  ASSUME NumbersInv, NEW level \in Levels, NEW r \in {"watch", "stream"},
         RecordRunEvent([seq |-> seq + 1, level |-> level])
  PROVE  Appended(r, level)
BY RunEventSlides DEF Appended, Last, Source

LEMMA PushIsPublished ==
  ASSUME NumbersInv, NEW level \in Levels, NEW inJob \in BOOLEAN, NEW inRun \in BOOLEAN,
         PushEvent(level, inJob, inRun)
  PROVE  Published
<1>1. UNCHANGED <<got, caughtUp, cursor>> /\ Counted(level, IF inRun THEN Readers ELSE {})
  BY DEF PushEvent, readerVars
<1>2. CASE inRun
  <2>1. RecordRunEvent([seq |-> seq + 1, level |-> level]) /\ Record(level, seq + 1)
    BY <1>2 DEF PushEvent
  <2>2. \A r \in Readers : Appended(r, level)
    <3>1. seq + 1 \in Nat
      BY DEF NumbersInv
    <3> QED
      BY <2>1, <3>1, AppendsTail, AppendsRun DEF Readers
  <2> QED
    BY <1>1, <1>2, <2>2 DEF Counted, Published, NumbersInv
<1>3. CASE ~inRun
  <2>1. UNCHANGED <<runHistory, runLast, bucket, lastSeq>>
    BY <1>3 DEF PushEvent
  <2> QED
    BY <1>1, <1>3, <2>1 DEF Counted, Published, NumbersInv, Source, Last
<1> QED
  BY <1>2, <1>3

LEMMA LogIsPublished ==
  ASSUME NumbersInv, NEW level \in Levels, NEW inRun \in BOOLEAN, LogJsonRpc(level, inRun),
         \A e \in history' : e.seq \in Nat
  PROVE  Published
<1>1. /\ UNCHANGED <<got, caughtUp, cursor, runHistory, runLast>>
      /\ Counted(level, IF inRun THEN {"tail"} ELSE {})
  BY DEF LogJsonRpc, readerVars
<1>2. CASE inRun
  <2>1. PICK latest \in history' : Record(level, latest.seq)
    BY <1>2 DEF LogJsonRpc
  <2>2. Appended("tail", level)
    BY <2>1, AppendsTail
  <2> QED
    BY <1>1, <1>2, <2>2 DEF Counted, Published, NumbersInv, Readers, Source, Last
<1>3. CASE ~inRun
  <2>1. UNCHANGED <<bucket, lastSeq>>
    BY <1>3 DEF LogJsonRpc
  <2> QED
    BY <1>1, <1>3, <2>1 DEF Counted, Published, NumbersInv, Source, Last
<1> QED
  BY <1>2, <1>3

-----------------------------------------------------------------------------
BusInv == busSeq \in Nat /\ \A e \in history : e.seq \in Nat
FeedsInv == NumbersInv /\ BusInv

LEMMA PublishKeepsBus ==
  ASSUME BusInv, NEW level \in Levels, PublishOnBus(level)
  PROVE  BusInv'
<1>1. history' \subseteq history \cup {[seq |-> busSeq + 1, level |-> level]}
  BY DEF PublishOnBus, DropFromHistory
<1>2. busSeq' = busSeq + 1
  BY DEF PublishOnBus
<1> QED
  BY <1>1, <1>2 DEF BusInv

LEMMA PublishedKeepsNumbers ==
  ASSUME NumbersInv, Published,
         seq' \in Nat, runLast' \in Nat, lastSeq' \in Nat, runLast' <= seq'
  PROVE  NumbersInv'
<1>1. ASSUME NEW r \in Readers
      PROVE  /\ Last(r)' >= Last(r) /\ Last(r) \in Nat /\ Last(r)' \in Nat
             /\ \A e \in Source(r)' : e.seq \in Nat /\ e.seq <= Last(r)'
             /\ published'[r] \in Nat
  <2>1. /\ Last(r) \in Nat /\ Last(r)' \in Nat /\ published[r] \in Nat
        /\ \A e \in Source(r) : e.seq \in Nat /\ e.seq <= Last(r)
    BY DEF NumbersInv, Last, Source
  <2>2. CASE UNCHANGED <<Source(r), Last(r), published[r]>>
    BY <2>1, <2>2
  <2>3. ASSUME NEW level \in Levels, Appended(r, level),
               published'[r] = published[r] + IF level \in Wanted[r] THEN 1 ELSE 0
        PROVE  /\ Last(r)' >= Last(r)
               /\ \A e \in Source(r)' : e.seq \in Nat /\ e.seq <= Last(r)'
               /\ published'[r] \in Nat
    BY <2>1, <2>3 DEF Appended, Slid
  <2> QED
    BY <2>1, <2>2, <2>3 DEF Published
<1>2. \A e \in runHistory' : e.seq \in Nat /\ e.seq <= runLast'
  BY <1>1 DEF Source, Last, Readers
<1>3. \A e \in bucket' : e.seq \in Nat /\ e.seq <= lastSeq'
  BY <1>1 DEF Source, Last, Readers
<1>4. \A r \in Readers : cursor'[r] <= Last(r)'
  BY <1>1 DEF NumbersInv, Published
<1>5. \A r \in Readers : \A e \in got'[r] : e.seq \in Nat /\ e.seq <= Last(r)'
  BY <1>1 DEF NumbersInv, Published
<1> QED
  BY <1>1, <1>2, <1>3, <1>4, <1>5 DEF NumbersInv, Published

(* A publication appends to what is unread, and evicts from its front.        *)
LEMMA PublishedIsFeedPublish ==
  ASSUME NumbersInv, Published
  PROVE  Feed!Publish
<1> SUFFICES ASSUME NEW r \in Readers
             PROVE  /\ Feed!Precedes(Unread(r) \ Unread(r)', Unread(r)')
                    /\ \/ published'[r] = published[r] /\ Unread(r)' \subseteq Unread(r)
                       \/ /\ published'[r] = published[r] + 1
                          /\ \E e \in Unread(r)' :
                               /\ Unread(r)' \subseteq Unread(r) \cup {e}
                               /\ Feed!Precedes(Unread(r) \cup got[r], {e})
  BY DEF Feed!Publish, Published
<1>1. /\ cursor' = cursor /\ cursor[r] \in Nat /\ cursor[r] <= Last(r) /\ Last(r) \in Nat
      /\ published[r] \in Nat
      /\ \A e \in Source(r) \cup got[r] : e.seq \in Nat /\ e.seq <= Last(r)
  BY DEF Published, NumbersInv, Source, Last
<1>2. CASE UNCHANGED <<Source(r), Last(r), published[r]>>
  <2>1. Unread(r)' = Unread(r)
    BY <1>1, <1>2 DEF Unread
  <2> QED
    BY <1>2, <2>1 DEF Feed!Precedes
<1>3. ASSUME NEW level \in Levels, Appended(r, level),
             published'[r] = published[r] + IF level \in Wanted[r] THEN 1 ELSE 0
      PROVE  /\ Feed!Precedes(Unread(r) \ Unread(r)', Unread(r)')
             /\ \/ published'[r] = published[r] /\ Unread(r)' \subseteq Unread(r)
                \/ /\ published'[r] = published[r] + 1
                   /\ \E e \in Unread(r)' :
                        /\ Unread(r)' \subseteq Unread(r) \cup {e}
                        /\ Feed!Precedes(Unread(r) \cup got[r], {e})
  <2>1. PICK e : e = [seq |-> Last(r)', level |-> level]
    OBVIOUS
  <2>2. /\ e.seq = Last(r)' /\ e.level = level /\ e.seq \in Nat /\ e.seq > Last(r)
        /\ Source(r)' \subseteq Source(r) \cup {e} /\ e \in Source(r)'
        /\ \A x \in Source(r) \ Source(r)', y \in Source(r)' : x.seq < y.seq
    BY <1>3, <2>1 DEF Appended, Slid
  <2>3. Unread(r)' = {x \in Source(r)' : x.seq > cursor[r] /\ x.level \in Wanted[r]}
    BY <1>1 DEF Unread
  <2>4. Feed!Precedes(Unread(r) \ Unread(r)', Unread(r)')
    BY <2>2, <2>3 DEF Feed!Precedes, Unread
  <2>5. Unread(r)' \subseteq Unread(r) \cup {e}
    BY <2>2, <2>3 DEF Unread
  <2>6. CASE level \in Wanted[r]
    <3>1. e \in Unread(r)'
      BY <1>1, <2>2, <2>3, <2>6
    <3>2. Feed!Precedes(Unread(r) \cup got[r], {e})
      BY <1>1, <2>2 DEF Feed!Precedes, Unread
    <3> QED
      BY <1>3, <2>4, <2>5, <2>6, <3>1, <3>2
  <2>7. CASE level \notin Wanted[r]
    BY <1>1, <1>3, <2>2, <2>3, <2>4, <2>5, <2>7
  <2> QED
    BY <2>6, <2>7
<1> QED
  BY <1>2, <1>3 DEF Published

-----------------------------------------------------------------------------
(* A read that found page, and left the cursor at next.                       *)
Reads(r, page, otherwise, next) ==
  /\ page \in Pages(Unread(r), PageLimit)
  /\ otherwise \in Nat /\ cursor[r] <= otherwise /\ otherwise <= Last(r)
  /\ next \in NextSeq(page, otherwise)
  /\ Received(r, page, next)

LEMMA ReadFacts ==
  ASSUME NumbersInv, NEW r \in Readers, NEW page, NEW otherwise, NEW next,
         Reads(r, page, otherwise, next)
  PROVE  /\ page \subseteq Unread(r)
         /\ next \in Nat /\ cursor[r] <= next /\ next <= Last(r)
         /\ Unread(r)' = Unread(r) \ page
         /\ Feed!Precedes(page, Unread(r) \ page)
         /\ page = {} => Unread(r) = {}
<1>1. /\ \A e \in Source(r) : e.seq \in Nat /\ e.seq <= Last(r)
      /\ cursor[r] \in Nat /\ cursor[r] <= Last(r) /\ Last(r) \in Nat
  BY DEF NumbersInv, Source, Last
<1>2. PageLimit \in Nat \ {0}
  BY LimitsAssumption
<1>3. /\ page \subseteq Unread(r)
      /\ \A x \in page, y \in Unread(r) \ page : x.seq < y.seq
      /\ page = {} => Unread(r) = {} /\ next = otherwise
      /\ page # {} => /\ \E e \in page : next = e.seq
                      /\ \A e \in page : e.seq <= next
  BY <1>2, PageFacts DEF Reads
<1>4. next \in Nat /\ cursor[r] <= next /\ next <= Last(r)
  BY <1>1, <1>3 DEF Reads, Unread
<1>5. /\ cursor'[r] = next /\ Source(r)' = Source(r)
  BY DEF Reads, Received, logVars, Source, NumbersInv
<1>6. Unread(r)' = {e \in Source(r) : e.seq > next /\ e.level \in Wanted[r]}
  BY <1>5 DEF Unread
<1>7. CASE page = {}
  <2>1. Unread(r)' \subseteq Unread(r)
    BY <1>1, <1>4, <1>6 DEF Unread
  <2> QED
    BY <1>3, <1>4, <1>7, <2>1 DEF Feed!Precedes
<1>8. CASE page # {}
  <2>1. Unread(r)' \subseteq Unread(r) \ page
    BY <1>1, <1>3, <1>4, <1>6, <1>8 DEF Unread
  <2>2. Unread(r) \ page \subseteq Unread(r)'
    BY <1>1, <1>3, <1>4, <1>6, <1>8 DEF Unread
  <2> QED
    BY <1>3, <1>4, <1>8, <2>1, <2>2 DEF Feed!Precedes
<1> QED
  BY <1>7, <1>8

LEMMA ReadKeepsNumbers ==
  ASSUME NumbersInv, NEW r \in Readers, NEW page, NEW otherwise, NEW next,
         Reads(r, page, otherwise, next)
  PROVE  NumbersInv'
<1>1. /\ page \subseteq Source(r) /\ next \in Nat /\ next <= Last(r)
  BY ReadFacts DEF Unread
<1>2. \A e \in page : e.seq \in Nat /\ e.seq <= Last(r)
  BY <1>1 DEF NumbersInv, Source, Last
<1>3. /\ got' = [got EXCEPT ![r] = @ \cup page]
      /\ cursor' = [cursor EXCEPT ![r] = next]
      /\ caughtUp' = [caughtUp EXCEPT ![r] = page = {}]
      /\ UNCHANGED <<seq, runLast, lastSeq, runHistory, bucket, published>>
  BY DEF Reads, Received, logVars
<1>4. (page = {}) \in BOOLEAN
  OBVIOUS
<1>5. \A q \in Readers : Last(q)' = Last(q)
  BY <1>3 DEF Last
<1>6. cursor' \in [Readers -> Nat] /\ \A q \in Readers : cursor'[q] <= Last(q)'
  BY <1>1, <1>3, <1>5 DEF NumbersInv
<1>7. \A q \in Readers : \A e \in got'[q] : e.seq \in Nat /\ e.seq <= Last(q)'
  BY <1>2, <1>3, <1>5 DEF NumbersInv
<1>8. DOMAIN got' = Readers /\ caughtUp' \in [Readers -> BOOLEAN]
  BY <1>3, <1>4 DEF NumbersInv
<1> QED
  BY <1>3, <1>6, <1>7, <1>8 DEF NumbersInv

LEMMA ReadIsFeedPage ==
  ASSUME NumbersInv, NEW r \in Readers, NEW page, NEW otherwise, NEW next,
         Reads(r, page, otherwise, next)
  PROVE  Feed!FeedNext
<1>1. /\ page \subseteq Unread(r) /\ Unread(r)' = Unread(r) \ page
      /\ Feed!Precedes(page, Unread(r) \ page)
      /\ page = {} => Unread(r) = {}
  BY ReadFacts
<1>2. /\ got' = [got EXCEPT ![r] = @ \cup page]
      /\ cursor' = [cursor EXCEPT ![r] = next]
      /\ caughtUp' = [caughtUp EXCEPT ![r] = page = {}]
      /\ UNCHANGED <<runHistory, bucket, published>>
  BY DEF Reads, Received, logVars
<1>3. \A q \in Readers : q # r => Unread(q)' = Unread(q)
  BY <1>2 DEF Unread, Source, NumbersInv
<1> DEFINE unread == [q \in Readers |-> Unread(q)]
<1>4. unread' = [unread EXCEPT ![r] = @ \ page]
  BY <1>1, <1>3
<1>5. unread[r] = Unread(r) /\ unread'[r] = Unread(r)' /\ unread[r] \ unread'[r] = page
  BY <1>1
<1> HIDE DEF unread
<1>6. \E p \in {unread[r] \ unread'[r]} :
        /\ unread' = [unread EXCEPT ![r] = @ \ p]
        /\ got' = [got EXCEPT ![r] = @ \cup p]
        /\ caughtUp' = [caughtUp EXCEPT ![r] = p = {}]
        /\ Feed!Precedes(p, unread'[r])
        /\ p = {} => unread[r] = {}
  <2>1. page \in {unread[r] \ unread'[r]}
    BY <1>5
  <2> WITNESS page \in {unread[r] \ unread'[r]}
  <2>2. Feed!Precedes(page, unread'[r]) /\ (page = {} => unread[r] = {})
    BY <1>1, <1>5
  <2> QED
    BY <1>2, <1>4, <2>2
<1>7. Feed!Page(r)
  BY <1>2, <1>6 DEF Feed!Page, unread
<1> QED
  BY <1>7 DEF Feed!FeedNext

LEMMA ReadersRead ==
  ASSUME NumbersInv, Watch \/ Tail \/ StreamNext \/ StreamResumes
  PROVE  \E r \in Readers : \E page, otherwise, next : Reads(r, page, otherwise, next)
<1>1. \A r \in Readers : cursor[r] \in Nat /\ cursor[r] <= Last(r) /\ Last(r) \in Nat
  BY DEF NumbersInv, Last
<1>2. CASE Watch
  <2>1. PICK page \in Pages(Unread("watch"), PageLimit) :
          \E next \in NextSeq(page, runLast) : Received("watch", page, next)
    BY <1>2 DEF Watch
  <2>2. \E next : Reads("watch", page, runLast, next)
    BY <1>1, <2>1 DEF Reads, Last, Readers
  <2> QED
    BY <2>2 DEF Readers
<1>3. CASE Tail
  <2>1. PICK page \in Pages(Unread("tail"), PageLimit) :
          \E next \in NextSeq(page, lastSeq) : Received("tail", page, next)
    BY <1>3 DEF Tail
  <2>2. \E next : Reads("tail", page, lastSeq, next)
    BY <1>1, <2>1 DEF Reads, Last, Readers
  <2> QED
    BY <2>2 DEF Readers
<1>4. CASE StreamNext \/ StreamResumes
  <2>1. PICK page \in Pages(Unread("stream"), PageLimit) :
          \E next \in NextSeq(page, cursor["stream"]) : Received("stream", page, next)
    BY <1>4 DEF StreamNext, StreamResumes, StreamTurn
  <2>2. \E next : Reads("stream", page, cursor["stream"], next)
    BY <1>1, <2>1 DEF Reads, Last, Readers
  <2> QED
    BY <2>2 DEF Readers
<1> QED
  BY <1>2, <1>3, <1>4

-----------------------------------------------------------------------------
FeedVars == <<runHistory, runLast, bucket, lastSeq, cursor, got, caughtUp, published>>

(* Every step of the system is a publication, a read or no concern of the     *)
(* feeds.                                                                     *)
LEMMA FeedsStep ==
  ASSUME FeedsInv, FeedsNext
  PROVE  /\ BusInv'
         /\ \/ Published /\ NumbersInv'
            \/ \E r \in Readers : \E page, otherwise, next : Reads(r, page, otherwise, next)
            \/ UNCHANGED <<FeedVars, seq>>
<1>1. ASSUME NEW level \in Levels, NEW inJob \in BOOLEAN, NEW inRun \in BOOLEAN,
             PushEvent(level, inJob, inRun)
      PROVE  BusInv' /\ Published /\ NumbersInv'
  <2>1. BusInv'
    BY <1>1, PublishKeepsBus DEF PushEvent, FeedsInv
  <2>2. Published
    BY <1>1, PushIsPublished DEF FeedsInv
  <2>3. seq' = seq + 1 /\ seq \in Nat /\ runLast \in Nat /\ runLast <= seq /\ lastSeq \in Nat
    BY <1>1 DEF PushEvent, Emit, FeedsInv, NumbersInv
  <2>4. seq' \in Nat /\ runLast' \in Nat /\ lastSeq' \in Nat /\ runLast' <= seq'
    BY <1>1, <2>3 DEF PushEvent, RecordRunEvent, Record, JournalSeq
  <2> QED
    BY <2>1, <2>2, <2>4, PublishedKeepsNumbers DEF FeedsInv
<1>2. ASSUME NEW level \in Levels, NEW inRun \in BOOLEAN, LogJsonRpc(level, inRun)
      PROVE  BusInv' /\ Published /\ NumbersInv'
  <2>1. BusInv'
    BY <1>2, PublishKeepsBus DEF LogJsonRpc, FeedsInv
  <2>2. Published
    BY <1>2, <2>1, LogIsPublished DEF FeedsInv, BusInv
  <2>3. /\ seq' = seq /\ runLast' = runLast
        /\ seq \in Nat /\ runLast \in Nat /\ runLast <= seq /\ lastSeq \in Nat
    BY <1>2 DEF LogJsonRpc, FeedsInv, NumbersInv
  <2>4. lastSeq' \in Nat
    <3>1. \A e \in history' : e.seq \in Nat
      BY <2>1 DEF BusInv
    <3>2. CASE inRun
      <4>1. PICK latest \in history' : Record(level, latest.seq)
        BY <1>2, <3>2 DEF LogJsonRpc
      <4> QED
        BY <2>3, <3>1, <4>1 DEF Record, JournalSeq
    <3>3. CASE ~inRun
      BY <1>2, <2>3, <3>3 DEF LogJsonRpc
    <3> QED
      BY <3>2, <3>3
  <2> QED
    BY <2>1, <2>2, <2>3, <2>4, PublishedKeepsNumbers DEF FeedsInv
<1>3. CASE Watch \/ Tail \/ StreamNext \/ StreamResumes
  <2>1. UNCHANGED logVars
    BY <1>3 DEF Watch, Tail, StreamNext, StreamResumes, StreamTurn, Received
  <2> QED
    BY <1>3, <2>1, ReadersRead DEF FeedsInv, BusInv, logVars
<1>4. CASE Abort \/ Return \/ ReplayPage
  BY <1>4 DEF Abort, Return, ReplayPage, FeedsInv, BusInv, FeedVars, logVars, readerVars
<1> QED
  BY <1>1, <1>2, <1>3, <1>4 DEF FeedsNext

LEMMA FeedsInvInit == FeedsInit => FeedsInv
BY NumbersInit DEF FeedsInit, FeedsInv, BusInv

LEMMA NumbersUnchanged ==
  ASSUME NumbersInv, UNCHANGED <<FeedVars, seq>>
  PROVE  NumbersInv' /\ UNCHANGED Feed!feedVars
<1>1. NumbersInv'
  BY DEF FeedVars, NumbersInv, Last
<1>2. UNCHANGED Feed!feedVars
  BY DEF FeedVars, Feed!feedVars, Unread, Source
<1> QED
  BY <1>1, <1>2

LEMMA FeedsInvStep == FeedsInv /\ [FeedsNext]_vars => FeedsInv'
<1>1. ASSUME FeedsInv, FeedsNext
      PROVE  FeedsInv'
  BY <1>1, FeedsStep, ReadKeepsNumbers, NumbersUnchanged DEF FeedsInv
<1>2. ASSUME FeedsInv, UNCHANGED vars
      PROVE  FeedsInv'
  BY <1>2, NumbersUnchanged DEF vars, logVars, readerVars, FeedVars, FeedsInv, BusInv
<1> QED
  BY <1>1, <1>2

LEMMA FeedsRefine ==
  FeedsInv /\ [FeedsNext]_vars => [Feed!FeedNext]_(Feed!feedVars)
<1>1. ASSUME FeedsInv, FeedsNext
      PROVE  Feed!FeedNext \/ UNCHANGED Feed!feedVars
  <2>1. CASE Published
    BY <1>1, <2>1, PublishedIsFeedPublish DEF Feed!FeedNext, FeedsInv
  <2>2. CASE \E r \in Readers : \E page, otherwise, next : Reads(r, page, otherwise, next)
    BY <1>1, <2>2, ReadIsFeedPage DEF FeedsInv
  <2>3. CASE UNCHANGED <<FeedVars, seq>>
    BY <1>1, <2>3, NumbersUnchanged DEF FeedsInv
  <2> QED
    BY <1>1, <2>1, <2>2, <2>3, FeedsStep
<1>2. ASSUME FeedsInv, UNCHANGED vars
      PROVE  UNCHANGED Feed!feedVars
  BY <1>2, NumbersUnchanged DEF vars, logVars, readerVars, FeedVars, FeedsInv
<1> QED
  BY <1>1, <1>2

(* The run's history and its log, read through resources_watch, watchStream   *)
(* and logs_tail, are lossless feeds whatever their windows, page sizes and   *)
(* filters: a reader that follows next_seq gets each entry once, in order,    *)
(* and an empty page means that it has caught up.                             *)
THEOREM FeedsAreLossless == FeedsSafety => LosslessPaging
<1>1. FeedsInit => Feed!FeedInit
  BY DEF FeedsInit, Feed!FeedInit, Unread, Source
<1> QED
  BY <1>1, FeedsInvInit, FeedsInvStep, FeedsRefine, PTL
  DEF FeedsSafety, LosslessPaging, Feed!FeedSpec

-----------------------------------------------------------------------------
Errors(S) == {e \in S : e.level = "error"}

(* A bus that has lost an error is full of errors.                            *)
HistoryInv ==
  /\ busSeq \in Nat /\ errors \in Nat /\ IsFiniteSet(history)
  /\ \A e \in history : e.seq \in Nat /\ e.seq <= busSeq /\ e.level \in Levels
  /\ \A x, y \in history : x.seq = y.seq => x = y
  /\ Cardinality(Errors(history)) <= errors
  /\ Cardinality(Errors(history)) < errors
       => Errors(history) = history /\ Cardinality(history) >= HistoryLimit

LEMMA OldestIsOne ==
  ASSUME NEW S, IsFiniteSet(S), NEW T \in SUBSET S,
         \A x \in S : x.seq \in Nat,
         \A x, y \in S : x.seq = y.seq => x = y
  PROVE  /\ IsFiniteSet(S \ Oldest(T))
         /\ Cardinality(S \ Oldest(T)) >= Cardinality(S) - 1
<1>1. \A x, y \in Oldest(T) : x = y
  BY DEF Oldest
<1>2. CASE Oldest(T) = {}
  <2>1. S \ Oldest(T) = S
    BY <1>2
  <2>2. Cardinality(S) \in Nat /\ Cardinality(S) >= Cardinality(S) - 1
    BY FS_CardinalityType
  <2> QED
    BY <2>1, <2>2
<1>3. CASE Oldest(T) # {}
  <2>1. PICK m \in Oldest(T) : Oldest(T) = {m}
    BY <1>1, <1>3
  <2>2. /\ Cardinality(S) \in Nat /\ IsFiniteSet(S \ {m})
        /\ Cardinality(S \ {m}) = IF m \in S THEN Cardinality(S) - 1 ELSE Cardinality(S)
    BY FS_CardinalityType, FS_RemoveElement
  <2>3. Cardinality(S \ {m}) >= Cardinality(S) - 1
    BY <2>2
  <2>4. S \ Oldest(T) = S \ {m}
    BY <2>1
  <2> QED
    BY <2>2, <2>3, <2>4
<1> QED
  BY <1>2, <1>3

LEMMA PublishKeepsHistory ==
  ASSUME HistoryInv, NEW level \in Levels, PublishOnBus(level)
  PROVE  HistoryInv'
<1> DEFINE e == [seq |-> busSeq + 1, level |-> level]
           pushed == history \cup {e}
           info == {x \in pushed : x.level = "info"}
<1>1. /\ busSeq' = busSeq + 1 /\ errors' = errors + IF level = "error" THEN 1 ELSE 0
      /\ history' = IF Cardinality(pushed) > HistoryLimit THEN DropFromHistory(pushed)
                                                        ELSE pushed
  BY DEF PublishOnBus
<1>2. HistoryLimit \in Nat /\ busSeq \in Nat /\ errors \in Nat
  BY LimitsAssumption DEF HistoryInv
<1>3. e.seq = busSeq + 1 /\ e.level = level /\ e \notin history
  BY <1>2 DEF HistoryInv
<1>4. /\ IsFiniteSet(pushed) /\ Cardinality(pushed) = Cardinality(history) + 1
      /\ Cardinality(history) \in Nat
  BY <1>3, FS_AddElement, FS_CardinalityType DEF HistoryInv
<1>5. /\ \A x \in pushed : x.seq \in Nat /\ x.seq <= busSeq' /\ x.level \in Levels
      /\ \A x, y \in pushed : x.seq = y.seq => x = y
  BY <1>1, <1>2, <1>3 DEF HistoryInv
<1>6. /\ IsFiniteSet(Errors(history)) /\ Cardinality(Errors(history)) \in Nat
      /\ IsFiniteSet(Errors(pushed)) /\ Cardinality(Errors(pushed)) \in Nat
      /\ Cardinality(Errors(pushed))
           = Cardinality(Errors(history)) + IF level = "error" THEN 1 ELSE 0
  <2>1. IsFiniteSet(Errors(history)) /\ IsFiniteSet(Errors(pushed))
    BY <1>4, FS_Subset DEF Errors, HistoryInv
  <2>2. e \notin Errors(history)
    BY <1>3 DEF Errors
  <2>3. Errors(pushed) = IF level = "error" THEN Errors(history) \cup {e} ELSE Errors(history)
    BY <1>3 DEF Errors
  <2>4. /\ Cardinality(Errors(history)) \in Nat
        /\ Cardinality(Errors(history) \cup {e}) = Cardinality(Errors(history)) + 1
    BY <2>1, <2>2, FS_AddElement, FS_CardinalityType
  <2> HIDE DEF e, pushed
  <2> QED
    BY <2>1, <2>3, <2>4
<1> HIDE DEF e
<1>7. /\ Cardinality(Errors(pushed)) <= errors'
      /\ Cardinality(Errors(pushed)) < errors'
           => Errors(history) = history /\ Cardinality(history) >= HistoryLimit
  <2> HIDE DEF pushed
  <2> QED
    BY <1>1, <1>2, <1>6 DEF HistoryInv
<1>8. CASE Cardinality(pushed) <= HistoryLimit
  <2>1. history' = pushed
    BY <1>1, <1>2, <1>4, <1>8
  <2>2. ~(Cardinality(history) >= HistoryLimit)
    BY <1>2, <1>4, <1>8
  <2> HIDE DEF pushed
  <2>3. HistoryInv'
    BY <1>1, <1>2, <1>4, <1>5, <1>7, <2>1, <2>2 DEF HistoryInv
  <2> QED
    BY <2>3
<1>9. CASE Cardinality(pushed) > HistoryLimit
  <2>1. history' = pushed \ Oldest(IF info # {} THEN info ELSE pushed)
    BY <1>1, <1>9 DEF DropFromHistory
  <2>2. /\ history' \subseteq pushed /\ IsFiniteSet(history')
        /\ Cardinality(history') >= Cardinality(pushed) - 1
    <3> DEFINE T == IF info # {} THEN info ELSE pushed
    <3>1. T \in SUBSET pushed /\ history' = pushed \ Oldest(T)
      BY <2>1
    <3> HIDE DEF T, pushed
    <3> QED
      BY <1>4, <1>5, <3>1, OldestIsOne
  <2>3. Cardinality(history') >= HistoryLimit
    <3>1. Cardinality(history') \in Nat
      BY <2>2, FS_CardinalityType
    <3> HIDE DEF pushed
    <3> QED
      BY <1>2, <1>4, <1>9, <2>2, <3>1
  <2>4. Errors(history') \subseteq Errors(pushed)
    BY <2>2 DEF Errors
  <2>5. /\ Cardinality(Errors(history')) \in Nat
        /\ Cardinality(Errors(history')) <= Cardinality(Errors(pushed))
    <3> HIDE DEF pushed
    <3>1. IsFiniteSet(Errors(history'))
      BY <1>6, <2>4, FS_Subset
    <3> QED
      BY <1>6, <2>4, <3>1, FS_Subset, FS_CardinalityType
  <2>6. Cardinality(Errors(history')) < errors' => Errors(history') = history'
    <3>1. CASE info = {}
      BY <1>5, <2>2, <3>1 DEF Errors, Levels
    <3>2. CASE info # {} /\ Errors(history) = history
      <4>1. e \in info /\ info \subseteq {e}
        BY <3>2 DEF Errors
      <4>2. Oldest(info) = {e}
        BY <1>2, <1>3, <4>1 DEF Oldest
      <4> QED
        BY <2>1, <3>2, <4>2 DEF Errors
    <3>3. CASE info # {} /\ Errors(history) # history
      <4>1. Cardinality(Errors(pushed)) = errors'
        <5> HIDE DEF pushed
        <5> QED
          BY <1>1, <1>2, <1>6, <1>7, <3>3
      <4>2. Errors(history') = Errors(pushed)
        BY <2>1, <3>3 DEF Errors, Oldest
      <4> HIDE DEF pushed
      <4> QED
        BY <1>6, <4>1, <4>2
    <3> QED
      BY <3>1, <3>2, <3>3
  <2>7. Cardinality(Errors(history')) <= errors'
    <3> HIDE DEF pushed
    <3> QED
      BY <1>1, <1>2, <1>6, <1>7, <2>5
  <2>8. /\ \A x \in history' : x.seq \in Nat /\ x.seq <= busSeq' /\ x.level \in Levels
        /\ \A x, y \in history' : x.seq = y.seq => x = y
    <3> HIDE DEF pushed
    <3> QED
      BY <1>5, <2>2
  <2>9. busSeq' \in Nat /\ errors' \in Nat /\ IsFiniteSet(history')
    BY <1>1, <1>2, <2>2
  <2> HIDE DEF pushed, info
  <2> QED
    BY <2>3, <2>6, <2>7, <2>8, <2>9 DEF HistoryInv
<1> QED
  BY <1>2, <1>4, <1>8, <1>9

LEMMA HistoryInvInit == FeedsInit => HistoryInv
<1> SUFFICES ASSUME FeedsInit PROVE HistoryInv
  OBVIOUS
<1>1. busSeq = 0 /\ errors = 0 /\ history = {} /\ Errors(history) = {}
  BY DEF FeedsInit, Errors
<1>2. IsFiniteSet(history) /\ Cardinality(Errors(history)) = 0
  BY <1>1, FS_EmptySet
<1> QED
  BY <1>1, <1>2 DEF HistoryInv

LEMMA HistoryInvStep == HistoryInv /\ [FeedsNext]_vars => HistoryInv'
<1>1. ASSUME HistoryInv, UNCHANGED <<busSeq, history, errors>>
      PROVE  HistoryInv'
  BY <1>1 DEF HistoryInv, Errors
<1>2. ASSUME HistoryInv, NEW level \in Levels, PublishOnBus(level)
      PROVE  HistoryInv'
  BY <1>2, PublishKeepsHistory
<1>3. ASSUME FeedsNext
      PROVE  \/ UNCHANGED <<busSeq, history, errors>>
             \/ \E level \in Levels : PublishOnBus(level)
  BY <1>3 DEF FeedsNext, PushEvent, LogJsonRpc, Watch, Tail, StreamNext, StreamResumes,
     StreamTurn, Received, Abort, Return, ReplayPage, logVars
<1> QED
  BY <1>1, <1>2, <1>3 DEF vars, logVars

(* The bus drops an info event before an error: it has kept every error as    *)
(* long as its history holds any info event.                                  *)
THEOREM BusKeepsErrors == FeedsSafety => []ErrorsOutliveInfo
<1>1. HistoryInv => ErrorsOutliveInfo
  BY DEF HistoryInv, ErrorsOutliveInfo, Errors
<1> QED
  BY <1>1, HistoryInvInit, HistoryInvStep, PTL DEF FeedsSafety

-----------------------------------------------------------------------------
(* Pages and windows exist, and are one.                                      *)
LEMMA LeastNatural ==
  ASSUME NEW T \in SUBSET Nat, T # {}
  PROVE  \E m \in T : \A n \in T : m <= n
<1>1. PICK m \in T : \A n \in T : ~(<<n, m>> \in OpToRel(<, Nat))
  BY NatLessThanWellFounded, WFMin
<1>2. \A n \in T : ~(n < m)
  BY <1>1 DEF OpToRel
<1> QED
  BY <1>2

LEMMA OldestExists ==
  ASSUME NEW S, S # {}, \A x \in S : x.seq \in Nat
  PROVE  \E e \in S : \A x \in S : e.seq <= x.seq
<1> DEFINE T == {x.seq : x \in S}
<1>1. T \in SUBSET Nat /\ T # {}
  OBVIOUS
<1>2. \E m \in T : \A n \in T : m <= n
  <2> HIDE DEF T
  <2> QED  BY <1>1, LeastNatural
<1> QED
  BY <1>2

(* Numbered entries, no two with one number.                                  *)
Numbered(S) ==
  /\ IsFiniteSet(S) /\ \A x \in S : x.seq \in Nat
  /\ \A x, y \in S : x.seq = y.seq => x = y

FirstOf(P, S) == P \subseteq S /\ \A x \in P, y \in S \ P : x.seq < y.seq

LEMMA PageExists ==
  ASSUME NEW S, Numbered(S), NEW limit \in Nat
  PROVE  \E P : P \in Pages(S, limit)
<1> DEFINE Short == {P \in SUBSET S : FirstOf(P, S) /\ Cardinality(P) <= limit}
           Gaps == {limit - Cardinality(P) : P \in Short}
<1>1. \A P \in SUBSET S : IsFiniteSet(P) /\ Cardinality(P) \in Nat
  BY FS_Subset, FS_CardinalityType DEF Numbered
<1>2. {} \in Short
  BY FS_EmptySet DEF FirstOf
<1>3. Gaps \in SUBSET Nat /\ Gaps # {}
  <2>1. \A P \in Short : limit - Cardinality(P) \in Nat
    BY <1>1
  <2> HIDE DEF Short
  <2> QED
    BY <1>2, <2>1
<1>4. PICK P \in Short : \A Q \in Short : Cardinality(Q) <= Cardinality(P)
  <2>1. \E m \in Gaps : \A n \in Gaps : m <= n
    <3> HIDE DEF Gaps
    <3> QED  BY <1>3, LeastNatural
  <2>2. PICK P \in Short : \A Q \in Short : limit - Cardinality(P) <= limit - Cardinality(Q)
    BY <2>1
  <2>3. \A Q \in Short : Cardinality(Q) \in Nat
    BY <1>1
  <2> HIDE DEF Short
  <2> QED
    BY <2>2, <2>3
<1>5. ASSUME P # S, Cardinality(P) # limit
      PROVE  FALSE
  <2>1. PICK e \in S \ P : \A x \in S \ P : e.seq <= x.seq
    <3>1. S \ P # {} /\ \A x \in S \ P : x.seq \in Nat
      BY <1>5 DEF Numbered
    <3> QED
      BY <3>1, OldestExists
  <2> DEFINE Q == P \cup {e}
  <2>2. Cardinality(Q) = Cardinality(P) + 1
    BY <1>1, <2>1, FS_AddElement
  <2>3. FirstOf(Q, S)
    <3>1. \A x \in P : x.seq < e.seq
      BY <2>1 DEF FirstOf
    <3>2. \A y \in S \ Q : e.seq < y.seq
      BY <2>1 DEF Numbered
    <3> QED
      BY <2>1, <3>1, <3>2 DEF FirstOf, Numbered
  <2>4. Cardinality(P) \in Nat /\ Cardinality(P) <= limit
    BY <1>1
  <2>5. Q \in Short
    <3>1. Cardinality(Q) <= limit
      <4> HIDE DEF Q
      <4> QED  BY <1>5, <2>2, <2>4
    <3> QED
      BY <2>1, <2>3, <3>1
  <2>6. Cardinality(Q) <= Cardinality(P)
    BY <1>4, <2>5
  <2> HIDE DEF Q
  <2> QED
    BY <2>2, <2>4, <2>6
<1>6. P \in Pages(S, limit)
  BY <1>5 DEF Pages, FirstOf
<1> QED
  BY <1>6

LEMMA PageIsOne ==
  ASSUME NEW S, Numbered(S), NEW limit \in Nat,
         NEW P \in Pages(S, limit), NEW Q \in Pages(S, limit)
  PROVE  P = Q
<1>1. /\ P \subseteq S /\ Q \subseteq S
      /\ \A x \in P, y \in S \ P : x.seq < y.seq
      /\ \A x \in Q, y \in S \ Q : x.seq < y.seq
      /\ Cardinality(P) <= limit /\ (P = S \/ Cardinality(P) = limit)
      /\ Cardinality(Q) <= limit /\ (Q = S \/ Cardinality(Q) = limit)
  BY DEF Pages
<1>2. P \subseteq Q \/ Q \subseteq P
  <2>1. ASSUME NEW x \in P \ Q, NEW y \in Q \ P PROVE FALSE
    <3>1. x.seq < y.seq /\ y.seq < x.seq /\ x.seq \in Nat /\ y.seq \in Nat
      BY <1>1 DEF Numbered
    <3> QED
      BY <3>1
  <2> QED
    BY <2>1
<1>3. /\ IsFiniteSet(P) /\ IsFiniteSet(Q)
      /\ Cardinality(P) \in Nat /\ Cardinality(Q) \in Nat
  BY <1>1, FS_Subset, FS_CardinalityType DEF Numbered
<1>4. CASE P \subseteq Q
  <2>1. CASE P = S
    BY <1>1, <1>4, <2>1
  <2>2. CASE Cardinality(P) = limit
    <3>1. Cardinality(P) <= Cardinality(Q) /\ (Cardinality(Q) = Cardinality(P) => Q = P)
      BY <1>3, <1>4, FS_Subset
    <3> QED
      BY <1>1, <1>3, <2>2, <3>1
  <2> QED
    BY <1>1, <2>1, <2>2
<1>5. CASE Q \subseteq P
  <2>1. CASE Q = S
    BY <1>1, <1>5, <2>1
  <2>2. CASE Cardinality(Q) = limit
    <3>1. Cardinality(Q) <= Cardinality(P) /\ (Cardinality(P) = Cardinality(Q) => P = Q)
      BY <1>3, <1>5, FS_Subset
    <3> QED
      BY <1>1, <1>3, <2>2, <3>1
  <2> QED
    BY <1>1, <2>1, <2>2
<1> QED
  BY <1>2, <1>4, <1>5

LEMMA FetchIsPage ==
  ASSUME NEW S, Numbered(S)
  PROVE  ReplayFetch(S) \in Pages(S, ReplayLimit + 1)
<1>1. ReplayLimit + 1 \in Nat
  BY LimitsAssumption
<1>2. PICK P : P \in Pages(S, ReplayLimit + 1)
  BY <1>1, PageExists
<1>3. \A Q \in Pages(S, ReplayLimit + 1) : Q = P
  BY <1>1, <1>2, PageIsOne
<1>4. UNION Pages(S, ReplayLimit + 1) = P
  BY <1>2, <1>3
<1> QED
  BY <1>2, <1>4 DEF ReplayFetch

(* One page of a replay: it goes on after the number of its last event, or is *)
(* the end of the window.                                                     *)
LEMMA ReplayStep ==
  ASSUME NEW after, Numbered(after),
         NEW page \in Pages(ReplayFetch(after), ReplayLimit),
         NEW next \in NextSeq(page, 0)
  PROVE  /\ page \subseteq after
         /\ Cardinality(ReplayFetch(after)) > ReplayLimit
              => /\ \E e \in page : next = e.seq
                 /\ \A e \in after : e.seq <= next => e \in page
         /\ ~(Cardinality(ReplayFetch(after)) > ReplayLimit) => page = after
<1> DEFINE fetched == ReplayFetch(after)
<1>1. ReplayLimit \in Nat \ {0}
  BY LimitsAssumption
<1>2. /\ fetched \subseteq after /\ \A x \in fetched, y \in after \ fetched : x.seq < y.seq
      /\ fetched = after \/ Cardinality(fetched) = ReplayLimit + 1
  BY FetchIsPage DEF Pages
<1>3. /\ page \subseteq fetched /\ \A x \in page, y \in fetched \ page : x.seq < y.seq
      /\ Cardinality(page) <= ReplayLimit
      /\ page = fetched \/ Cardinality(page) = ReplayLimit
      /\ page # {} => /\ \E e \in page : next = e.seq
                      /\ \A e \in page : e.seq <= next
  BY DEF Pages, NextSeq
<1> HIDE DEF fetched
<1>4. /\ Cardinality(fetched) \in Nat /\ Cardinality(page) \in Nat /\ IsFiniteSet(fetched)
      /\ Cardinality(page) <= Cardinality(fetched)
      /\ Cardinality(fetched) = Cardinality(page) => fetched = page
  <2>1. IsFiniteSet(fetched)
    BY <1>2, FS_Subset DEF Numbered
  <2>2. IsFiniteSet(page)
    BY <1>3, <2>1, FS_Subset
  <2> QED
    BY <1>3, <2>1, <2>2, FS_Subset, FS_CardinalityType
<1>5. ASSUME Cardinality(fetched) > ReplayLimit
      PROVE  /\ \E e \in page : next = e.seq
             /\ \A e \in after : e.seq <= next => e \in page
  <2>1. Cardinality(page) = ReplayLimit
    BY <1>1, <1>3, <1>4, <1>5
  <2>2. page # {}
    BY <1>1, <2>1, FS_EmptySet
  <2>3. PICK last \in page : next = last.seq
    BY <1>3, <2>2
  <2>4. ASSUME NEW e \in after, e.seq <= next PROVE e \in page
    <3>1. last \in fetched /\ last.seq \in Nat /\ e.seq \in Nat
      BY <1>2, <1>3, <2>3 DEF Numbered
    <3>2. e \in fetched
      BY <1>2, <2>3, <2>4, <3>1
    <3> QED
      BY <1>3, <2>3, <2>4, <3>1, <3>2
  <2> QED
    BY <2>3, <2>4
<1>6. ASSUME ~(Cardinality(fetched) > ReplayLimit) PROVE page = after
  <2>1. fetched = after
    BY <1>1, <1>2, <1>4, <1>6
  <2>2. page = fetched
    BY <1>1, <1>3, <1>4, <1>6
  <2> QED
    BY <2>1, <2>2
<1> QED
  BY <1>2, <1>3, <1>5, <1>6 DEF fetched

(* What a pass over the window has behind its cursor it was given.            *)
ReplayInv ==
  /\ seq \in Nat /\ Numbered(perJob)
  /\ \A e \in perJob : e.seq \in 1..seq
  /\ replay.cursor \in 0..seq
  /\ replay.cursor > 0 =>
       \A e \in perJob : e.seq <= replay.cursor => e \in replay.got

LEMMA ReplayInvInit == FeedsInit => ReplayInv
BY FS_EmptySet DEF FeedsInit, ReplayInv, Numbered

LEMMA EmitKeepsReplay ==
  ASSUME ReplayInv, NEW level \in Levels, NEW inJob \in BOOLEAN,
         Emit([seq |-> seq + 1, level |-> level], inJob), UNCHANGED replay
  PROVE  ReplayInv'
<1> DEFINE e == [seq |-> seq + 1, level |-> level]
<1>1. seq' = seq + 1 /\ e.seq = seq + 1 /\ seq \in Nat
  BY DEF Emit, ReplayInv
<1>2. perJob' \subseteq perJob \cup {e}
  BY DEF Emit, Windowed
<1> HIDE DEF e
<1>3. Numbered(perJob')
  <2>1. IsFiniteSet(perJob \cup {e})
    BY FS_AddElement DEF ReplayInv, Numbered
  <2>2. IsFiniteSet(perJob')
    BY <1>2, <2>1, FS_Subset
  <2> QED
    BY <1>1, <1>2, <2>2 DEF ReplayInv, Numbered
<1> QED
  BY <1>1, <1>2, <1>3 DEF ReplayInv

LEMMA ReplayPageFacts ==
  ASSUME ReplayInv, ReplayPage
  PROVE  ReplayInv' /\ ReplayEndsComplete
<1> DEFINE after == {e \in perJob : e.seq > replay.cursor}
<1>1. Numbered(after)
  BY FS_Subset DEF ReplayInv, Numbered
<1>2. UNCHANGED <<seq, perJob>>
  BY DEF ReplayPage, logVars
<1>3. PICK page \in Pages(ReplayFetch(after), ReplayLimit) : \E next \in NextSeq(page, 0) :
        replay' = [cursor |-> IF Cardinality(ReplayFetch(after)) > ReplayLimit THEN next ELSE 0,
                   got |-> page \cup IF replay.cursor = 0 THEN {} ELSE replay.got]
  BY DEF ReplayPage
<1>4. PICK next \in NextSeq(page, 0) :
        replay' = [cursor |-> IF Cardinality(ReplayFetch(after)) > ReplayLimit THEN next ELSE 0,
                   got |-> page \cup IF replay.cursor = 0 THEN {} ELSE replay.got]
  BY <1>3
<1>5. /\ page \subseteq after
      /\ Cardinality(ReplayFetch(after)) > ReplayLimit
           => /\ \E e \in page : next = e.seq
              /\ \A e \in after : e.seq <= next => e \in page
      /\ ~(Cardinality(ReplayFetch(after)) > ReplayLimit) => page = after
  <2> HIDE DEF after
  <2> QED
    BY <1>1, ReplayStep
<1>6. \A e \in perJob : e \notin after => replay.cursor # 0 /\ e \in replay.got
  BY DEF ReplayInv
<1>7. CASE Cardinality(ReplayFetch(after)) > ReplayLimit
  <2>1. /\ replay'.cursor = next
        /\ replay'.got = page \cup IF replay.cursor = 0 THEN {} ELSE replay.got
    BY <1>4, <1>7
  <2>2. next \in 1..seq
    BY <1>5, <1>7 DEF ReplayInv
  <2>3. \A e \in perJob : e.seq <= next => e \in replay'.got
    <3> HIDE DEF after
    <3> QED
      BY <1>5, <1>6, <1>7, <2>1
  <2> QED
    BY <1>2, <2>1, <2>2, <2>3 DEF ReplayInv, ReplayEndsComplete, Numbered
<1>8. CASE ~(Cardinality(ReplayFetch(after)) > ReplayLimit)
  <2>1. /\ replay'.cursor = 0
        /\ replay'.got = page \cup IF replay.cursor = 0 THEN {} ELSE replay.got
    BY <1>4, <1>8
  <2>2. \A e \in perJob : e \in replay'.got
    <3> HIDE DEF after
    <3> QED
      BY <1>5, <1>6, <1>8, <2>1
  <2> QED
    BY <1>2, <2>1, <2>2 DEF ReplayInv, ReplayEndsComplete, Numbered
<1> QED
  BY <1>7, <1>8

LEMMA ReplayInvStep ==
  ASSUME ReplayInv, [FeedsNext]_vars
  PROVE  ReplayInv' /\ [ReplayEndsComplete]_vars
<1>1. ASSUME NEW level \in Levels, NEW inJob \in BOOLEAN, NEW inRun \in BOOLEAN,
             PushEvent(level, inJob, inRun)
      PROVE  ReplayInv' /\ replay' = replay
  <2>1. Emit([seq |-> seq + 1, level |-> level], inJob) /\ UNCHANGED replay
    BY <1>1 DEF PushEvent
  <2> QED
    BY <2>1, EmitKeepsReplay
<1>2. CASE UNCHANGED <<seq, perJob, replay>>
  BY <1>2 DEF ReplayInv, Numbered, ReplayEndsComplete
<1>3. ASSUME \/ \E level \in Levels, inRun \in BOOLEAN : LogJsonRpc(level, inRun)
             \/ Watch \/ Tail \/ StreamNext \/ StreamResumes \/ Abort \/ Return
             \/ UNCHANGED vars
      PROVE  UNCHANGED <<seq, perJob, replay>>
  BY <1>3 DEF LogJsonRpc, Watch, Tail, StreamNext, StreamResumes, StreamTurn, Received, Abort,
     Return, logVars, vars
<1> QED
  BY <1>1, <1>2, <1>3, ReplayPageFacts DEF FeedsNext, ReplayEndsComplete

(* A client that follows nextCursor to the end has been given the whole       *)
(* window, whatever was published or evicted between two pages, for every     *)
(* window and page size.                                                      *)
THEOREM ReplaysAreComplete == FeedsSafety => ReplayIsComplete
  BY ReplayInvInit, ReplayInvStep, PTL DEF FeedsSafety, ReplayIsComplete

-----------------------------------------------------------------------------
(* A window holds at most limit entries, none of them ahead of last.          *)
Window(S, limit, last) ==
  /\ S \in SUBSET Entry /\ Numbered(S) /\ Cardinality(S) <= limit
  /\ \A e \in S : e.seq <= last

LEMMA OldestLeaves ==
  ASSUME NEW S, Numbered(S), NEW T \in SUBSET S, T # {}
  PROVE  Cardinality(S \ Oldest(T)) = Cardinality(S) - 1
<1>1. PICK m \in T : \A x \in T : m.seq <= x.seq
  BY OldestExists DEF Numbered
<1>2. Oldest(T) = {m}
  BY <1>1 DEF Oldest, Numbered
<1>3. m \in S /\ IsFiniteSet(S)
  BY <1>1 DEF Numbered
<1>4. Cardinality(S \ {m}) = Cardinality(S) - 1
  BY <1>3, FS_RemoveElement
<1> QED
  BY <1>2, <1>4

(* A new entry is let in, and one over the limit is let go.                   *)
LEMMA WindowKept ==
  ASSUME NEW S, NEW limit \in Nat \ {0}, NEW last \in Nat, Window(S, limit, last),
         NEW e \in Entry, e.seq > last, NEW T \in SUBSET (S \cup {e}), T # {},
         NEW kept, kept = IF Cardinality(S \cup {e}) > limit THEN (S \cup {e}) \ Oldest(T)
                                                            ELSE S \cup {e}
  PROVE  Window(kept, limit, e.seq)
<1> DEFINE pushed == S \cup {e}
<1>1. e.seq \in Nat /\ e \notin S /\ \A x \in S : x.seq \in Nat /\ x.seq < e.seq
  BY DEF Window, Entry
<1>2. /\ IsFiniteSet(pushed) /\ Cardinality(pushed) = Cardinality(S) + 1
      /\ Cardinality(S) \in Nat
  BY <1>1, FS_AddElement, FS_CardinalityType DEF Window, Numbered
<1>3. Numbered(pushed)
  BY <1>1, <1>2 DEF Window, Numbered
<1>4. kept \subseteq pushed
  OBVIOUS
<1>5. Cardinality(kept) <= limit
  <2>1. CASE Cardinality(pushed) > limit
    <3>1. kept = pushed \ Oldest(T) /\ T \in SUBSET pushed
      BY <2>1
    <3> HIDE DEF pushed
    <3>2. Cardinality(kept) = Cardinality(pushed) - 1
      BY <1>3, <3>1, OldestLeaves
    <3>3. Cardinality(S) <= limit
      BY DEF Window
    <3> QED
      BY <1>2, <3>2, <3>3
  <2>2. CASE ~(Cardinality(pushed) > limit)
    <3>1. kept = pushed
      BY <2>2
    <3>2. Cardinality(pushed) \in Nat
      BY <1>2
    <3> HIDE DEF pushed
    <3> QED
      BY <2>2, <3>1, <3>2
  <2> QED
    BY <2>1, <2>2
<1>6. Numbered(kept)
  <2> HIDE DEF pushed
  <2>1. IsFiniteSet(kept)
    BY <1>2, <1>4, FS_Subset
  <2> QED
    BY <1>3, <1>4, <2>1 DEF Numbered
<1>7. kept \in SUBSET Entry /\ \A x \in kept : x.seq <= e.seq
  BY <1>1, <1>4 DEF Window
<1> QED
  BY <1>5, <1>6, <1>7 DEF Window

LEMMA WindowedKept ==
  ASSUME NEW S, NEW limit \in Nat \ {0}, NEW last \in Nat, Window(S, limit, last),
         NEW e \in Entry, e.seq > last
  PROVE  Window(Windowed(S \cup {e}, limit), limit, e.seq)
<1>1. S \cup {e} \in SUBSET (S \cup {e}) /\ S \cup {e} # {}
  OBVIOUS
<1>2. Windowed(S \cup {e}, limit) = IF Cardinality(S \cup {e}) > limit
                                    THEN (S \cup {e}) \ Oldest(S \cup {e}) ELSE S \cup {e}
  BY DEF Windowed
<1> QED
  BY <1>1, <1>2, WindowKept

(* The logs are windows, and no counter is ahead of the bus.                  *)
LogsInv ==
  /\ busSeq \in 0..MaxEvents /\ seq \in 0..busSeq /\ errors \in 0..busSeq
  /\ runLast \in 0..seq /\ lastSeq \in 0..busSeq
  /\ Window(perJob, HistoryLimit, seq) /\ Window(history, HistoryLimit, busSeq)
  /\ Window(runHistory, RunLimit, runLast) /\ Window(bucket, BucketLimit, lastSeq)

ClientsInv ==
  /\ got \in [Readers -> SUBSET Entry]
  /\ published \in [Readers -> 0..busSeq]
  /\ stream \in {"idle", "waiting", "woken", "over"} /\ aborted \in BOOLEAN
  /\ replay.got \in SUBSET Entry

TypesInv == FeedsInv /\ ReplayInv /\ LogsInv /\ ClientsInv

LEMMA BusKeepsLogs ==
  ASSUME LogsInv, NEW level \in Levels, busSeq < MaxEvents, PublishOnBus(level)
  PROVE  /\ busSeq' \in 0..MaxEvents /\ busSeq' = busSeq + 1 /\ errors' \in 0..busSeq'
         /\ Window(history', HistoryLimit, busSeq')
<1> DEFINE e == [seq |-> busSeq + 1, level |-> level]
           pushed == history \cup {e}
           info == {x \in pushed : x.level = "info"}
           T == IF info # {} THEN info ELSE pushed
<1>1. /\ busSeq \in Nat /\ MaxEvents \in Nat /\ busSeq + 1 <= MaxEvents
      /\ HistoryLimit \in Nat \ {0} /\ busSeq' = busSeq + 1 /\ errors \in 0..busSeq
      /\ errors' = errors + IF level = "error" THEN 1 ELSE 0
  BY LimitsAssumption DEF LogsInv, PublishOnBus
<1>2. e \in Entry /\ e.seq = busSeq' /\ e.seq > busSeq
  BY <1>1 DEF Entry
<1>3. T \in SUBSET pushed /\ T # {}
  OBVIOUS
<1>4. history' = IF Cardinality(pushed) > HistoryLimit THEN pushed \ Oldest(T) ELSE pushed
  BY DEF PublishOnBus, DropFromHistory
<1>5. Window(history', HistoryLimit, e.seq)
  <2> HIDE DEF e, T
  <2> QED
    BY <1>1, <1>2, <1>3, <1>4, WindowKept DEF LogsInv
<1>6. errors' \in 0..busSeq'
  BY <1>1
<1>7. busSeq' \in 0..MaxEvents
  BY <1>1
<1> QED
  BY <1>1, <1>2, <1>5, <1>6, <1>7

LEMMA RecordKeepsBucket ==
  ASSUME LogsInv, NEW level \in Levels, NEW given \in 1..busSeq', Record(level, given),
         busSeq' = busSeq + 1, busSeq' <= MaxEvents
  PROVE  lastSeq' \in 0..busSeq' /\ Window(bucket', BucketLimit, lastSeq')
<1> DEFINE e == [seq |-> JournalSeq(given), level |-> level]
<1>1. /\ lastSeq \in Nat /\ busSeq \in Nat /\ lastSeq <= busSeq /\ MaxEvents \in Nat
      /\ BucketLimit \in Nat \ {0} /\ given \in Nat /\ given <= busSeq + 1 /\ given >= 1
  BY LimitsAssumption DEF LogsInv
<1>2. JournalSeq(given) \in 1..MaxEvents /\ JournalSeq(given) > lastSeq
      /\ JournalSeq(given) <= busSeq'
  BY <1>1 DEF JournalSeq
<1>3. e \in Entry /\ e.seq = JournalSeq(given) /\ e.seq > lastSeq
  BY <1>2 DEF Entry
<1>4. lastSeq' = e.seq /\ bucket' = Windowed(bucket \cup {e}, BucketLimit)
  BY DEF Record
<1>5. Window(bucket', BucketLimit, e.seq)
  <2> HIDE DEF e
  <2> QED
    BY <1>1, <1>3, <1>4, WindowedKept DEF LogsInv
<1> QED
  BY <1>1, <1>2, <1>3, <1>4, <1>5

LEMMA CountedTypes ==
  ASSUME ClientsInv, NEW level, NEW readers, Counted(level, readers),
         busSeq \in Nat, busSeq' = busSeq + 1
  PROVE  published' \in [Readers -> 0..busSeq']
<1>1. \A r \in Readers :
        published[r] + (IF r \in readers /\ level \in Wanted[r] THEN 1 ELSE 0) \in 0..busSeq'
  BY DEF ClientsInv
<1> QED
  BY <1>1 DEF Counted

LEMMA PushTypes ==
  ASSUME TypesInv, NEW level \in Levels, NEW inJob \in BOOLEAN, NEW inRun \in BOOLEAN,
         PushEvent(level, inJob, inRun)
  PROVE  LogsInv' /\ ClientsInv'
<1> DEFINE e == [seq |-> seq + 1, level |-> level]
<1>1. /\ LogsInv /\ ClientsInv /\ busSeq < MaxEvents /\ PublishOnBus(level)
      /\ Emit(e, inJob) /\ Counted(level, IF inRun THEN Readers ELSE {})
      /\ UNCHANGED <<got, aborted, replay>>
  BY DEF PushEvent, TypesInv, readerVars
<1>2. /\ seq \in Nat /\ busSeq \in Nat /\ seq <= busSeq /\ runLast \in Nat /\ runLast <= seq
      /\ lastSeq \in Nat /\ lastSeq <= busSeq /\ MaxEvents \in Nat
      /\ HistoryLimit \in Nat \ {0} /\ RunLimit \in Nat \ {0}
  BY <1>1, LimitsAssumption DEF LogsInv
<1>3. /\ busSeq' \in 0..MaxEvents /\ busSeq' = busSeq + 1 /\ errors' \in 0..busSeq'
      /\ Window(history', HistoryLimit, busSeq')
  BY <1>1, BusKeepsLogs
<1>4. e \in Entry /\ e.seq = seq + 1 /\ e.seq > seq /\ e.seq > runLast
  BY <1>2, <1>3 DEF Entry
<1>5. seq' = e.seq /\ perJob' = IF inJob THEN Windowed(perJob \cup {e}, HistoryLimit) ELSE perJob
  BY <1>1 DEF Emit
<1>6. Window(perJob', HistoryLimit, seq')
  <2>1. Window(perJob, HistoryLimit, seq)
    BY <1>1 DEF LogsInv
  <2>2. CASE inJob
    <3> HIDE DEF e
    <3> QED
      BY <1>2, <1>4, <1>5, <2>1, <2>2, WindowedKept
  <2>3. CASE ~inJob
    BY <1>2, <1>4, <1>5, <2>1, <2>3 DEF Window, Numbered
  <2> QED
    BY <2>2, <2>3
<1>7. /\ runLast' \in 0..seq' /\ Window(runHistory', RunLimit, runLast')
      /\ lastSeq' \in 0..busSeq' /\ Window(bucket', BucketLimit, lastSeq')
      /\ stream' \in {"idle", "waiting", "woken", "over"}
  <2>1. CASE inRun
    <3>1. RecordRunEvent(e) /\ Record(level, seq + 1)
      BY <2>1 DEF PushEvent
    <3>2. seq + 1 \in 1..busSeq' /\ busSeq' <= MaxEvents
      BY <1>2, <1>3
    <3>3. lastSeq' \in 0..busSeq' /\ Window(bucket', BucketLimit, lastSeq')
      BY <1>1, <1>3, <3>1, <3>2, RecordKeepsBucket
    <3>4. runHistory' = Windowed(runHistory \cup {e}, RunLimit) /\ runLast' = e.seq
      BY <3>1 DEF RecordRunEvent
    <3>5. stream' \in {"idle", "waiting", "woken", "over"}
      BY <1>1, <3>1 DEF RecordRunEvent, ClientsInv
    <3>6. Window(runHistory, RunLimit, runLast)
      BY <1>1 DEF LogsInv
    <3>7. Window(runHistory', RunLimit, e.seq)
      <4> HIDE DEF e
      <4> QED
        BY <1>2, <1>4, <3>4, <3>6, WindowedKept
    <3> QED
      BY <1>2, <1>4, <1>5, <3>3, <3>4, <3>5, <3>7
  <2>2. CASE ~inRun
    <3>1. UNCHANGED <<runHistory, runLast, stream, bucket, lastSeq>>
      BY <2>2 DEF PushEvent
    <3> QED
      BY <1>1, <1>2, <1>3, <1>4, <1>5, <3>1 DEF LogsInv, ClientsInv
  <2> QED
    BY <2>1, <2>2
<1>8. LogsInv'
  BY <1>2, <1>3, <1>4, <1>5, <1>6, <1>7 DEF LogsInv
<1>9. published' \in [Readers -> 0..busSeq']
  BY <1>1, <1>2, <1>3, CountedTypes
<1> QED
  BY <1>1, <1>7, <1>8, <1>9 DEF ClientsInv

LEMMA LogTypes ==
  ASSUME TypesInv, NEW level \in Levels, NEW inRun \in BOOLEAN, LogJsonRpc(level, inRun)
  PROVE  LogsInv' /\ ClientsInv'
<1>1. /\ LogsInv /\ ClientsInv /\ busSeq < MaxEvents /\ PublishOnBus(level)
      /\ Counted(level, IF inRun THEN {"tail"} ELSE {})
      /\ UNCHANGED <<seq, perJob, runHistory, runLast, got, stream, aborted, replay>>
  BY DEF LogJsonRpc, TypesInv, readerVars, streamVars
<1>2. /\ seq \in Nat /\ busSeq \in Nat /\ seq <= busSeq
      /\ lastSeq \in Nat /\ lastSeq <= busSeq /\ MaxEvents \in Nat
  BY <1>1, LimitsAssumption DEF LogsInv
<1>3. /\ busSeq' \in 0..MaxEvents /\ busSeq' = busSeq + 1 /\ errors' \in 0..busSeq'
      /\ Window(history', HistoryLimit, busSeq')
  BY <1>1, BusKeepsLogs
<1>4. lastSeq' \in 0..busSeq' /\ Window(bucket', BucketLimit, lastSeq')
  <2>1. CASE inRun
    <3>1. PICK latest \in history' : Record(level, latest.seq)
      BY <2>1 DEF LogJsonRpc
    <3>2. latest.seq \in 1..busSeq' /\ busSeq' <= MaxEvents
      BY <1>2, <1>3, <3>1 DEF Window, Entry
    <3> QED
      BY <1>1, <1>3, <3>1, <3>2, RecordKeepsBucket
  <2>2. CASE ~inRun
    <3>1. UNCHANGED <<bucket, lastSeq>>
      BY <2>2 DEF LogJsonRpc
    <3> QED
      BY <1>1, <1>2, <1>3, <3>1 DEF LogsInv
  <2> QED
    BY <2>1, <2>2
<1>5. LogsInv'
  BY <1>1, <1>2, <1>3, <1>4 DEF LogsInv
<1>6. published' \in [Readers -> 0..busSeq']
  BY <1>1, <1>2, <1>3, CountedTypes
<1> QED
  BY <1>1, <1>5, <1>6 DEF ClientsInv

LEMMA ReadTypes ==
  ASSUME TypesInv, Watch \/ Tail \/ StreamNext \/ StreamResumes
  PROVE  LogsInv' /\ ClientsInv'
<1>1. PICK r \in Readers : \E page, otherwise, next : Reads(r, page, otherwise, next)
  BY ReadersRead DEF TypesInv, FeedsInv
<1>2. PICK page, otherwise, next : Reads(r, page, otherwise, next)
  BY <1>1
<1>3. page \subseteq Unread(r)
  BY <1>1, <1>2, ReadFacts DEF TypesInv, FeedsInv
<1>4. page \subseteq Entry
  BY <1>3 DEF Unread, Source, TypesInv, LogsInv, Window
<1>5. got' = [got EXCEPT ![r] = @ \cup page] /\ UNCHANGED <<logVars, published, replay>>
  BY <1>2 DEF Reads, Received
<1>6. got' \in [Readers -> SUBSET Entry]
  BY <1>4, <1>5 DEF TypesInv, ClientsInv
<1>7. stream' \in {"idle", "waiting", "woken", "over"} /\ UNCHANGED aborted
  BY DEF Watch, Tail, StreamNext, StreamResumes, StreamTurn, streamVars, TypesInv, ClientsInv
<1>8. LogsInv'
  BY <1>5 DEF logVars, TypesInv, LogsInv, Window, Numbered
<1> QED
  BY <1>5, <1>6, <1>7, <1>8 DEF TypesInv, ClientsInv, logVars

LEMMA ReplayTypes ==
  ASSUME TypesInv, ReplayPage
  PROVE  LogsInv' /\ ClientsInv'
<1> DEFINE after == {e \in perJob : e.seq > replay.cursor}
<1>1. Numbered(after)
  BY FS_Subset DEF TypesInv, ReplayInv, Numbered
<1>2. UNCHANGED <<logVars, got, published, stream, aborted>>
  BY DEF ReplayPage, readerVars, streamVars
<1>3. PICK page \in Pages(ReplayFetch(after), ReplayLimit) : \E next \in NextSeq(page, 0) :
        replay' = [cursor |-> IF Cardinality(ReplayFetch(after)) > ReplayLimit THEN next ELSE 0,
                   got |-> page \cup IF replay.cursor = 0 THEN {} ELSE replay.got]
  BY DEF ReplayPage
<1>4. page \subseteq after
  <2> HIDE DEF after
  <2> QED
    BY <1>1, <1>3, ReplayStep
<1>5. replay'.got \in SUBSET Entry
  BY <1>3, <1>4 DEF TypesInv, ClientsInv, LogsInv, Window
<1>6. LogsInv'
  BY <1>2 DEF logVars, TypesInv, LogsInv, Window, Numbered
<1> QED
  BY <1>2, <1>5, <1>6 DEF TypesInv, ClientsInv, logVars

LEMMA TypesInvStep == TypesInv /\ [FeedsNext]_vars => TypesInv'
<1> SUFFICES ASSUME TypesInv, [FeedsNext]_vars PROVE LogsInv' /\ ClientsInv'
  BY FeedsInvStep, ReplayInvStep DEF TypesInv
<1>1. CASE Abort \/ Return
  <2>1. UNCHANGED <<logVars, got, published, replay>> /\ aborted' \in BOOLEAN
        /\ stream' \in {"idle", "waiting", "woken", "over"}
    BY <1>1 DEF Abort, Return, readerVars, TypesInv, ClientsInv
  <2>2. LogsInv'
    BY <2>1 DEF logVars, TypesInv, LogsInv, Window, Numbered
  <2> QED
    BY <2>1, <2>2 DEF TypesInv, ClientsInv, logVars
<1>2. CASE UNCHANGED vars
  <2>1. LogsInv'
    BY <1>2 DEF vars, logVars, TypesInv, LogsInv, Window, Numbered
  <2> QED
    BY <1>2, <2>1 DEF vars, readerVars, streamVars, logVars, TypesInv, ClientsInv
<1> QED
  BY <1>1, <1>2, PushTypes, LogTypes, ReadTypes, ReplayTypes DEF FeedsNext

LEMMA TypesInvInit == FeedsInit => TypesInv
<1> SUFFICES ASSUME FeedsInit PROVE LogsInv /\ ClientsInv
  BY FeedsInvInit, ReplayInvInit DEF TypesInv
<1>1. \A limit \in Nat : Window({}, limit, 0)
  BY FS_EmptySet DEF Window, Numbered
<1>2. LogsInv
  BY <1>1, LimitsAssumption DEF FeedsInit, LogsInv
<1>3. published = [r \in Readers |-> 0] /\ busSeq = 0 /\ got = [r \in Readers |-> {}]
  BY DEF FeedsInit
<1>4. published \in [Readers -> 0..busSeq] /\ got \in [Readers -> SUBSET Entry]
  BY <1>3
<1>5. ClientsInv
  BY <1>4 DEF FeedsInit, ClientsInv
<1> QED
  BY <1>2, <1>5

(* The windows never hold more than their limits, the log's numbers never run *)
(* ahead of the bus, and no reader's cursor runs ahead of its log, for any    *)
(* limits and any number of events.                                           *)
THEOREM FeedsTyping == FeedsSafety => []FeedsTypeOK
<1>1. TypesInv => FeedsTypeOK
  <2> SUFFICES ASSUME TypesInv PROVE FeedsTypeOK
    OBVIOUS
  <2>1. /\ LogsInv /\ ClientsInv /\ cursor \in [Readers -> Nat]
        /\ \A r \in Readers : cursor[r] <= IF r = "tail" THEN lastSeq ELSE runLast
        /\ caughtUp \in [Readers -> BOOLEAN] /\ replay.cursor \in 0..seq
    BY DEF TypesInv, FeedsInv, NumbersInv, Last, ReplayInv
  <2>2. /\ MaxEvents \in Nat /\ busSeq \in Nat /\ busSeq <= MaxEvents
        /\ runLast \in Nat /\ runLast <= seq /\ seq \in Nat /\ seq <= busSeq
        /\ lastSeq \in Nat /\ lastSeq <= busSeq
    BY <2>1, LimitsAssumption DEF LogsInv
  <2>3. cursor \in [Readers -> 0..MaxEvents]
    BY <2>1, <2>2
  <2>4. published \in [Readers -> 0..MaxEvents]
    BY <2>1, <2>2 DEF ClientsInv
  <2> QED
    BY <2>1, <2>3, <2>4 DEF FeedsTypeOK, LogsInv, ClientsInv, Window
<1> QED
  BY <1>1, TypesInvInit, TypesInvStep, PTL DEF FeedsSafety
=============================================================================
