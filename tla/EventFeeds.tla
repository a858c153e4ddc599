----------------------------- MODULE EventFeeds -----------------------------
(***************************************************************************)
(* Where an orchestrator event goes and how clients read it back: the      *)
(* EventStore's window of one job (served by the dashboard's /replay), the *)
(* EventBus's history, the resource registry's history of one run          *)
(* (resources_watch and watchStream) and the log journal's bucket of that  *)
(* run (logs_tail).  Everything is in memory, and a tool call or a         *)
(* publication runs without interruption; only watchStream waits.          *)
(***************************************************************************)
EXTENDS Integers, FiniteSets

CONSTANTS
  HistoryLimit,  \* maxEventHistory: EventStore.maxHistory, EventBus.historyLimit
  RunLimit,      \* runHistoryLimit
  BucketLimit,   \* maxEntriesPerBucket
  PageLimit,     \* the limit the readers of the run and its logs ask for
  ReplayLimit,   \* the limit of a replay page
  Wanted,        \* the levels each reader filters on
  MaxEvents,     \* bound: events published
  MaxClients     \* bound: clients that ask for something

Readers == {"watch", "stream", "tail"}
Levels == {"info", "error"}   \* only "info" is told apart: "warn" is an "error"

ASSUME LimitsAssumption ==
  /\ {HistoryLimit, RunLimit, BucketLimit, PageLimit, ReplayLimit} \subseteq Nat \ {0}
  /\ Wanted \in [Readers -> SUBSET Levels]
  /\ {MaxEvents, MaxClients} \subseteq Nat

VARIABLES
  seq,        \* EventStore.seq
  perJob,     \* its window of the job
  busSeq,     \* EventBus.seq
  history,    \* EventBus.history
  errors,     \* errors ever published on the bus
  runHistory, \* RunHistory.events
  runLast,    \* RunHistory.lastSeq
  bucket,     \* LogBucketState.entries
  lastSeq,    \* LogBucketState.lastSeq
  cursor,     \* the next_seq each reader was last given
  got,        \* the entries it was given
  caughtUp,   \* its last page was empty
  published,  \* entries recorded for it so far
  stream,     \* the iterator of watchStream
  aborted,    \* its signal
  replay      \* a client's pass over /replay: its cursor and what it was given

logVars == <<seq, perJob, busSeq, history, errors, runHistory, runLast, bucket, lastSeq>>
readerVars == <<cursor, got, caughtUp>>
streamVars == <<stream, aborted>>
vars == <<logVars, readerVars, published, streamVars, replay>>

Entry == [seq : 1..MaxEvents, level : Levels]

FeedsTypeOK ==
  /\ seq \in 0..busSeq /\ busSeq \in 0..MaxEvents
  /\ runLast \in 0..seq /\ lastSeq \in 0..busSeq
  /\ perJob \in SUBSET Entry /\ Cardinality(perJob) <= HistoryLimit
  /\ history \in SUBSET Entry /\ Cardinality(history) <= HistoryLimit
  /\ runHistory \in SUBSET Entry /\ Cardinality(runHistory) <= RunLimit
  /\ bucket \in SUBSET Entry /\ Cardinality(bucket) <= BucketLimit
  /\ errors \in 0..busSeq
  /\ cursor \in [Readers -> 0..MaxEvents]
  /\ \A r \in Readers : cursor[r] <= IF r = "tail" THEN lastSeq ELSE runLast
  /\ got \in [Readers -> SUBSET Entry]
  /\ caughtUp \in [Readers -> BOOLEAN]
  /\ published \in [Readers -> 0..MaxEvents]
  /\ stream \in {"idle", "waiting", "woken", "over"} /\ aborted \in BOOLEAN
  /\ replay.cursor \in 0..seq /\ replay.got \in SUBSET Entry

FeedsInit ==
  /\ seq = 0 /\ perJob = {}
  /\ busSeq = 0 /\ history = {} /\ errors = 0
  /\ runHistory = {} /\ runLast = 0
  /\ bucket = {} /\ lastSeq = 0
  /\ cursor = [r \in Readers |-> 0]
  /\ got = [r \in Readers |-> {}]
  /\ caughtUp = [r \in Readers |-> FALSE]
  /\ published = [r \in Readers |-> 0]
  /\ stream = "idle" /\ aborted = FALSE
  /\ replay = [cursor |-> 0, got |-> {}]

-----------------------------------------------------------------------------
Oldest(S) == {e \in S : \A f \in S : e.seq <= f.seq}

(* A window that holds one entry too many loses its oldest.  Mutant: one too  *)
(* late.                                                                      *)
WindowedLate(S, limit) == IF Cardinality(S) > limit + 1 THEN S \ Oldest(S) ELSE S
Windowed(S, limit) == IF Cardinality(S) > limit THEN S \ Oldest(S) ELSE S

(* EventBus.dropFromHistory.  Mutant: first in, first out.                    *)
DropOldest(S) == S \ Oldest(S)
DropFromHistory(S) ==
  LET info == {e \in S : e.level = "info"}
  IN  S \ Oldest(IF info # {} THEN info ELSE S)

(* EventBus.publish.                                                          *)
PublishOnBus(level) ==
  LET pushed == history \cup {[seq |-> busSeq + 1, level |-> level]}
  IN  /\ busSeq' = busSeq + 1
      /\ history' = IF Cardinality(pushed) > HistoryLimit
                    THEN DropFromHistory(pushed) ELSE pushed
      /\ errors' = errors + IF level = "error" THEN 1 ELSE 0

(* LogJournal.record renumbers what does not come after the bucket's last     *)
(* entry.  Mutant: the number it is given is kept.                            *)
SeqAsGiven(given) == given
JournalSeq(given) == IF given > lastSeq THEN given ELSE lastSeq + 1

Record(level, given) ==
  LET entry == [seq |-> JournalSeq(given), level |-> level]
  IN  /\ bucket' = Windowed(bucket \cup {entry}, BucketLimit)
      /\ lastSeq' = entry.seq

(* recordRunEvent, and the emitter that wakes a waiting iterator.  Mutant:    *)
(* nobody is told of an entry that pushed another one out.                    *)
RecordRunEventQuietly(event) ==
  /\ runHistory' = Windowed(runHistory \cup {event}, RunLimit)
  /\ runLast' = event.seq
  /\ stream' = IF stream = "waiting" /\ Cardinality(runHistory) < RunLimit
               THEN "woken" ELSE stream
RecordRunEvent(event) ==
  /\ runHistory' = Windowed(runHistory \cup {event}, RunLimit)
  /\ runLast' = event.seq
  /\ stream' = IF stream = "waiting" THEN "woken" ELSE stream

Counted(level, readers) ==
  published' = [r \in Readers |->
                  published[r] + IF r \in readers /\ level \in Wanted[r] THEN 1 ELSE 0]

(* EventStore.emit.  Its global and per-kind windows, which only the          *)
(* dashboard's snapshot reads, slide in the same way and are left out.        *)
Emit(event, inJob) ==
  /\ seq' = event.seq
  /\ perJob' = IF inJob THEN Windowed(perJob \cup {event}, HistoryLimit) ELSE perJob

(* pushEvent: the store, the bus, then the run's history and its log.         *)
PushEvent(level, inJob, inRun) ==
  LET event == [seq |-> seq + 1, level |-> level]
  IN  /\ busSeq < MaxEvents
      /\ Emit(event, inJob)
      /\ PublishOnBus(level)
      /\ IF inRun THEN RecordRunEvent(event) /\ Record(level, event.seq)
                  ELSE UNCHANGED <<runHistory, runLast, stream, bucket, lastSeq>>
      /\ Counted(level, IF inRun THEN Readers ELSE {})
      /\ UNCHANGED <<readerVars, aborted, replay>>

(* A JSON-RPC call is published on the bus alone, and logged in its run under *)
(* the number of the newest envelope the bus still holds.                     *)
LogJsonRpc(level, inRun) ==
  /\ busSeq < MaxEvents
  /\ PublishOnBus(level)
  /\ IF inRun
     THEN \E latest \in history' : /\ \A e \in history' : e.seq <= latest.seq
                                   /\ Record(level, latest.seq)
     ELSE UNCHANGED <<bucket, lastSeq>>
  /\ Counted(level, IF inRun THEN {"tail"} ELSE {})
  /\ UNCHANGED <<seq, perJob, runHistory, runLast, readerVars, streamVars, replay>>

-----------------------------------------------------------------------------
(* The first entries of S, at most limit of them.                             *)
Pages(S, limit) ==
  {P \in SUBSET S : /\ \A x \in P, y \in S \ P : x.seq < y.seq
                    /\ Cardinality(P) <= limit
                    /\ P = S \/ Cardinality(P) = limit}

(* The cursor after a page: that of its last entry.                           *)
NextSeq(page, otherwise) ==
  IF page = {} THEN {otherwise}
  ELSE {n \in {e.seq : e \in page} : \A e \in page : e.seq <= n}

Source(r) == IF r = "tail" THEN bucket ELSE runHistory

(* What sliceRunHistory and LogJournal.tail select.                           *)
Unread(r) == {e \in Source(r) : e.seq > cursor[r] /\ e.level \in Wanted[r]}

(* Clients only read, so each goes its way whatever the others ask.           *)
Clients ==
  {r \in Readers : caughtUp[r] \/ got[r] # {}}
    \cup {c \in {"stream"} : aborted \/ stream = "over"}
    \cup {c \in {"replay"} : replay.got # {}}
MayAsk(client) == client \in Clients \/ Cardinality(Clients) < MaxClients

Received(r, page, next) ==
  /\ got' = [got EXCEPT ![r] = @ \cup page]
  /\ cursor' = [cursor EXCEPT ![r] = next]
  /\ caughtUp' = [caughtUp EXCEPT ![r] = page = {}]
  /\ UNCHANGED <<logVars, published, replay>>

(* resources_watch on the run: an unknown run is an error, and a page without *)
(* an entry moves the cursor past what the filter left out.                   *)
Watch ==
  /\ MayAsk("watch") /\ runLast > 0
  /\ \E page \in Pages(Unread("watch"), PageLimit) :
       \E next \in NextSeq(page, runLast) : Received("watch", page, next)
  /\ UNCHANGED streamVars

(* logs_tail on the run; an unknown bucket answers 0.                         *)
Tail ==
  /\ MayAsk("tail")
  /\ \E page \in Pages(Unread("tail"), PageLimit) :
       \E next \in NextSeq(page, lastSeq) : Received("tail", page, next)
  /\ UNCHANGED streamVars

(* The loop of watchStream's next: a page, or a wait for the emitter; the     *)
(* cursor does not move without an entry.                                     *)
StreamTurn ==
  /\ \E page \in Pages(Unread("stream"), PageLimit) :
       /\ \E next \in NextSeq(page, cursor["stream"]) : Received("stream", page, next)
       /\ stream' = IF page # {} THEN "idle" ELSE IF aborted THEN "over" ELSE "waiting"
  /\ UNCHANGED aborted
StreamNext == MayAsk("stream") /\ stream = "idle" /\ runLast > 0 /\ StreamTurn
StreamResumes == stream = "woken" /\ StreamTurn

(* The signal ends a wait; return ends the iterator.                          *)
Abort ==
  /\ MayAsk("stream") /\ runLast > 0 /\ ~aborted /\ aborted' = TRUE
  /\ stream' = IF stream = "waiting" THEN "over" ELSE stream
  /\ UNCHANGED <<logVars, readerVars, published, replay>>
Return ==
  /\ MayAsk("stream") /\ runLast > 0 /\ stream # "over" /\ stream' = "over"
  /\ UNCHANGED <<logVars, readerVars, published, aborted, replay>>

(* buildReplayPage asks for one event more than the limit to know whether     *)
(* there is another page; a null cursor begins a pass, and a page without     *)
(* nextCursor ends it.  Mutant: it asks for the limit.                        *)
ReplayFetchExact(after) == UNION Pages(after, ReplayLimit)
ReplayFetch(after) == UNION Pages(after, ReplayLimit + 1)

ReplayPage ==
  LET fetched == ReplayFetch({e \in perJob : e.seq > replay.cursor})
      more == Cardinality(fetched) > ReplayLimit
  IN  /\ MayAsk("replay")
      /\ \E page \in Pages(fetched, ReplayLimit) :
           \E next \in NextSeq(page, 0) :
              replay' = [cursor |-> IF more THEN next ELSE 0,
                         got |-> page \cup IF replay.cursor = 0 THEN {} ELSE replay.got]
      /\ UNCHANGED <<logVars, readerVars, published, streamVars>>

FeedsNext ==
  \/ \E level \in Levels :
       \/ \E inJob, inRun \in BOOLEAN : PushEvent(level, inJob, inRun)
       \/ \E inRun \in BOOLEAN : LogJsonRpc(level, inRun)
  \/ Watch \/ Tail \/ StreamNext \/ StreamResumes \/ Abort \/ Return \/ ReplayPage

FeedsSafety == FeedsInit /\ [][FeedsNext]_vars

(* A resolved promise is awaited by the iterator alone and always continues.  *)
FeedsSpec == FeedsSafety /\ WF_vars(StreamResumes)

-----------------------------------------------------------------------------
(* The two histories and their three readers keep the promise of CursorFeed:  *)
(* whatever is recorded, evicted, filtered out or asked between two pages, a  *)
(* reader that loops on next_seq sees each retained entry once and in order,  *)
(* and an empty page means that it has caught up (docs/mcp-api.md: "bouclez   *)
(* tant que events.length > 0").                                              *)
Feed == INSTANCE CursorFeed WITH unread <- [r \in Readers |-> Unread(r)]
LosslessPaging == Feed!FeedSpec

(* While the bus holds an info event it has lost no error; once an error was  *)
(* lost, the history is errors only, and no later info event is ever kept.    *)
ErrorsOutliveInfo ==
  Cardinality({e \in history : e.level = "error"}) < errors
    => \A e \in history : e.level = "error"

(* A client that follows nextCursor until there is none has been given every  *)
(* event that the job's window then holds, whatever was published or evicted  *)
(* between two pages.                                                         *)
ReplayEndsComplete == replay' # replay /\ replay'.cursor = 0 => perJob \subseteq replay'.got
ReplayIsComplete == [][ReplayEndsComplete]_vars

(* An iterator parked by watchStream never sleeps on an entry it could give.  *)
StreamIsWoken ==
  (stream \in {"waiting", "woken"} /\ Unread("stream") # {})
    ~> (stream \in {"idle", "over"} \/ Unread("stream") = {})
=============================================================================
