-------------------------- MODULE HttpIdempotency --------------------------
(***************************************************************************)
(* The idempotent part of the HTTP handler (tryHandleJsonRpc, sendJson)    *)
(* over FileIdempotencyStore.  A handler checks the fingerprint and looks  *)
(* the key up, with nothing but resolved promises in between, awaits the   *)
(* execution of the call, and writes the answer to the socket before it    *)
(* stores it.  Storing is the last thing it does: it is free again there.  *)
(***************************************************************************)
EXTENDS IdempotencyStore

CONSTANT Requests   \* handlers running at once

VARIABLE request   \* handler -> the cache key it executes, None when free

httpVars == <<storeVars, request>>

HttpTypeOK == StoreTypeOK /\ request \in [Requests -> Keys \cup {None}]

-----------------------------------------------------------------------------
HttpInit == StoreInit /\ request = [r \in Requests |-> None]

(* A call whose key another payload holds is answered with a 409 and changes  *)
(* nothing; a hit is replayed; a miss goes to the orchestrator.               *)
Receive(r, k) ==
  /\ phase = "ready" /\ request[r] = None
  /\ Consistent(methodKeyIndex, k)
  /\ Get(k)
  /\ request' = [request EXCEPT ![r] = IF Live(entries[k]) THEN None ELSE k]

(* The call succeeds or fails: either answer is sent, then stored.            *)
Answer(r, reply) ==
  LET k == request[r] IN
  /\ k # None
  /\ Set(k, reply) \/ (~MaySet(k, reply) /\ UNCHANGED storeVars)
  /\ request' = [request EXCEPT ![r] = None]

Restart == Crash /\ request' = [r \in Requests |-> None]

HttpNext ==
  \/ StoreNext /\ UNCHANGED request
  \/ \E r \in Requests : \/ \E k \in Keys : Receive(r, k)
                         \/ \E reply \in Replies : Answer(r, reply)
  \/ Restart

HttpSpec == HttpInit /\ [][HttpNext]_httpVars

(* Loading is synchronous and nothing preempts it.                            *)
LoadFairness == WF_storeVars(ReadLine) /\ WF_storeVars(ParseLine)
HttpLiveSpec == HttpSpec /\ LoadFairness

-----------------------------------------------------------------------------
(* A retry is not executed again: a handler that starts executing has no      *)
(* unexpired answer to count on, neither one of this process nor one that was *)
(* reported written before a crash, compacted or not.                         *)
RetryIsReplayed ==
  [][\A r \in Requests :
       request[r] = None /\ request'[r] # None =>
         damaged \/ ~Live(promised[request'[r]])]_httpVars

(* A replay repeats what was answered: what is held for a key is an answer    *)
(* as fresh as the last one its callers may count on, and the same, through   *)
(* refreshes, compactions and restarts.                                       *)
MemoryKeepsPromises ==
  phase = "ready" /\ ~damaged =>
    \A k \in Keys : Live(promised[k]) =>
      /\ entries[k] # None
      /\ entries[k].exp >= promised[k].exp
      /\ entries[k].reply = promised[k].reply

(* "Ignore malformed lines so a single bad entry does not poison the cache"   *)
(* (idempotencyStore.file.ts:289): a restart always comes to serve again.     *)
LoadEnds == phase # "ready" ~> phase = "ready"
=============================================================================
