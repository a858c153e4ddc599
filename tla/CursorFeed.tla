----------------------------- MODULE CursorFeed -----------------------------
(***************************************************************************)
(* What a feed of numbered entries promises the readers who page through   *)
(* it with a cursor: each gets every entry meant for it once, oldest       *)
(* first, and loses only what is evicted before it asks, the oldest first; *)
(* an empty page means that nothing is left.  unread are the retained      *)
(* entries a reader has not seen, got those it has, published how many     *)
(* were ever recorded for it, and caughtUp that its last page was empty.   *)
(***************************************************************************)
EXTENDS Integers

CONSTANT Readers

VARIABLES unread, got, published, caughtUp

feedVars == <<unread, got, published, caughtUp>>

FeedInit ==
  /\ unread = [r \in Readers |-> {}]
  /\ got = [r \in Readers |-> {}]
  /\ published = [r \in Readers |-> 0]
  /\ caughtUp = [r \in Readers |-> FALSE]

Precedes(S, T) == \A x \in S, y \in T : x.seq < y.seq

(* One entry is recorded, for the readers whose count moves: it comes after   *)
(* everything they had, and may push out their oldest.                        *)
Publish ==
  /\ UNCHANGED <<got, caughtUp>>
  /\ \A r \in Readers :
       /\ Precedes(unread[r] \ unread'[r], unread'[r])
       /\ \/ published'[r] = published[r] /\ unread'[r] \subseteq unread[r]
          \/ /\ published'[r] = published[r] + 1
             /\ \E e \in unread'[r] :
                  /\ unread'[r] \subseteq unread[r] \cup {e}
                  /\ Precedes(unread[r] \cup got[r], {e})

(* A reader is given the first of what it has not seen.                       *)
Page(r) ==
  /\ UNCHANGED published
  /\ \E page \in {unread[r] \ unread'[r]} :
       /\ unread' = [unread EXCEPT ![r] = @ \ page]
       /\ got' = [got EXCEPT ![r] = @ \cup page]
       /\ caughtUp' = [caughtUp EXCEPT ![r] = page = {}]
       /\ Precedes(page, unread'[r])
       /\ page = {} => unread[r] = {}

FeedNext == Publish \/ \E r \in Readers : Page(r)

FeedSpec == FeedInit /\ [][FeedNext]_feedVars
=============================================================================
