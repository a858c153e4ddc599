--------------------------- MODULE VersionedStore ---------------------------
(***************************************************************************)
(* What the optimistic transactions over graphs promise, with the expiry,   *)
(* the working copies and the snapshots taken away: a transaction sees one  *)
(* version of one graph, and publishes the next version only if the one it  *)
(* sees is still the latest.                                                *)
(***************************************************************************)
EXTENDS Integers

CONSTANTS Graphs, Txs, Versions, NoView   \* Versions: those a client may bring

VARIABLES
  head,     \* graph -> latest version, 0 while the graph is unknown
  view,     \* transaction -> the graph and version it sees, while open
  opened,   \* transactions ever opened
  log       \* who published which version of which graph

storeVars == <<head, view, opened, log>>

StoreInit ==
  /\ head = [g \in Graphs |-> 0]
  /\ view = [t \in Txs |-> NoView]
  /\ opened = {}
  /\ log = {}

(* Opening on an unknown graph makes it known at the version the client     *)
(* brings.                                                                  *)
Open(t, g, v) ==
  /\ t \notin opened
  /\ head[g] \in {0, v}
  /\ head' = [head EXCEPT ![g] = v]
  /\ view' = [view EXCEPT ![t] = [graph |-> g, version |-> v]]
  /\ opened' = opened \cup {t}
  /\ UNCHANGED log

PublishNext(t) ==
  LET g == view[t].graph
      v == view[t].version
  IN  /\ view[t] # NoView
      /\ head[g] = v
      /\ head' = [head EXCEPT ![g] = v + 1]
      /\ log' = log \cup {[graph |-> g, version |-> v + 1, tx |-> t]}
      /\ view' = [view EXCEPT ![t] = NoView]
      /\ UNCHANGED opened

(* Rolled back, expired, or committed without a change. *)
Close(t) ==
  /\ view[t] # NoView
  /\ view' = [view EXCEPT ![t] = NoView]
  /\ UNCHANGED <<head, opened, log>>

StoreNext ==
  \E t \in Txs :
    \/ \E g \in Graphs, v \in Versions : Open(t, g, v)
    \/ PublishNext(t)
    \/ Close(t)

StoreSpec == StoreInit /\ [][StoreNext]_storeVars
=============================================================================
