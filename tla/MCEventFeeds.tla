---------------------------- MODULE MCEventFeeds ----------------------------
(* The watcher of the run wants its errors, the iterator everything and the   *)
(* reader of its log the infos.                                               *)
EXTENDS EventFeeds

MCWanted == [r \in Readers |->
               CASE r = "watch" -> {"error"} [] r = "stream" -> Levels [] OTHER -> {"info"}]
=============================================================================
