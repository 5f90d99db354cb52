----------------------------- MODULE MCLiveLog ------------------------------
(* A small instance of LiveLog for TLC.  The first filter lets through all   *)
(* lines.  Of the second's, one line is excluded by its level, one comes by  *)
(* history and stream, and one by history only: its logger is app..., which  *)
(* LIKE finds by App and startswith does not.                                *)
EXTENDS LiveLog, TLC

MCLoggerPrefixes == {"App"}
MCKinds ==
    {[level |-> "INFO", starts |-> {}, like |-> {}, found |-> FALSE],
     [level |-> "ERROR", starts |-> {"App"}, like |-> {"App"}, found |-> TRUE],
     [level |-> "ERROR", starts |-> {}, like |-> {"App"}, found |-> TRUE]}
MCQueries == {Everything, [levels |-> {"ERROR"}, logger |-> "App", search |-> TRUE]}

Symmetry == Permutations(Loads)
=============================================================================
