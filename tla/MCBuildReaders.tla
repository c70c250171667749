--------------------------- MODULE MCBuildReaders ---------------------------
(***************************************************************************)
(* BuildReaders on one document of each kind, whose source holds one text  *)
(* of one page and one of two.                                             *)
(***************************************************************************)
EXTENDS BuildReaders

Pages(text) == text

\* The first two builds fall into one second.
Seconds(n) == IF n <= 2 THEN 1 ELSE n

ASSUME SecondsAssumption == SecondsGoOn

\* Two reads of a figure meet in its map cache and in the browser; two failed
\* writes may follow each other in the runs of one kind of read.
Limit(ops, reads, builds, mishaps) == [ops |-> ops, reads |-> reads, builds |-> builds, mishaps |-> mishaps]

MCLimits == [latex |-> Limit({"meta", "pick", "position", "companion"}, 1, 3, 1),
             figure |-> Limit({"meta", "pick", "url", "overlay", "companion"}, 2, 3, 0),
             pdf |-> Limit({"meta", "pick", "url"}, 1, 2, 1)]
=============================================================================
