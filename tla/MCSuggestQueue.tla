--------------------------- MODULE MCSuggestQueue ---------------------------
(***************************************************************************)
(* Small instances of SuggestQueue: one or two tasks, one or two worker    *)
(* names.  Two names with MaxLive = 1 are a container that is replaced     *)
(* after a crash, the same name twice one that is restarted.               *)
(***************************************************************************)
EXTENDS SuggestRefinement, TLC

CONSTANTS w1, w2, t1, t2

OneWorker  == {w1}
TwoWorkers == {w1, w2}
OneTask    == {t1}
TwoTasks   == {t1, t2}
NoTasks    == {}
=============================================================================
