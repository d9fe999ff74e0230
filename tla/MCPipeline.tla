----------------------------- MODULE MCPipeline -----------------------------
(***************************************************************************)
(* Instances of Pipeline: the raw rows of up to three tasks, and their     *)
(* messages.                                                               *)
(***************************************************************************)
EXTENDS Pipeline, TLC

\* Workers are alike.
Symmetry == Permutations(Workers)

Row(line, video, class, errors) ==
  [line |-> line, video |-> video, class |-> class, errors |-> errors, raises |-> "none"]

\* Task "a": a selection that comes three times in a chunk, an unlinked odd tag, a
\* duplicated label in a second chunk, and a label with two rejections.
RowsOfA ==
  [s \in {1, 2, 3} |->
     CASE s = 1 -> <<{Row(i, "v1", "-", 0) : i \in 1 .. 3}, {Row(4, "v2", "-", 0)}>>
       [] s = 2 -> <<{Row(1, "v1", "-", 0), Row(2, "v9", "-", 0)}>>
       [] s = 3 -> <<{Row(1, "v1", "car", 0), Row(2, "v2", "car", 2)}, {Row(3, "v1", "car", 0)}>>]

\* Task "b": another video, and a selection whose rejection does not fit its column.
RowsOfB ==
  [s \in {1, 2, 3} |->
     CASE s = 1 -> <<{Row(1, "v5", "-", 0)}, {[Row(2, "v6", "-", 1) EXCEPT !.raises = "infra"]}>>
       [] s = 2 -> <<>>
       [] s = 3 -> <<>>]

\* Task "c": its one odd tag is one no OddTag accepts.
RowsOfC ==
  [s \in {1, 2, 3} |->
     CASE s = 1 -> <<>>
       [] s = 2 -> <<{[Row(1, "v7", "-", 0) EXCEPT !.raises = "domain"]}>>
       [] s = 3 -> <<>>]

\* Three tasks, which succeed, use up their retries, and fail for good; the message of
\* the first one was dispatched twice.
ThreeTasks == {"a", "b", "c"}
ThreeJobs == {"ja", "ja2", "jb", "jc"}
ThreeTaskOf ==
  [j \in ThreeJobs |-> CASE j \in {"ja", "ja2"} -> "a" [] j = "jb" -> "b" [] j = "jc" -> "c"]
ThreeRaw == [t \in ThreeTasks |->
               CASE t = "a" -> RowsOfA [] t = "b" -> RowsOfB [] t = "c" -> RowsOfC]

\* Two tasks.
MCTasks == {"a", "b"}
MCJobs == {"ja", "jb"}
MCTaskOf == [j \in MCJobs |-> IF j = "ja" THEN "a" ELSE "b"]

\* The same files analysed twice.
SameRaw == [t \in MCTasks |-> RowsOfA]

\* Task "b" selects the videos of task "a", too, in the opposite order, and all rows can
\* be refined.
SharedRaw ==
  [t \in MCTasks |->
     IF t = "a"
     THEN [RowsOfA EXCEPT ![1] = <<{Row(1, "v1", "-", 0), Row(2, "v1", "-", 0), Row(3, "v2", "-", 0)}>>,
                          ![3] = <<>>]
     ELSE [RowsOfB EXCEPT ![1] = <<{Row(1, "v2", "-", 0)}, {Row(2, "v1", "-", 0), Row(3, "v5", "-", 0)}>>,
                          ![3] = <<{Row(1, "v5", "car", 0), Row(2, "v2", "bus", 0)}>>]]

\* One task only.
OneTask == {"a"}
LoneJob == {"ja"}
OneTaskOf == [j \in LoneJob |-> "a"]
OneRaw == [t \in OneTask |-> RowsOfA]
=============================================================================
