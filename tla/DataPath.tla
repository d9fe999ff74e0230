------------------------------ MODULE DataPath ------------------------------
(***************************************************************************)
(* The path of the data: raw rows are refined, stored in MySQL and found   *)
(* by a client that walks through the pages of an answer, while other      *)
(* analyses are made.  An analysis shows its progress phase by phase and   *)
(* its rows in one commit after it is COMPLETED.  Crashes, retries and     *)
(* jobs that overlap are Pipeline's; here analyses follow one another, as  *)
(* POST /analyze accepts none while another is active.                     *)
(*                                                                         *)
(* A raw row carries its cells and, for the properties only, its defects:  *)
(* the fields that are wrong in it, each with the reason a rejection has   *)
(* to give, or "stops" when the row cannot be rejected at all; and source, *)
(* the source_id of its rejections.                                        *)
(***************************************************************************)
EXTENDS Search

CONSTANTS
  Instances,   \* raw: what the files hold (task -> [selections, odds, labels], sequences of
               \* rows), and requests: those of GET /data and GET /rejections a client may make
  BadRequests, \* requests that break a documented rule
  MaxInt,      \* the largest value of an INTEGER column
  MaxPath,     \* the length of the source_path column
  LongSources, \* texts longer than the source_id column of rejections
  MaxRows      \* bound on the rows of a file

\* The files of an analysis.
RawRows(fields) ==
  [cells : [fields -> Cells], defects : SUBSET [field : STRING, reason : STRING],
   source : STRING]
File(fields) == {file \in Seq(RawRows(fields)) : Len(file) <= MaxRows}
Files == [selections : File(SelectionFields), odds : File(OddTagFields), labels : File(LabelFields)]

ASSUME DataAssumption ==
  /\ {MaxInt, MaxPath, MaxRows} \subseteq Nat \ {0}
  /\ IsFiniteSet(Tasks) /\ None \notin Tasks \union Stages \union {"DataError"}
  /\ \A instance \in Instances :
       instance.raw \in [Tasks -> Files] /\ instance.requests \subseteq Requests

VARIABLES
  raw,       \* MongoDB raw_data
  tasks,     \* task -> its document: status, error, progress, result
  analysis,  \* the task under way, if any, and which of its phases are over
  db,        \* the tables of MySQL
  blocks,    \* task -> which block of auto increment ids its rejections have, 0 for none
  walk       \* the client and what it has seen

vars == <<raw, tasks, analysis, db, blocks, walk>>

-----------------------------------------------------------------------------
(***************************************************************************)
(* INSERT IGNORE.                                                          *)
(***************************************************************************)
\* Values too large for their column are cut down to what fits, without an error.
Clamp(n) == Min({n, MaxInt})
CutPath(path) ==
  IF path.length <= MaxPath THEN path ELSE [path EXCEPT !.length = MaxPath, !.suffix = "?"]

SelectionRow(t, rec) ==
  [id |-> Clamp(rec.id), task |-> t, recordedAt |-> rec.recordedAt,
   temperature |-> rec.temperature, wiper |-> rec.wiper,
   headlightsOn |-> rec.headlightsOn, sourcePath |-> CutPath(rec.sourcePath)]
OddTagRow(t, rec) ==
  [task |-> t, video |-> Clamp(rec.video), weather |-> rec.weather,
   time_of_day |-> rec.time_of_day, road_surface |-> rec.road_surface]
LabelRow(t, rec) ==
  [task |-> t, video |-> Clamp(rec.video), object_class |-> rec.object_class,
   count |-> Clamp(rec.count), confidence |-> rec.confidence, labeled_at |-> rec.labeled_at]

SelectionKey(s) == s.id
OddTagKey(o) == <<o.task, o.video>>
LabelKey(l) == <<l.task, l.video, l.object_class>>

\* The new rows whose key the table or an earlier new row has; keys are their keys.
Ignored(known, keys) ==
  {i \in DOMAIN keys : keys[i] \in known \union {keys[j] : j \in {k \in DOMAIN keys : k < i}}}

-----------------------------------------------------------------------------
(***************************************************************************)
(* The phases: PhaseRunner.run() over a file that fits into one chunk, and *)
(* what the three runners make of its hooks.                               *)
(***************************************************************************)
\* The id is preliminary: rejections are numbered in the order of their rows, and by nth.
Rejection(t, stage, row, x) ==
  [id |-> 8 * row + x.nth, task |-> t, stage |-> stage, source |-> x.source, field |-> x.field,
   reason |-> x.reason]

\* An accepted odd tag or label whose video is not among the task's selections; with no
\* selections at all nothing is checked.
LinkSource(stage, rec) ==
  CASE stage = "odd_tagging" -> ToString(rec.video)
    [] stage = "auto_labeling" -> ToString(rec.video) \o ":" \o rec.object_class
Link(stage, refined, ids) ==
  IF refined.record # None /\ ids # {} /\ refined.record.video \notin ids
  THEN [record |-> None, raised |-> None,
        rejections |-> {[nth |-> 1, source |-> LinkSource(stage, refined.record),
                         field |-> "video_id", reason |-> "unlinked_record"]}]
  ELSE refined

RefineSingle(stage, cells, ids) ==
  CASE stage = "selection" -> RefineSelection(cells)
    [] stage = "odd_tagging" -> Link(stage, RefineOddTag(cells), ids)
    [] stage = "auto_labeling" -> Link(stage, RefineLabel(cells), ids)
Row(stage, t, rec) ==
  CASE stage = "selection" -> SelectionRow(t, rec)
    [] stage = "odd_tagging" -> OddTagRow(t, rec)
    [] stage = "auto_labeling" -> LabelRow(t, rec)
Key(stage, row) ==
  CASE stage = "selection" -> SelectionKey(row)
    [] stage = "odd_tagging" -> OddTagKey(row)
    [] stage = "auto_labeling" -> LabelKey(row)

OwnRejections(t, stage, refined) ==
  UNION {{Rejection(t, stage, i, x) : x \in refined[i].rejections} : i \in DOMAIN refined}

\* Mutation: ignored duplicates are not reported.
RejectionsUncounted(t, stage, refined, ignored) == OwnRejections(t, stage, refined)

\* The rejections of a phase; however many duplicates a chunk has, one of them.
Rejections(t, stage, refined, ignored) ==
  OwnRejections(t, stage, refined) \union
    IF ignored = {} THEN {}
    ELSE {Rejection(t, stage, Len(refined) + 1,
            [nth |-> 1, source |-> "batch", field |-> "unique_constraint",
             reason |-> IF stage = "odd_tagging" THEN "duplicate_tagging"
                        ELSE "duplicate_label"])}

\* Mutation: every ignored duplicate counts.
ProgressByRow(total, loaded, rejections, ignored) ==
  [total |-> total, processed |-> loaded, rejected |-> rejections + Max({ignored, 1}) - 1]

\* rejected counts rejections, not rows.
PhaseProgress(total, loaded, rejections, ignored) ==
  [total |-> total, processed |-> loaded, rejected |-> rejections]

\* Rejections are inserted without IGNORE: a text that does not fit raises.
Chunk(t, stage, refined, table) ==
  LET accepted == {i \in DOMAIN refined : refined[i].record # None}
      raising == {i \in DOMAIN refined : refined[i].raised # None}
      row == [i \in accepted |-> Row(stage, t, refined[i].record)]
      ignored == Ignored({Key(stage, x) : x \in table}, [i \in accepted |-> Key(stage, row[i])])
      rejections == Rejections(t, stage, refined, ignored)
  IN [table |-> table \union {row[i] : i \in accepted \ ignored},
      rejections |-> rejections,
      raised |-> IF raising # {} THEN refined[Min(raising)].raised
                 ELSE IF \E x \in rejections : x.source \in LongSources THEN "DataError"
                 ELSE None,
      progress |-> PhaseProgress(Len(refined), Cardinality(accepted \ ignored),
                                 Cardinality(rejections), Cardinality(ignored))]
Phase(t, stage, file, table, ids) ==
  Chunk(t, stage,
        Evaluated([i \in DOMAIN file |-> RefineSingle(stage, file[i].cells, ids)]), table)

SelectionPhase(t) == Phase(t, "selection", raw[t].selections, db.selections, {})
OddTagPhase(t, ids) == Phase(t, "odd_tagging", raw[t].odds, db.oddTags, ids)
LabelPhase(t, ids) == Phase(t, "auto_labeling", raw[t].labels, db.labels, ids)

NotStarted(t) ==
  LET counts == [selection |-> Len(raw[t].selections), odd_tagging |-> Len(raw[t].odds),
                 auto_labeling |-> Len(raw[t].labels)]
  IN [status |-> "pending", error |-> None, result |-> None,
      progress |-> [stage \in Stages |->
                     [total |-> counts[stage], processed |-> 0, rejected |-> 0]]]

\* _build_result over the tables after the last phase.
BuildResult(t, selections, oddTags, labels, progress) ==
  LET selected == {s.id : s \in {x \in selections : x.task = t}}
      linked == selected \intersect {o.video : o \in {x \in oddTags : x.task = t}}
                         \intersect {l.video : l \in {x \in labels : x.task = t}}
  IN [stages |-> progress, linked |-> Cardinality(linked),
      partial |-> Cardinality(selected) - Cardinality(linked)]

-----------------------------------------------------------------------------
(***************************************************************************)
(* An analysis: three phases in one session, which is committed, or undone *)
(* when a row raises.                                                      *)
(***************************************************************************)
Idle == [task |-> None, over |-> {}]

Begin(t) ==
  /\ analysis = Idle
  /\ tasks[t].status = "pending"
  /\ analysis' = [Idle EXCEPT !.task = t]
  /\ tasks' = [tasks EXCEPT ![t].status = "processing"]
  /\ UNCHANGED <<raw, db, blocks, walk>>

\* What the phases make of the files; the links are checked against the rows of the first.
SelectionIds(t) == {s.id : s \in {x \in SelectionPhase(t).table : x.task = t}}
Outcome(t, stage) ==
  CASE stage = "selection" -> SelectionPhase(t)
    [] stage = "odd_tagging" -> OddTagPhase(t, SelectionIds(t))
    [] stage = "auto_labeling" -> LabelPhase(t, SelectionIds(t))

Earlier(stage) ==
  CASE stage = "selection" -> {}
    [] stage = "odd_tagging" -> {"selection"}
    [] stage = "auto_labeling" -> {"selection", "odd_tagging"}

\* FAILED is written on the document as it was at the start: the progress is lost.
Fail(t, exception) ==
  /\ tasks' = [tasks EXCEPT ![t] = [NotStarted(t) EXCEPT !.status = "failed", !.error = exception]]
  /\ analysis' = Idle

RunPhase(t, stage) ==
  /\ analysis = [task |-> t, over |-> Earlier(stage)]
  /\ \E phase \in {Outcome(t, stage)} :
       \/ /\ phase.raised # None
          /\ Fail(t, phase.raised)
       \/ /\ phase.raised = None
          /\ tasks' = [tasks EXCEPT ![t].progress[stage] = phase.progress]
          /\ analysis' = [analysis EXCEPT !.over = @ \union {stage}]
  /\ UNCHANGED <<raw, db, blocks, walk>>

\* The result is built and COMPLETED is saved, while the session is still open.
Complete(t) ==
  /\ analysis = [task |-> t, over |-> Stages]
  /\ tasks[t].status = "processing"
  /\ tasks' = [tasks EXCEPT
       ![t].status = "completed",
       ![t].result = BuildResult(t, Outcome(t, "selection").table, Outcome(t, "odd_tagging").table,
                                 Outcome(t, "auto_labeling").table, tasks[t].progress)]
  /\ UNCHANGED <<raw, analysis, db, blocks, walk>>

\* The rejections get the next ids of their table; which ones depends on who came first.
FirstId(block, stage) ==
  LET nth == CASE stage = "selection" -> 0 [] stage = "odd_tagging" -> 1
               [] stage = "auto_labeling" -> 2
  IN (3 * block + nth) * 8 * (MaxRows + 2)
Inserted(block, r) == [r EXCEPT !.id = FirstId(block, r.stage) + @]

\* Now the rows and rejections are there for everybody.
Commit(t) ==
  /\ analysis.task = t
  /\ tasks[t].status = "completed"
  /\ \E block \in (1 .. Cardinality(Tasks)) \ {blocks[x] : x \in Tasks} :
       /\ blocks' = [blocks EXCEPT ![t] = block]
       /\ db' = [selections |-> Outcome(t, "selection").table,
                 oddTags |-> Outcome(t, "odd_tagging").table,
                 labels |-> Outcome(t, "auto_labeling").table,
                 rejections |-> db.rejections \union
                   {Inserted(block, r) : r \in UNION {Outcome(t, stage).rejections : stage \in Stages}}]
  /\ analysis' = Idle
  /\ UNCHANGED <<raw, tasks, walk>>

Work(t) ==
  Begin(t) \/ (\E stage \in Stages : RunPhase(t, stage)) \/ Complete(t) \/ Commit(t)

-----------------------------------------------------------------------------
(***************************************************************************)
(* GET /analyze/{task_id}: the document as it is, and percent, in tenths.  *)
(***************************************************************************)
Percent(p) ==
  IF p.total > 0 THEN ((p.processed + p.rejected) * 2000 + p.total) \div (2 * p.total) ELSE 0

TaskResponse(t) ==
  [tasks[t] EXCEPT !.progress =
    [stage \in Stages |-> [total |-> @[stage].total, processed |-> @[stage].processed,
                           rejected |-> @[stage].rejected, percent |-> Percent(@[stage])]]]

(***************************************************************************)
(* What the filters of GET /data mean, for the properties: exact values,   *)
(* and the join as the code makes it, by video.                            *)
(***************************************************************************)
Sought(s, c) ==
  /\ c.task \in {None, s.task}
  /\ c.lights \in {None, s.headlightsOn}
  /\ ~\E bound \in {c.from} \ {None} : s.recordedAt < bound
  /\ ~\E bound \in {c.to} \ {None} : s.recordedAt > bound
  /\ ~\E bound \in {c.minTemp} \ {None} : 10 * s.temperature < bound
  /\ ~\E bound \in {c.maxTemp} \ {None} : 10 * s.temperature > bound
  /\ {c.weather, c.time, c.road} # {None} =>
       \E o \in db.oddTags :
         /\ o.video = s.id
         /\ c.weather \in {None, o.weather}
         /\ c.time \in {None, o.time_of_day}
         /\ c.road \in {None, o.road_surface}
  /\ c.class # None \/ {c.minCount, c.minConf} \ {None, 0} # {} =>
       \E l \in db.labels :
         /\ l.video = s.id
         /\ c.class \in {None, l.object_class}
         /\ ~\E bound \in {c.minCount} \ {None} : l.count < bound
         /\ ~\E bound \in {c.minConf} \ {None} : l.confidence < bound

\* A FLOAT column does not hold a value exactly that the request names as a bound.
AtInexactBound(s, c) ==
  \/ 10 * s.temperature \in {c.minTemp, c.maxTemp} \intersect (Below \union Above)
  \/ \E l \in db.labels : l.video = s.id /\ l.confidence \in {c.minConf} \intersect Below

(***************************************************************************)
(* The client.  It follows the pages of an answer to the end: page + 1     *)
(* until "last", or next_after until there is none.  due, stored and more  *)
(* are history: the ids it may expect, the tasks stored when it began, and *)
(* the number of rows behind the page just read; so are cursor and legal.  *)
(***************************************************************************)
Stored == {t \in Tasks : blocks[t] # 0}
Answer(r) ==
  IF r.path = "data" THEN Joined(db, r.criteria) ELSE RejectionRows(db, r.criteria)
Due(r) ==
  {id \in IF r.path = "rejections" THEN Ids(Answer(r))
          ELSE {s.id : s \in {x \in db.selections :
                  Sought(x, r.criteria) /\ ~AtInexactBound(x, r.criteria)}} :
     Given(r.after, LAMBDA x : id > x)}

Start ==
  /\ walk.state = "idle"
  /\ \E r \in walk.requests :
       walk' = [state |-> "reading", req |-> r, items |-> <<>>, last |-> None, more |-> 0,
                seen |-> <<>>, stored |-> Stored,
                due |-> IF r.page \in {None, 1} THEN Due(r) ELSE {},
                cursor |-> r.after # None, legal |-> r \notin BadRequests]
  /\ UNCHANGED <<raw, tasks, analysis, db, blocks>>

\* How often an id was seen: once, or twice and more.
SeenAfter(seen, items) ==
  [id \in DOMAIN seen \union IdsOf(items) |->
    Min({2, (IF id \in DOMAIN seen THEN seen[id] ELSE 0)
              + Cardinality({i \in DOMAIN items : items[i].id = id})})]

\* The client reads a reply and prepares its next request; hits is what the query finds.
Follow(r, hits, reply) ==
  walk' = [walk EXCEPT
    !.state = IF reply.status = 400 THEN "refused"
              ELSE IF r.after = None /\ reply.last = TRUE THEN "done"
              ELSE IF r.after # None /\ reply.nextAfter = None THEN "done" ELSE "reading",
    !.req = IF r.after = None THEN [r EXCEPT !.page = @ + 1]
            ELSE [r EXCEPT !.after = reply.nextAfter],
    !.items = reply.items,
    !.last = reply.last,
    !.more = IF r.after = None THEN Cardinality(hits) - r.page * r.size ELSE 0,
    !.seen = SeenAfter(@, reply.items)]

\* One request: its validation and its handler.
Read ==
  /\ walk.state = "reading"
  /\ \/ ~Valid(walk.req) /\ walk' = [walk EXCEPT !.state = "refused"]
     \/ /\ Valid(walk.req)
        /\ \E r \in {Normal(walk.req)} : \E hits \in {Answer(r)} :
           \E reply \in IF r.path = "data" THEN SearchData(db, r, hits)
                        ELSE {GetRejections(r, hits)} : Follow(r, hits, reply)
  /\ UNCHANGED <<raw, tasks, analysis, db, blocks>>

-----------------------------------------------------------------------------
Init ==
  /\ \E instance \in Instances :
       /\ raw = instance.raw
       /\ walk = [state |-> "idle", requests |-> instance.requests]
  /\ tasks = [t \in Tasks |-> NotStarted(t)]
  /\ analysis = Idle
  /\ db = [selections |-> {}, oddTags |-> {}, labels |-> {}, rejections |-> {}]
  /\ blocks = [t \in Tasks |-> 0]

Next == (\E t \in Tasks : Work(t)) \/ Start \/ Read

\* A client that has begun a walk goes on.
Spec == Init /\ [][Next]_vars /\ WF_vars(Read)

-----------------------------------------------------------------------------
Progresses == [Stages -> [total : Nat, processed : Nat, rejected : Nat]]

TypeOK ==
  /\ raw \in [Tasks -> Files]
  /\ \A s \in db.selections :
       /\ s.task \in Tasks /\ s.id \in 1 .. MaxInt /\ s.recordedAt \in Int
       /\ s.temperature \in Temperatures
       /\ s.wiper.active \in BOOLEAN /\ s.wiper.level \in Opt(0 .. 3)
       /\ s.headlightsOn \in BOOLEAN /\ s.sourcePath.length <= MaxPath
  /\ \A o \in db.oddTags :
       /\ o.task \in Tasks /\ o.video \in 1 .. MaxInt /\ o.weather \in Weather
       /\ o.time_of_day \in TimeOfDay /\ o.road_surface \in RoadSurface
  /\ \A l \in db.labels :
       /\ l.task \in Tasks /\ l.video \in 1 .. MaxInt /\ l.object_class \in ObjectClass
       /\ l.count \in 0 .. MaxInt /\ l.confidence \in 0 .. 1000 /\ l.labeled_at \in Int
  /\ \A r \in db.rejections : r.id \in Nat /\ r.task \in Tasks /\ r.stage \in Stages
  /\ \A t \in Tasks : /\ tasks[t].status \in {"pending", "processing", "completed", "failed"}
                      /\ tasks[t].progress \in Progresses
  /\ analysis.task \in Opt(Tasks) /\ analysis.over \subseteq Stages
  /\ blocks \in [Tasks -> 0 .. Cardinality(Tasks)]
  /\ \/ walk.state = "idle" /\ walk.requests \subseteq Requests
     \/ /\ walk.state \in {"reading", "refused", "done"} /\ walk.req \in Requests
        /\ walk.last \in Opt(BOOLEAN) /\ walk.more \in Int
        /\ walk.seen \in [DOMAIN walk.seen -> 1 .. 2] /\ DOMAIN walk.seen \subseteq Nat
        /\ walk.stored \subseteq Tasks /\ walk.due \subseteq Nat
        /\ {walk.cursor, walk.legal} \subseteq BOOLEAN

FileOf(files, stage) ==
  CASE stage = "selection" -> files.selections
    [] stage = "odd_tagging" -> files.odds
    [] stage = "auto_labeling" -> files.labels
RawOf(t, stage) == FileOf(raw[t], stage)
TableOf(stage) ==
  CASE stage = "selection" -> db.selections
    [] stage = "odd_tagging" -> db.oddTags
    [] stage = "auto_labeling" -> db.labels
Stops(row) == \E d \in row.defects : d.reason = "stops"
RejectionsFor(t, stage, reasons) ==
  {r \in db.rejections : r.task = t /\ r.stage = stage /\ r.reason \in reasons}
DuplicateRejections(t, stage) ==
  {r \in db.rejections : r.task = t /\ r.stage = stage /\ r.field = "unique_constraint"}

\* Which row is wrong, and how.
DefectsOf(rows) == UNION {{i} \X rows[i].defects : i \in DOMAIN rows}

\* Which of these two a missing field is given, the documents leave open.
Coarse(reason) == IF reason = "missing_required_field" THEN "invalid_format" ELSE reason

\* Every wrong field of every row gets exactly one rejection, with the row's id, the
\* field and the reason, and nothing else does; no rejection is without a source; an
\* analysis ends by an exception only when a row has a cell the refiner cannot reject.
EachDefectReported ==
  /\ \A r \in db.rejections : r.source # ""
  /\ \A t \in Stored : \A stage \in Stages :
       LET rows == RawOf(t, stage)
           reported == {r \in db.rejections :
                         /\ r.task = t /\ r.stage = stage /\ r.reason # "unlinked_record"
                         /\ r.field # "unique_constraint"}
       IN (\A i \in DOMAIN rows : ~Stops(rows[i])) =>
            /\ {<<r.source, r.field, Coarse(r.reason)>> : r \in reported}
                 = {<<rows[d[1]].source, d[2].field, d[2].reason>> : d \in DefectsOf(rows)}
            /\ Cardinality(reported) = Cardinality(DefectsOf(rows))
  /\ \A t \in Tasks : tasks[t].status = "failed" =>
       \E stage \in Stages : \E i \in DOMAIN RawOf(t, stage) : Stops(RawOf(t, stage)[i])

\* The right rows of a stage that were neither stored nor rejected as unlinked.
Hidden(t, stage) ==
  Cardinality({i \in DOMAIN RawOf(t, stage) : RawOf(t, stage)[i].defects = {}})
    - Cardinality({x \in TableOf(stage) : x.task = t})
    - Cardinality(RejectionsFor(t, stage, {"unlinked_record"}))

\* No row disappears: a right row is stored, or rejected as unlinked, or it is a duplicate
\* and the stage has rejections for duplicates, with the reason of that stage and no more
\* of them than there are; and GET /analyze/{task_id} reports 100 % of a phase unless a row
\* of it has several defects or there are several duplicates.
NoRowVanishes ==
  \A t \in Stored : \A stage \in Stages :
    /\ Hidden(t, stage) >= 0
    /\ Hidden(t, stage) = 0 <=> DuplicateRejections(t, stage) = {}
    /\ Cardinality(DuplicateRejections(t, stage)) <= Hidden(t, stage)
    /\ \A r \in DuplicateRejections(t, stage) :
         /\ stage = "odd_tagging" => r.reason = "duplicate_tagging"
         /\ stage = "auto_labeling" => r.reason = "duplicate_label"
    /\ \/ TaskResponse(t).progress[stage].percent = 1000
       \/ RawOf(t, stage) = <<>>
       \/ \E i \in DOMAIN RawOf(t, stage) : Cardinality(RawOf(t, stage)[i].defects) > 1
       \/ Hidden(t, stage) > 1

\* What GET /analyze/{task_id} reports of a task whose rows are committed is what MySQL has
\* and the other two requests find: COMPLETED, as many videos, as many rows and rejections of
\* each stage.  Before that they find nothing of it, in any table, it is COMPLETED only
\* while its commit is to come, and it shows progress only of the phases that are over
\* (of a task that FAILED nothing is said).
StatusAgreesWithSearch ==
  \A t \in Tasks :
    LET shown == TaskResponse(t)
        videos == Cardinality(Joined(db, [DataSearchCriteria EXCEPT !.task = t]))
        rows(stage) == Cardinality({x \in TableOf(stage) : x.task = t})
        found(stage) ==
          Cardinality(RejectionRows(db, [RejectionCriteria EXCEPT !.task = t, !.stage = stage]))
    IN IF t \in Stored
       THEN /\ shown.status = "completed"
            /\ shown.result.linked + shown.result.partial = videos
            /\ shown.progress["selection"].processed = videos
            /\ \A stage \in Stages : /\ shown.progress[stage].processed = rows(stage)
                                     /\ shown.progress[stage].rejected = found(stage)
       ELSE /\ videos = 0
            /\ \A stage \in Stages : rows(stage) + found(stage) = 0
            /\ shown.status = "completed" => t = analysis.task
            /\ shown.status \in {"pending", "processing"} => \A stage \in Stages :
                 shown.progress[stage].percent = 0 \/ (t = analysis.task /\ stage \in analysis.over)

\* What the write path has accepted the read path can read: a request that keeps the
\* documented rules is refused only because of a path that was cut by its column, and
\* one that breaks them is never answered.
RefusedForAReason ==
  /\ walk.state = "refused" /\ walk.legal =>
       \E t \in Tasks : \E i \in DOMAIN raw[t].selections :
         raw[t].selections[i].cells["sourcePath"].n > MaxPath
  /\ walk.state = "done" => walk.legal

\* A client that follows the pages sees every row that was there when it began, whatever
\* is stored meanwhile.  The cursor of GET /rejections leads nowhere: next_after is not set.
WalkIsComplete ==
  walk.state = "done" /\ ~(walk.req.path = "rejections" /\ walk.cursor) =>
    walk.due \subseteq DOMAIN walk.seen

\* Some tag or label of the video comes from another task than its selection.
Tangled(s) == \E x \in db.oddTags \union db.labels : x.video = s.id /\ x.task # s.task

\* Nothing is seen twice by a cursor walk, nor by any walk during which nothing is
\* stored, unless a video was tagged by two tasks, which makes the join repeat it.
WalkRepeatsNothing ==
  walk.state # "idle" /\ (walk.cursor \/ walk.stored = Stored) =>
    \A id \in DOMAIN walk.seen :
      walk.seen[id] = 1 \/ (walk.req.path = "data" /\ \E s \in db.selections : s.id = id /\ Tangled(s))

\* Every row of GET /data meets all filters, and the tag it shows is the one that does,
\* unless the video was tagged by several tasks.
ShownMatches ==
  walk.state # "idle" /\ walk.req.path = "data" =>
    \A i \in DOMAIN walk.items :
      LET row == walk.items[i]
          c == walk.req.criteria
      IN /\ Sought(row.selection, c)
         /\ ~Tangled(row.selection) /\ HasTagFilter(c) =>
              /\ c.weather \in {None, row.tag.weather}
              /\ c.time \in {None, row.tag.time_of_day}
              /\ c.road \in {None, row.tag.road_surface}

\* A page says that it is the last one just when no row of the answer lies behind it.
LastPageIsLast ==
  walk.state # "idle" /\ ~walk.cursor /\ walk.last # None => (walk.last <=> walk.more <= 0)

\* Every walk ends, whichever way it pages.
WalkEnds == (walk.state = "reading") ~> (walk.state # "reading")
=============================================================================
