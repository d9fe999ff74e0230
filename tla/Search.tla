------------------------------- MODULE Search -------------------------------
(***************************************************************************)
(* The read side: GET /data and GET /rejections, from the validation of    *)
(* the request to the page that is returned (app/adapter/inbound/rest/,    *)
(* app/adapter/outbound/mysql/query_builder.py, repositories.py).  db has  *)
(* the tables selections, oddTags, labels and rejections, sets of rows.    *)
(***************************************************************************)
EXTENDS Refiners, FiniteSets

CONSTANTS
  Tasks,         \* analysis tasks
  Below, Above   \* values (in thousandths) a FLOAT column holds a little below or above

Stages == {"selection", "odd_tagging", "auto_labeling"}

\* The criteria by default: no filter at all.
DataSearchCriteria ==
  [f \in {"task", "from", "to", "minTemp", "maxTemp", "lights", "weather", "time", "road",
          "class", "minCount", "minConf"} |-> None]
RejectionCriteria == [f \in {"task", "stage", "reason", "source", "field"} |-> None]

\* The requests: their fields have the types of the request models, whatever their ranges.
Opt(S) == S \union {None}
DataCriteria ==
  [task : Opt(Tasks), from : Opt(Int), to : Opt(Int), minTemp : Opt(Int), maxTemp : Opt(Int),
   lights : Opt(BOOLEAN), weather : Opt(Weather), time : Opt(TimeOfDay),
   road : Opt(RoadSurface), class : Opt(ObjectClass), minCount : Opt(Int), minConf : Opt(Int)]
RejectionCriterias ==
  [task : Opt(Tasks), stage : Opt(Stages), reason : Opt(STRING), source : Opt(STRING),
   field : Opt(STRING)]
Requests ==
  [path : {"data"}, criteria : DataCriteria, page : Opt(Int), after : Opt(Int), size : Int]
    \union
  [path : {"rejections"}, criteria : RejectionCriterias, page : Opt(Int), after : Opt(Int),
   size : Int]

\* A filter that is not given lets every row pass.
Given(filter, P(_)) == filter # None => P(filter)

\* What a FLOAT column compares as, in ten-thousandths: the nearest single-precision
\* number, while the literal of the query is a double.
Single(n) == 10 * n + (IF n \in Below THEN -1 ELSE IF n \in Above THEN 1 ELSE 0)

-----------------------------------------------------------------------------
(***************************************************************************)
(* DataSearchQueryBuilder.                                                 *)
(***************************************************************************)
SelectionMatches(s, c) ==
  /\ Given(c.task, LAMBDA x : s.task = x)
  /\ Given(c.from, LAMBDA x : s.recordedAt >= x)
  /\ Given(c.to, LAMBDA x : s.recordedAt <= x)
  /\ Given(c.minTemp, LAMBDA x : Single(10 * s.temperature) >= 10 * x)
  /\ Given(c.maxTemp, LAMBDA x : Single(10 * s.temperature) <= 10 * x)
  /\ Given(c.lights, LAMBDA x : s.headlightsOn = x)

HasTagFilter(c) == {c.weather, c.time, c.road} # {None}

\* Mutation: one matching condition is enough.
TagMatchesAny(o, c) == c.weather = o.weather \/ c.time = o.time_of_day \/ c.road = o.road_surface

TagMatches(o, c) ==
  /\ Given(c.weather, LAMBDA x : o.weather = x)
  /\ Given(c.time, LAMBDA x : o.time_of_day = x)
  /\ Given(c.road, LAMBDA x : o.road_surface = x)

\* any([...]) takes the bounds 0 and 0.0 for no filter.
HasLabelFilter(c) == c.class # None \/ c.minCount \notin {None, 0} \/ c.minConf \notin {None, 0}

LabelMatches(l, c) ==
  /\ Given(c.class, LAMBDA x : l.object_class = x)
  /\ Given(c.minCount, LAMBDA x : l.count >= x)
  /\ Given(c.minConf, LAMBDA x : Single(l.confidence) >= 10 * x)

\* The rows of the query: a selection once, or once for every tag it joins with.  The
\* join and the subquery compare the video, not the task.
Joined(db, c) ==
  {pair \in db.selections \X (IF HasTagFilter(c) THEN db.oddTags ELSE {None}) :
     /\ SelectionMatches(pair[1], c)
     /\ HasTagFilter(c) => pair[2].video = pair[1].id /\ TagMatches(pair[2], c)
     /\ HasLabelFilter(c) =>
          \E l \in db.labels : l.video = pair[1].id /\ LabelMatches(l, c)}

(***************************************************************************)
(* RejectionQueryBuilder.                                                  *)
(***************************************************************************)
RejectionMatches(r, c) ==
  /\ Given(c.task, LAMBDA x : r.task = x)
  /\ Given(c.stage, LAMBDA x : r.stage = x)
  /\ Given(c.reason, LAMBDA x : r.reason = x)
  /\ Given(c.source, LAMBDA x : r.source = x)
  /\ Given(c.field, LAMBDA x : r.field = x)

\* Pairs, too, that join a rejection with nothing.
RejectionRows(db, c) == {r \in db.rejections : RejectionMatches(r, c)} \X {None}

-----------------------------------------------------------------------------
(***************************************************************************)
(* Paging.  A request r has path, criteria, page, after and size.          *)
(***************************************************************************)
Ids(hits) == {hit[1].id : hit \in hits}
Before(hits, id) == {hit \in hits : hit[1].id < id}
UpTo(hits, id) == {hit \in hits : hit[1].id <= id}
After(hits, id) == {hit \in hits : hit[1].id > id}

\* ORDER BY id: the row at place i of the joined pairs.  A selection has as many places,
\* one after the other, as it has pairs.
RowAt(hits, i) ==
  CHOOSE row \in {hit[1] : hit \in hits} :
    i \in Cardinality(Before(hits, row.id)) + 1 .. Cardinality(UpTo(hits, row.id))

\* LIMIT size OFFSET offset.
Slice(hits, offset, size) ==
  [i \in 1 .. Min({size, Cardinality(hits) - offset}) |-> RowAt(hits, offset + i)]

\* Mutation: the cursor is included.
PageFromCursor(hits, r) ==
  IF r.after # None THEN Slice({hit \in hits : hit[1].id >= r.after}, 0, r.size)
  ELSE Slice(hits, (r.page - 1) * r.size, r.size)
\* Mutation: pages that start one row late.
PageLate(hits, r) ==
  IF r.after # None THEN Slice(After(hits, r.after), 0, r.size)
  ELSE Slice(hits, (r.page - 1) * r.size + 1, r.size)

\* The rows after the cursor, or an offset; at most size of them.
Page(hits, r) ==
  IF r.after # None THEN Slice(After(hits, r.after), 0, r.size)
  ELSE Slice(hits, (r.page - 1) * r.size, r.size)

\* Mutation: a bound of one Field is missing.
ValidAnySize(r) == Given(r.page, LAMBDA x : x >= 1 /\ r.after = None)

\* The request models: ranges, and page and after not both.
Valid(r) ==
  /\ r.size \in 1 .. 100
  /\ Given(r.page, LAMBDA x : x >= 1 /\ r.after = None)
  /\ r.path = "data" =>
       /\ Given(r.criteria.minCount, LAMBDA x : x >= 0)
       /\ Given(r.criteria.minConf, LAMBDA x : x \in 0 .. 1000)

\* Neither page nor after: the first page.
Normal(r) == IF r.page = None /\ r.after = None THEN [r EXCEPT !.page = 1] ELSE r

\* Mutation: a full last page is followed by an empty one.
ReplyOfFloor(items, total, page, size) ==
  [status |-> 200, items |-> items, page |-> page, last |-> page >= total \div size + 1,
   nextAfter |-> None]

\* PageApiResponse.of and of_cursor.
ReplyOf(items, total, page, size) ==
  LET pages == (total + size - 1) \div size
  IN [status |-> 200, items |-> items, page |-> page, last |-> page >= pages,
      nextAfter |-> None]
ReplyOfCursor(items, lastId) ==
  [status |-> 200, items |-> items, page |-> None, last |-> None, nextAfter |-> lastId]
BadRequest ==
  [status |-> 400, items |-> <<>>, page |-> None, last |-> None, nextAfter |-> None]

IdsOf(rows) == {rows[i].id : i \in DOMAIN rows}

\* SelectionMapper.to_domain: a path that does not end with .mp4 any more raises.
Readable(s) == s.sourcePath.suffix = ".mp4"

\* One row of GET /data: its selection, one of the video's tags, all its labels.
Result(db, s, tag) ==
  [id |-> s.id, selection |-> s, tag |-> tag,
   labels |-> {l \in db.labels : l.video = s.id}]

TagsOf(db, video) == {o \in db.oddTags : o.video = video}

\* Of several tags of a video the one read last is shown, and no order is asked for.
ShownTags(db, videos) ==
  {f \in [videos -> db.oddTags \union {None}] :
     \A v \in videos : IF TagsOf(db, v) = {} THEN f[v] = None ELSE f[v] \in TagsOf(db, v)}

\* next_after.
Cursor(items) == IF items = <<>> THEN None ELSE items[Len(items)].id

\* The replies GET /data may give to r when its query finds hits.
SearchData(db, r, hits) ==
  LET rows == Page(hits, r)
      Items(tagOf) == [i \in DOMAIN rows |-> Result(db, rows[i], tagOf[rows[i].id])]
      Reply(items) == IF r.after # None THEN ReplyOfCursor(items, Cursor(items))
                      ELSE ReplyOf(items, Cardinality(hits), r.page, r.size)
  IN IF \E i \in DOMAIN rows : ~Readable(rows[i]) THEN {BadRequest}
     ELSE {Reply(Items(tagOf)) : tagOf \in ShownTags(db, IdsOf(rows))}

\* GET /rejections.  It answers every request as a page: request.page or 1.
GetRejections(r, hits) ==
  ReplyOf(Page(hits, r), Cardinality(hits), IF r.page = None THEN 1 ELSE r.page, r.size)
=============================================================================
