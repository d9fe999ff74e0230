----------------------------- MODULE MCDataPath -----------------------------
(* Instances: one row with up to two wrong fields, and small sets of files *)
(* for two analyses.                                                       *)
EXTENDS DataPath

MCTasks == {"t1", "t2"}

Text(text) == Cell("text", "word", text, 0)
Path(n) == Cell("text", "path", "a.mp4", n)
Date(n) == Cell("text", "date", "day", n)
Number(n) == Cell("number", "int", ToString(n), 1000 * n)
Decimal(text, n) == Cell("number", "float", text, n)
Digits(text, n) == Cell("text", "int", text, 1000 * n)
Real(text, n) == Cell("text", "float", text, n)
Flag(b) == Cell("number", "bool", IF b THEN "True" ELSE "False", IF b THEN 1000 ELSE 0)

V1(id, day, temperature, lights) ==
  [f \in SelectionFields |->
    CASE f = "id" -> Number(id) [] f = "recordedAt" -> Date(day) [] f = "sourcePath" -> Path(5)
      [] f = "temperature" -> temperature [] f = "isWiperOn" -> Flag(TRUE)
      [] f = "headlightsOn" -> Flag(lights) [] OTHER -> Absent]
V2(id, day, fahrenheit, lights) ==
  [f \in SelectionFields |->
    CASE f = "id" -> Number(id) [] f = "recordedAt" -> Date(day) [] f = "sourcePath" -> Path(5)
      [] f \in {"sensor", "sensor.temperature", "sensor.wiper"} -> Dict
      [] f = "sensor.temperature.value" -> fahrenheit
      [] f = "sensor.wiper.isActive" -> Flag(TRUE) [] f = "sensor.wiper.level" -> Number(2)
      [] f = "sensor.headlights" -> Flag(lights) [] OTHER -> Absent]
Odd(id, video, weather, time, road) ==
  [id |-> Digits(ToString(id), id), video_id |-> Digits("00" \o ToString(video), video),
   weather |-> Text(weather), time_of_day |-> Text(time), road_surface |-> Text(road)]
Lab(video, class, count, confidence) ==
  [video_id |-> Digits(ToString(video), video), object_class |-> Text(class),
   obj_count |-> Real("c", 1000 * count), avg_confidence |-> Real("p", confidence),
   labeled_at |-> Date(1)]

Defect(field, reason) == [field |-> field, reason |-> reason]
D(field, cell, reason) == [field |-> field, cell |-> cell, reports |-> field, reason |-> reason]
DN(field, cell, reports, reason) ==
  [field |-> field, cell |-> cell, reports |-> reports, reason |-> reason]
Invalid == "invalid_format"

Long == "a word too long for its column"
MCLongSources == {Long, "1:" \o Long, "?:" \o Long, ":" \o Long, "0:" \o Long}

\* Wrong cells, with the rejection each one calls for.
CommonDefects ==
  {D("id", Absent, Invalid), D("id", Null, Invalid), D("id", Text("x"), Invalid),
   D("id", Number(0), Invalid), D("id", Decimal("1.5", 1500), Invalid), D("id", Text(""), "stops"), D("id", Text(Long), "stops"),
   D("recordedAt", Absent, Invalid), D("recordedAt", Number(3), Invalid),
   D("recordedAt", Text("x"), Invalid),
   D("sourcePath", Null, Invalid), D("sourcePath", Text(""), Invalid),
   D("sourcePath", Text("a.avi"), Invalid), D("sourcePath", Number(3), "stops")}
V1Defects == CommonDefects \union
  {D("temperature", Null, Invalid), D("temperature", Text("hot"), Invalid),
   D("temperature", Decimal("60.01", 60010), Invalid),
   D("temperature", Decimal("-90.01", -90010), Invalid),
   D("temperature", Cell("text", "nan", "nan", 0), Invalid),
   D("isWiperOn", Absent, Invalid), D("headlightsOn", Absent, Invalid)}
V2Defects == CommonDefects \union
  {D("sensor", Null, Invalid), D("sensor.temperature", Absent, Invalid),
   D("sensor.temperature", Number(7), Invalid),
   DN("sensor.temperature.value", Absent, "sensor.temperature", Invalid),
   DN("sensor.temperature.value", Real("70", 70000), "sensor.temperature", Invalid),
   DN("sensor.temperature.value", Number(141), "sensor.temperature", Invalid),
   D("sensor.temperature.unit", Text("K"), Invalid), D("sensor.temperature.unit", Null, Invalid),
   D("sensor.wiper", Absent, Invalid), D("sensor.wiper", Null, Invalid),
   DN("sensor.wiper.isActive", Absent, "sensor.wiper", Invalid),
   DN("sensor.wiper.isActive", Flag(FALSE), "sensor.wiper", Invalid),
   DN("sensor.wiper.level", Number(4), "sensor.wiper", Invalid),
   DN("sensor.wiper.level", Text("x"), "sensor.wiper", Invalid),
   DN("sensor.wiper.level", Null, "sensor.wiper", Invalid),
   DN("sensor.headlights", Absent, "headlights", Invalid)}
EnumDefects(field) ==
  {D(field, Absent, Invalid), D(field, Null, "invalid_enum_value"),
   D(field, Text("foggy"), "invalid_enum_value")}
OddDefects ==
  {D("id", Absent, Invalid), D("id", Null, Invalid), D("id", Text("x"), Invalid),
   D("id", Text(""), "stops"), D("id", Text(Long), "stops"), D("video_id", Null, Invalid), D("video_id", Absent, Invalid),
   D("video_id", Real("1.5", 1500), Invalid), D("video_id", Text(""), "stops"),
   D("video_id", Digits("00", 0), "stops"), D("video_id", Digits("-3", -3), "stops")}
    \union EnumDefects("weather") \union EnumDefects("time_of_day")
    \union EnumDefects("road_surface")
LabelDefects ==
  {D("video_id", Absent, Invalid), D("video_id", Text(""), Invalid),
   D("video_id", Digits("0", 0), "stops"), D("object_class", Text(Long), "stops"),
   D("obj_count", Null, Invalid), D("obj_count", Text("x"), Invalid),
   D("obj_count", Real("2.5", 2500), "fractional_obj_count"),
   D("obj_count", Real("-0.5", -500), "fractional_obj_count"),
   D("obj_count", Digits("-1", -1), "negative_obj_count"),
   D("obj_count", Cell("text", "nan", "nan", 0), "stops"),
   D("obj_count", Cell("text", "inf", "inf", 0), "stops"),
   D("avg_confidence", Text(""), Invalid), D("avg_confidence", Real("1.5", 1500), "stops"),
   D("avg_confidence", Real("-0.1", -100), "stops"),
   D("avg_confidence", Cell("text", "nan", "nan", 0), "stops"),
   D("labeled_at", Absent, Invalid), D("labeled_at", Text("x"), Invalid)}
    \union EnumDefects("object_class")

\* The part of a row a field belongs to: two defects are put into different parts.
Part(field) ==
  CASE field = "sensor" -> "sensor"
    [] field \in {"sensor.temperature", "sensor.temperature.value", "sensor.temperature.unit"} ->
         "temperature"
    [] field \in {"sensor.wiper", "sensor.wiper.isActive", "sensor.wiper.level"} -> "wiper"
    [] OTHER -> field
Apart(d, e) ==
  Part(d.field) # Part(e.field) /\ ~(d.field = "sensor" /\ Part(e.field) \in
                                      {"temperature", "wiper", "sensor.headlights"})
Broken(cells, Defects) ==
  LET Put(ds) == [cells |-> [f \in DOMAIN cells |->
                              IF \E d \in ds : d.field = f
                              THEN (CHOOSE d \in ds : d.field = f).cell ELSE cells[f]],
                  defects |-> {Defect(d.reports, d.reason) : d \in ds}]
  IN {Put({d}) : d \in Defects} \union
     {Put({pair[1], pair[2]}) : pair \in {p \in Defects \X Defects :
                                            Apart(p[1], p[2]) /\ Apart(p[2], p[1])}}
Right(cells) == [cells |-> cells, defects |-> {}]
Named(rows, Source(_)) ==
  {[cells |-> r.cells, defects |-> r.defects, source |-> Source(r.cells)] : r \in rows}
IdText(cells) == cells["id"].text
LabelText(cells) == cells["video_id"].text \o ":" \o cells["object_class"].text

Warm == Decimal("20.1", 20100)
\* Rows that are right at a boundary, and one whose id 0 is hidden by another defect.
Corners ==
  {Right([V1(1, 1, Decimal("60.004", 60004), TRUE) EXCEPT !["isWiperOn"] = Text("")]),
   Right([V2(1, 1, Number(140), TRUE) EXCEPT !["sensor.wiper.isActive"] = Flag(FALSE),
                                             !["sensor.wiper.level"] = Digits("0", 0)])}
SelectionRows ==
  Broken(V1(1, 1, Warm, TRUE), V1Defects) \union Broken(V2(1, 1, Number(70), TRUE), V2Defects)
    \union {[cells |-> [V1(1, 1, Warm, TRUE) EXCEPT !["temperature"] = Absent],
             defects |-> {Defect("schema", "unknown_schema")}]}
OddRows ==
  Broken(Odd(1, 1, "sunny", "day", "dry"), OddDefects) \union
    {[cells |-> Odd(0, 1, "foggy", "day", "dry"), defects |-> {Defect("weather", "invalid_enum_value")}],
     [cells |-> Odd(0, 1, "sunny", "day", "dry"), defects |-> {Defect("id", "stops")}]}
LabelRows == Broken(Lab(1, "car", 2, 500), LabelDefects)

Uploads(s, o, l) == [selections |-> s, odds |-> o, labels |-> l]
Nothing == Uploads(<<>>, <<>>, <<>>)
Both(a, b) == [t \in MCTasks |-> IF t = "t1" THEN a ELSE b]
OneRow ==
  {Both(Uploads(<<r>>, <<>>, <<>>), Nothing) : r \in Named(SelectionRows, IdText)}
    \union {Both(Uploads(<<>>, <<r>>, <<>>), Nothing) : r \in Named(OddRows, IdText)}
    \union {Both(Uploads(<<>>, <<>>, <<r>>), Nothing) : r \in Named(LabelRows, LabelText)}

S(cells) == [cells |-> cells, defects |-> {}, source |-> IdText(cells)]
O(cells) == S(cells)
L(cells) == [cells |-> cells, defects |-> {}, source |-> LabelText(cells)]
BadOdd == CHOOSE r \in Named(OddRows, IdText) :
            r.cells.weather.text = "foggy" /\ r.cells.road_surface.text = "foggy"

Even == Uploads(<< S(V1(2, 2, Warm, TRUE)), S(V2(4, 4, Number(50), FALSE)), S(V1(2, 3, Warm, TRUE)) >>,
              << O(Odd(1, 2, "rainy", "day", "wet")), O(Odd(2, 4, "rainy", "night", "dry")),
                 O(Odd(3, 9, "sunny", "day", "dry")), BadOdd >>,
              << L(Lab(2, "car", 3, 900)), L(Lab(4, "bus", 1, 500)), L(Lab(4, "bus", 2, 600)) >>)
OddOnes == Uploads(<< S(V1(1, 1, Decimal("10", 10000), FALSE)), S(V1(3, 3, Warm, TRUE)) >>,
                 << O(Odd(1, 3, "rainy", "night", "wet")), O(Odd(2, 1, "snowy", "day", "icy")), BadOdd >>,
                 << L(Lab(1, "car", 0, 1000)), L(Lab(3, "car", 2, 850)) >>)
\* The same videos, tagged anew.
Again == Uploads(<< S(V1(2, 2, Warm, TRUE)), S(V2(4, 4, Number(50), FALSE)) >>,
               << O(Odd(1, 2, "sunny", "day", "dry")), O(Odd(2, 4, "rainy", "day", "wet")) >>,
               << L(Lab(2, "bus", 1, 500)) >>)
\* Too large for their columns.
Wide == Uploads(<< S([V1(1, 1, Warm, TRUE) EXCEPT !["sourcePath"] = Path(12)]),
                 S(V1(12, 2, Warm, TRUE)), S(V1(14, 2, Warm, FALSE)) >>,
              << O(Odd(1, 12, "sunny", "day", "dry")) >>,
              << L(Lab(1, "car", 12, 500)) >>)

Ask(path, criteria, page, after, size) ==
  [path |-> path, criteria |-> criteria, page |-> page, after |-> after, size |-> size]

Filters ==
  {[DataSearchCriteria EXCEPT !.task = "t1", !.weather = "rainy"],
   [DataSearchCriteria EXCEPT !.from = 2, !.to = 3], [DataSearchCriteria EXCEPT !.lights = TRUE],
   [DataSearchCriteria EXCEPT !.minTemp = 10000, !.maxTemp = 20100],
   [DataSearchCriteria EXCEPT !.weather = "rainy"], [DataSearchCriteria EXCEPT !.weather = "rainy", !.time = "day"],
   [DataSearchCriteria EXCEPT !.road = "icy"], [DataSearchCriteria EXCEPT !.minCount = 0],
   [DataSearchCriteria EXCEPT !.minCount = 2, !.minConf = 500], [DataSearchCriteria EXCEPT !.class = "car"],
   [DataSearchCriteria EXCEPT !.minConf = 850], [DataSearchCriteria EXCEPT !.minConf = 900],
   [DataSearchCriteria EXCEPT !.class = "bus", !.minConf = 600, !.weather = "rainy"]}
RejectionFilters ==
  {RejectionCriteria, [RejectionCriteria EXCEPT !.task = "t1"], [RejectionCriteria EXCEPT !.stage = "odd_tagging"],
   [RejectionCriteria EXCEPT !.reason = "invalid_enum_value"],
   [RejectionCriteria EXCEPT !.source = "0", !.field = "weather"]}

MCBadRequests ==
  {Ask("data", DataSearchCriteria, None, None, 0), Ask("rejections", RejectionCriteria, None, None, 101),
   Ask("data", DataSearchCriteria, 0, None, 1), Ask("rejections", RejectionCriteria, 1, 0, 1),
   Ask("data", [DataSearchCriteria EXCEPT !.minCount = -1], None, None, 1),
   Ask("data", [DataSearchCriteria EXCEPT !.minConf = 1001], None, 0, 1)}

AllRequests == MCBadRequests \union
  {Ask("data", DataSearchCriteria, None, None, n) : n \in 1 .. 2}
    \union {Ask("data", DataSearchCriteria, 2, None, 1)}
    \union {Ask("data", DataSearchCriteria, None, after, n) : n \in 1 .. 2, after \in {0, 2}}
    \union {Ask("data", c, None, None, 1) : c \in Filters}
    \union {Ask("data", c, None, 0, 2) : c \in Filters}
    \union {Ask("rejections", c, None, None, n) : c \in RejectionFilters, n \in 1 .. 2}
    \union {Ask("rejections", RejectionCriteria, None, 0, 1)}

\* The rejections of one row, and every request over the files of two analyses.
With(raws, requests) == [raw : raws, requests : {requests}]
MCInstances ==
  With(OneRow \union {Both(Uploads(<<S(c.cells)>>, <<>>, <<>>), Nothing) : c \in Corners},
       {Ask("rejections", RejectionCriteria, None, None, 1)})
    \union With({Both(Even, OddOnes), Both(Even, Again), Both(Wide, Even)}, AllRequests)
=============================================================================
