------------------------------ MODULE Refiners ------------------------------
(***************************************************************************)
(* refine_single of the three refiners (app/application/*_refiner.py) and  *)
(* the value objects they construct: what becomes of one raw row.          *)
(*                                                                         *)
(* A parser is a Python expression, whose value is Ok(v) or an exception,  *)
(* and the except clauses around it, which give exceptions a reason.  What *)
(* no clause names leaves refine_single and ends the whole analysis.       *)
(***************************************************************************)
EXTENDS Integers, Sequences, FiniteSetsExt, TLC

CONSTANT None   \* Python's None

-----------------------------------------------------------------------------
(***************************************************************************)
(* A cell is what a row holds for a field: kind is "absent" (no such key), *)
(* "null", "dict", "number" or "text".  spells tells which number it is or *)
(* the text spells: "bool", "int", "float" (n thousandths), "nan", "inf";  *)
(* or that the text is a "date" (n) or a "path" to an mp4 file (of length  *)
(* n).  Anything else is a "word".                                         *)
(***************************************************************************)
Cells ==
  [kind : {"absent", "null", "dict", "number", "text"},
   spells : {"bool", "int", "float", "nan", "inf", "date", "path", "word"},
   text : STRING, n : Int]
Cell(kind, spells, text, n) == [kind |-> kind, spells |-> spells, text |-> text, n |-> n]
Absent == Cell("absent", "word", "?", 0)
Null == Cell("null", "word", "None", 0)
Dict == Cell("dict", "word", "{}", 0)

\* The cells a row is read by; the nested ones of a JSON row have dotted names.
SelectionFields ==
  {"id", "recordedAt", "sourcePath", "temperature", "isWiperOn", "headlightsOn", "sensor",
   "sensor.temperature", "sensor.temperature.value", "sensor.temperature.unit",
   "sensor.wiper", "sensor.wiper.isActive", "sensor.wiper.level", "sensor.headlights"}
OddTagFields == {"id", "video_id", "weather", "time_of_day", "road_surface"}
LabelFields == {"video_id", "object_class", "obj_count", "avg_confidence", "labeled_at"}

Weather == {"sunny", "cloudy", "rainy", "snowy"}
TimeOfDay == {"day", "night"}
RoadSurface == {"dry", "wet", "snowy", "icy"}
ObjectClass == {"car", "pedestrian", "traffic_sign", "traffic_light", "truck", "bus",
                "cyclist", "motorcycle"}

\* The sequence itself: TLC evaluates a concatenation once, a function at each use.
Evaluated(seq) == seq \o <<>>

DomainErrors == {"InvalidFormatError", "TemperatureConversionError", "NegativeCountError",
                 "InvalidOddTagError"}
RowErrors == {"ValueError", "KeyError", "TypeError"}
Exceptions ==
  DomainErrors \union RowErrors \union
  {"AttributeError", "UnknownSchema", "ValueErrorOfInt", "OverflowError", "Fractional"}

ASSUME NoneAssumption == None \notin Exceptions \union Int \union BOOLEAN

Ok(v) == [v |-> v, error |-> None]
Raise(e) == [v |-> None, error |-> e]
Then(res, F(_)) == IF res.error = None THEN F(res.v) ELSE res

\* row[field], before anything is made of it.
Get(c, F(_)) == IF c.kind = "absent" THEN Raise("KeyError") ELSE F(c)

Finite(c) == c.spells \in {"bool", "int", "float"}
Truth(c) ==
  CASE c.kind = "null" -> FALSE
    [] c.kind = "number" -> Finite(c) => c.n # 0
    [] c.kind = "text" -> c.text # ""
    [] OTHER -> TRUE

\* int(...) and float(...); a float stays a cell, which may be nan or infinite.
ParseInt(c) ==
  Get(c, LAMBDA x :
    CASE x.kind \in {"null", "dict"} -> Raise("TypeError")
      [] x.spells \in {"bool", "int"} \/ (x.kind = "number" /\ x.spells = "float") ->
           Ok(IF x.n < 0 THEN -((-x.n) \div 1000) ELSE x.n \div 1000)
      [] OTHER -> Raise("ValueError"))
ParseFloat(c) ==
  Get(c, LAMBDA x :
    CASE x.kind \in {"null", "dict"} -> Raise("TypeError")
      [] Finite(x) \/ x.spells \in {"nan", "inf"} -> Ok(x)
      [] OTHER -> Raise("ValueError"))

Bool(c) == Get(c, LAMBDA x : Ok(Truth(x)))
IsoDate(c) ==
  Get(c, LAMBDA x : IF x.kind # "text" THEN Raise("TypeError")
                    ELSE IF x.spells = "date" THEN Ok(x.n) ELSE Raise("ValueError"))
Member(c, Values) ==
  Get(c, LAMBDA x : IF x.kind = "text" /\ x.text \in Values THEN Ok(x.text)
                    ELSE Raise("ValueError"))

-----------------------------------------------------------------------------
(***************************************************************************)
(* The value objects.                                                      *)
(***************************************************************************)
VideoId(n) == IF n > 0 THEN Ok(n) ELSE Raise("InvalidFormatError")

\* In hundredths of a degree: the range is checked after rounding.
Temperatures == {h \in Int : -9000 <= h /\ h <= 6000}
Temperature(h) == IF h \in Temperatures THEN Ok(h) ELSE Raise("TemperatureConversionError")
FromCelsius(x) ==
  IF Finite(x) THEN Temperature((x.n + 5) \div 10) ELSE Raise("TemperatureConversionError")
FromFahrenheit(x) ==
  IF x.kind = "number" /\ Finite(x) THEN Temperature(((x.n - 32000) * 5 + 45) \div 90)
  ELSE Raise("TemperatureConversionError")

\* Mutation: no upper bound.
ConfidenceNotNegative(x) ==
  IF Finite(x) /\ x.n >= 0 THEN Ok(x.n) ELSE Raise("InvalidFormatError")

Confidence(x) ==
  IF Finite(x) /\ x.n \in 0 .. 1000 THEN Ok(x.n) ELSE Raise("InvalidFormatError")
ObjectCount(n) == IF n >= 0 THEN Ok(n) ELSE Raise("NegativeCountError")

WiperState(active, level) ==
  IF level = None \/ (level \in 0 .. 3 /\ (active \/ level = 0))
  THEN Ok([active |-> active, level |-> level])
  ELSE Raise("InvalidFormatError")

SourcePath(x) ==
  CASE ~Truth(x) -> Raise("InvalidFormatError")
    [] x.kind # "text" -> Raise("AttributeError")
    [] x.spells = "path" -> Ok([name |-> x.text, length |-> x.n, suffix |-> ".mp4"])
    [] OTHER -> Raise("InvalidFormatError")

-----------------------------------------------------------------------------
(***************************************************************************)
(* A row is refined field by field.  attr is the attribute of the record,  *)
(* field the name a rejection gives.                                       *)
(***************************************************************************)
Field(attr, field, res, caught) ==
  [attr |-> attr, field |-> field, res |-> res, caught |-> caught]
As(errors, reason) == [e \in errors |-> reason]
InvalidFormat == As(RowErrors, "invalid_format")
MissingOnly == As({"KeyError"}, "missing_required_field")

Raised(e) == [record |-> None, rejections |-> {}, raised |-> e]

\* Mutation: the first wrong field ends the row.
ReportsFirst(wrong) == {Min(wrong)}

\* All fields are looked at, and each wrong one gets a rejection of its own.
Reports(wrong) == wrong

\* A Rejection without a source_id cannot be constructed: an InvalidFormatError.  nth is the
\* place of a rejection among those of its row.
Refine(source, fields) ==
  LET wrong == {i \in DOMAIN fields : fields[i].res.error # None}
      fatal == {i \in wrong : fields[i].res.error \notin DOMAIN fields[i].caught \/ source = ""}
      first == fields[Min(fatal)]
  IN CASE fatal # {} ->
            Raised(IF first.res.error \in DOMAIN first.caught THEN "InvalidFormatError"
                   ELSE first.res.error)
       [] fatal = {} /\ wrong # {} ->
            [record |-> None, raised |-> None,
             rejections |-> {[nth |-> i, source |-> source, field |-> fields[i].field,
                              reason |-> fields[i].caught[fields[i].res.error]] :
                               i \in Reports(wrong)}]
       [] OTHER ->
            [record |-> [a \in {fields[i].attr : i \in DOMAIN fields} |->
                          fields[CHOOSE i \in DOMAIN fields : fields[i].attr = a].res.v],
             rejections |-> {}, raised |-> None]

-----------------------------------------------------------------------------
(***************************************************************************)
(* SelectionRefiner: JSON rows, whose nested fields have dotted names.     *)
(***************************************************************************)
SelectionCaught == As(DomainErrors \union RowErrors, "invalid_format")

SelectionId(c) ==
  Get(c, LAMBDA x : IF x.kind = "number" /\ x.spells \in {"bool", "int"}
                    THEN VideoId(x.n \div 1000) ELSE Raise("InvalidFormatError"))

IdField(row) == Field("id", "id", SelectionId(row["id"]), SelectionCaught)
DateField(row) == Field("recordedAt", "recordedAt", IsoDate(row["recordedAt"]), SelectionCaught)
PathField(row) ==
  Field("sourcePath", "sourcePath", Get(row["sourcePath"], SourcePath), SelectionCaught)

RefineV1(source, row) ==
  Refine(source,
    << IdField(row), DateField(row),
       Field("temperature", "temperature", Then(ParseFloat(row["temperature"]), FromCelsius),
             SelectionCaught),
       Field("wiper", "isWiperOn",
             Then(Bool(row["isWiperOn"]), LAMBDA on : WiperState(on, None)), MissingOnly),
       Field("headlightsOn", "headlightsOn", Bool(row["headlightsOn"]), MissingOnly),
       PathField(row) >>)

\* sensor["temperature"], a dict of value and unit; the unit is F if there is none.
TemperatureField(row) ==
  LET unit == row["sensor.temperature.unit"]
      read == CASE row["sensor.temperature"].kind = "absent" -> Raise("KeyError")
                [] row["sensor.temperature"].kind # "dict" -> Raise("TypeError")
                [] OTHER -> Get(row["sensor.temperature.value"], Ok)
  IN CASE read.error # None ->
            Field("temperature", "sensor.temperature", read, SelectionCaught)
       [] read.error = None /\ (unit.kind = "absent" \/ unit.text = "F") ->
            Field("temperature", "sensor.temperature", FromFahrenheit(read.v), SelectionCaught)
       [] read.error = None /\ unit.text = "C" ->
            Field("temperature", "sensor.temperature", Then(ParseFloat(read.v), FromCelsius),
                  SelectionCaught)
       [] OTHER ->
            Field("temperature", "sensor.temperature.unit", Raise("ValueError"), SelectionCaught)

WiperField(row) ==
  LET wiper == row["sensor.wiper"]
      active == Bool(row["sensor.wiper.isActive"])
      state == CASE wiper.kind = "absent" -> Raise("KeyError")
                 [] wiper.kind # "dict" -> Raise("TypeError")
                 [] OTHER -> Then(active, LAMBDA on :
                               Then(ParseInt(row["sensor.wiper.level"]), LAMBDA level :
                                 WiperState(on, level)))
  IN Field("wiper", "sensor.wiper", state, SelectionCaught)

RefineV2(source, row) ==
  IF row["sensor"].kind # "dict"
  THEN Refine(source,
    << IdField(row), DateField(row), PathField(row),
       Field("sensor", "sensor", Raise("TypeError"), SelectionCaught) >>)
  ELSE Refine(source,
    << IdField(row), DateField(row), PathField(row), TemperatureField(row), WiperField(row),
       Field("headlightsOn", "headlights", Bool(row["sensor.headlights"]), MissingOnly) >>)

RefineSelection(row) ==
  LET source == row["id"].text
  IN CASE row["sensor"].kind # "absent" -> RefineV2(source, row)
       [] row["sensor"].kind = "absent" /\ row["temperature"].kind # "absent" ->
            RefineV1(source, row)
       [] OTHER ->
            Refine(source, << Field("schema", "schema", Raise("UnknownSchema"),
                                    As({"UnknownSchema"}, "unknown_schema")) >>)

-----------------------------------------------------------------------------
(***************************************************************************)
(* OddTagRefiner and LabelRefiner: CSV rows.  Their parsers do not catch   *)
(* DomainError, so a value object that refuses a number ends the analysis. *)
(***************************************************************************)
EnumField(attr, c, Values) ==
  Field(attr, attr, Member(c, Values),
        MissingOnly @@ As({"ValueError"}, "invalid_enum_value"))

\* str(...).lstrip("0") or "0": an empty text is the number 0, too.
OddVideoId(c) ==
  Get(c, LAMBDA x : IF x.text = "" THEN VideoId(0)
                    ELSE IF x.spells = "int" THEN VideoId(x.n \div 1000)
                    ELSE Raise("ValueError"))

\* The constructor checks the id, outside of the parsers.
OddTag(refined) ==
  IF refined.record # None /\ refined.record.id <= 0
  THEN Raised("InvalidOddTagError") ELSE refined

RefineOddTag(row) ==
  OddTag(Refine(row["id"].text,
    << Field("id", "id", ParseInt(row["id"]), InvalidFormat),
       Field("video", "video_id", OddVideoId(row["video_id"]), InvalidFormat),
       EnumField("weather", row["weather"], Weather),
       EnumField("time_of_day", row["time_of_day"], TimeOfDay),
       EnumField("road_surface", row["road_surface"], RoadSurface) >>))

\* raw != int(raw) comes after the try block: int() of nan and of inf raise there.
ObjCount(c) ==
  Then(ParseFloat(c), LAMBDA x :
    CASE x.spells = "nan" -> Raise("ValueErrorOfInt")
      [] x.spells = "inf" -> Raise("OverflowError")
      [] Finite(x) /\ x.n % 1000 # 0 -> Raise("Fractional")
      [] OTHER -> ObjectCount(x.n \div 1000))

ObjCountField(c) ==
  Field("count", "obj_count", ObjCount(c),
        [e \in RowErrors \union {"Fractional", "NegativeCountError"} |->
          CASE e = "Fractional" -> "fractional_obj_count"
            [] e = "NegativeCountError" -> "negative_obj_count"
            [] OTHER -> "invalid_format"])

RefineLabel(row) ==
  Refine(row["video_id"].text \o ":" \o row["object_class"].text,
    << Field("video", "video_id", Then(ParseInt(row["video_id"]), VideoId), InvalidFormat),
       EnumField("object_class", row["object_class"], ObjectClass),
       ObjCountField(row["obj_count"]),
       Field("confidence", "avg_confidence", Then(ParseFloat(row["avg_confidence"]), Confidence),
             InvalidFormat),
       Field("labeled_at", "labeled_at", IsoDate(row["labeled_at"]), InvalidFormat) >>)
=============================================================================
