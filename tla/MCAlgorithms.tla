----------------------------- MODULE MCAlgorithms -----------------------------
(***************************************************************************)
(* The algorithms, on every input of a bounded set.  A behaviour is about   *)
(* one family of algorithms, and has one step, that chooses an input.      *)
(***************************************************************************)
EXTENDS D3mIndex, Nominatim, IndicatorGroups, Requests, Noaa, Maintenance, SearchQuery, JoinSearch,
  UnionSearch

ASSUME Parameters ==
  /\ BatchSize \in Nat /\ MinSplit \in Nat /\ MinSplit >= 2 /\ MaxRequests \in Nat
  /\ PageSize \in Nat /\ MaxFailed \in Nat \ {0}
  /\ Ranges \in Nat /\ Limit \in Nat /\ Window \in Nat /\ TopK \in Nat

VARIABLES family, input

Date1 == <<"d1">>
Date2 == <<"d2">>
Name == <<"n">>
Envelope(x1, x2, y1, y2) == <<<<x1, y2>>, <<x2, y1>>>>

Files == INSTANCE Formats WITH Dates <- {Date1, Date2}

None == [of |-> "none"]
Families == {"formats", "services", "joins", "unions", "types", "profiles", "scripts", "queries", "searches",
             "requests"}
Init == family \in Families /\ input = None

UpTo(S, n) == UNION {[1..k -> S] : k \in 0..n}
OneTo(S, n) == UNION {[1..k -> S] : k \in 1..n}

-----------------------------------------------------------------------------
(* Formats and the D3M writer.  A row may be too short; of 15 columns, 3    *)
(* may be something else than a date.                                       *)

Headers ==
  OneTo({Date1, Date2, Name}, 4)
    \cup {[k \in 1..n |-> IF k <= 3 THEN Name ELSE Date1] : n \in {14, 15}}
RowOf(r, n) == [k \in 1..n |-> <<ToString(100 * r + k)>>]
Raws(header) ==
  LET tables == {[header |-> header, rows |-> [r \in DOMAIN short |-> RowOf(r, Len(header) - short[r])]] :
                   short \in UpTo({0, 1}, 2)}
  IN {Files!Text(s, t) : s \in {",", ";"}, t \in tables}
       \cup {[kind |-> k, table |-> t] : k \in {"stata", "spss", "other"}, t \in tables}
       \cup {[kind |-> "xls", sheets |-> n, table |-> t] : n \in {1, 2}, t \in tables}
ConvertFile ==
  \E header \in Headers : \E raw \in Raws(header), guess \in {",", ";"} :
    input' = [of |-> "file", raw |-> raw, guess |-> guess]

IndexFile ==
  \E n \in 0..5 : \E blanks \in SUBSET (2..n), flushes \in UNION {kSubset(k, 1..(2 * n)) : k \in 0..2},
                     hasIndex \in BOOLEAN :
    input' = [of |-> "index", hasIndex |-> hasIndex, flushes |-> flushes,
              lines |-> [i \in 1..n |-> IF i \in blanks THEN "blank" ELSE "line"]]
DescribeFile ==
  \E columns \in UpTo([name : {"d3mIndex", "a", "b"}, structural : {"integer", "text", "point"},
                       semantic : SUBSET {"categorical", "datetime"}], 2),
     needIndex \in BOOLEAN :
    input' = [of |-> "document", columns |-> columns, needIndex |-> needIndex]

-----------------------------------------------------------------------------
(* Services that answer in batches and pages.                               *)

ResolveAddresses ==
  \E array \in UpTo({"a", "b", "c", "d", Empty, TooLong}, 5),
     server \in [known : {{"a", "c"}, {"a", "b", "c", "d"}}, limit : {1, 2}, broken : {{}, {"b"}}] :
    input' = [of |-> "addresses", array |-> array, server |-> server]

DownloadPages ==
  \E n \in 0..5 : \E answers \in UpTo([kind : {"fails", "breaks", "empty"}, count : {0}]
                                       \cup [kind : {"page"}, count : {2, n, n + 1}], 5) :
    input' = [of |-> "pages", data |-> [i \in 1..n |-> i], answers |-> answers]
AverageDates ==
  \E data \in UpTo([date : 1..3, value : 1..2], 4) : input' = [of |-> "averages", data |-> data]
MakeYears ==
  \E start \in 1..20, length \in 0..15, years \in {1, 5, 10} :
    input' = [of |-> "years", start |-> start, end |-> start + length, years |-> years]

DiscoverSeries ==
  LET stations == [mindate : {1}, maxdate : {3, 10}] \cup [mindate : {7}, maxdate : {12}] IN
  \E answers \in [{"GSOM", "GHCND"} \X {"TAVG"} \X {"c1", "c2"} -> SUBSET stations] :
    input' = [of |-> "series", stations |-> answers]

(* Names with a space, a comma and a letter: "A,x" "A x,y" "A".             *)
IndicatorNames == OneTo({32, 44, 65}, 3)
SplitIndicators ==
  \E a, b, c \in IndicatorNames : \E names \in {{a, b, c}} :
    input' = [of |-> "indicators", variables |-> {[source |-> 1, name |-> name] : name \in names}]
IndicatorSources ==
  \E variables \in SUBSET [source : 1..2, name : {<<65>>, <<65, 44, 65>>, <<65, 32, 65>>}] :
    input' = [of |-> "indicators", variables |-> variables]

-----------------------------------------------------------------------------
(* Requests: formats with options of which one may be unknown or given      *)
(* twice; tasks with an identifier, metadata or both.                       *)

AskedVersions == {"", "3.2.0", "9"}
Flags == {"", "False", "false", "True", "true", "0", "1"}
SomeOptions ==
  {<<>>} \cup [{"version"} -> AskedVersions] \cup [{"need_d3mindex"} -> Flags] \cup [{"other"} -> {"1"}]
    \cup {o \in [{"version", "need_d3mindex"} -> AskedVersions \cup Flags] :
            o["version"] \in AskedVersions /\ o["need_d3mindex"] \in Flags}
OpenSession ==
  \E format \in {"csv", "d3m", "other"}, options \in SomeOptions,
     token \in {"none", "valid", "invalid"}, other \in BOOLEAN :
    input' = [of |-> "session", format |-> format, options |-> options, token |-> token, other |-> other]
FileMetadata == [direct : BOOLEAN, convert : BOOLEAN, file : {"none", "f1", "f2"}]
DownloadFile ==
  \E indexed \in FileMetadata, id \in {"", "d", "e"}, own \in {<<>>} \cup {<<m>> : m \in FileMetadata},
     format \in {"", "csv", "d3m", "other"}, options \in SomeOptions, twice \in BOOLEAN :
    input' = [of |-> "download", index |-> ("d" :> indexed), task |-> [id |-> id, metadata |-> own],
              arguments |-> [format |-> format,
                             options |-> [n \in DOMAIN options |->
                               IF twice THEN <<options[n], options[n]>> ELSE <<options[n]>>]]]
UploadFile ==
  \E fields \in UpTo([required : BOOLEAN, value : {"none", "valid", "invalid"}], 2), file \in BOOLEAN,
     annotations, address \in {"none", "valid", "invalid"} :
    input' = [of |-> "upload", fields |-> fields, file |-> file, annotations |-> annotations,
              address |-> address]

-----------------------------------------------------------------------------
(* Joins on a key or on dates, of two rows with up to three rows in one to  *)
(* three chunks; unions of tables that share columns.                       *)

Chunks(rows, cuts) ==
  LET ends == SetToSortSeq(cuts \cup {Len(rows)}, <)
  IN [k \in DOMAIN ends |-> SubSeq(rows, IF k = 1 THEN 1 ELSE ends[k - 1] + 1, ends[k])]
JoinTasks(resolution) ==
  [left : {<<1>>}, right : {<<1>>}, requested : {{}, {2}}, numeric : {{}, {2}},
   functions : {<<>>, 2 :> <<"first", "count", "mean">>, 1 :> <<"count">>},
   resolution : {resolution}]
JoinOn(keys, n, resolutions) ==
  \E left \in {<<k>> : k \in keys} \cup {<<k, Max(keys)>> : k \in keys},
     rows \in OneTo(keys \X {NaN, 1, 2}, n),
     resolution \in resolutions :
    \E cuts \in SUBSET (1..(Len(rows) - 1)), task \in JoinTasks(resolution) :
      input' = [of |-> "join", task |-> task, chunks |-> Chunks(rows, cuts),
                original |-> [columns |-> <<"k", "v">>,
                              rows |-> [i \in DOMAIN left |-> <<left[i], 10 + i>>]],
                augment |-> [columns |-> <<"k", "x">>, rows |-> rows]]
JoinKeys == JoinOn({1, 2}, 3, {"none"})
JoinDates == JoinOn({0, 1, 4}, 2, {"guess", "month"})

DistinctNames(S) == {c \in OneTo(S, 3) : IsInjective(c)}
UnionTables ==
  \E original \in DistinctNames({"d3mIndex", "a", "b"}), augment \in DistinctNames({"d3mIndex", "a", "c"}) :
    \E paired \in SUBSET {c \in DOMAIN augment : augment[c] # "d3mIndex"}, indices \in {<<3>>, <<0, 1>>, <<9, 10>>} :
      \E pairs \in {f \in [paired -> {c \in DOMAIN original : original[c] # "d3mIndex"}] : IsInjective(f)} :
        input' = [of |-> "union", pairs |-> pairs,
                  original |-> [columns |-> original,
                                rows |-> [i \in DOMAIN indices |-> [c \in DOMAIN original |->
                                  IF original[c] = "d3mIndex" THEN indices[i] ELSE 20 * i + c]]],
                  augment |-> [columns |-> augment,
                               rows |-> [i \in 1..2 |-> [c \in DOMAIN augment |-> 100 * i + c]]]]

-----------------------------------------------------------------------------
(* The profiler: columns with values of two kinds around the threshold of   *)
(* 2 %; latitudes and longitudes; clusters around the 5 % of their bounds.  *)

TypeColumn ==
  \E major, minor \in Kinds, n \in {1, 48, 49, 50}, m \in 0..2, empty \in 0..1,
     name \in {"plain", "id", "year", "lat", "lat long"}, few \in BOOLEAN :
    \E column \in {[name |-> name, distinct |-> IF few THEN 1 ELSE n,
                     count |-> [k \in Kinds |->
                                  (IF k = major THEN n ELSE 0) + (IF k = minor THEN m ELSE 0)
                                    + (IF k = "empty" THEN empty ELSE 0)]]} :
      input' = [of |-> "types", column |-> column, types |-> IdentifyTypes(column)]

CoordinateColumns ==
  {[name |-> <<s, "lat">>, types |-> t] : s \in {"a", "b"}, t \in {{}, {"latitude"}}}
    \cup {[name |-> <<s, "long">>, types |-> t] : s \in {"a", "b"}, t \in {{}, {"longitude"}}}
    \cup {[name |-> <<"c", "both">>, types |-> {"latitude", "longitude"}]}
PairColumns ==
  \E columns \in UpTo(CoordinateColumns, 3) :
    \E annotated \in SUBSET {columns[i].name : i \in DOMAIN columns} :
      input' = [of |-> "pairs", columns |->
                  [i \in DOMAIN columns |->
                     [name |-> columns[i].name, types |-> columns[i].types,
                      annotated |-> IF columns[i].name \in annotated THEN "b" ELSE "none"]]]

(* Whole files: 1 or 5 rows, of which one may lack a value; columns of each *)
(* kind, two by two; coordinates, three by three, in different rows.        *)
ColumnLike(name, kind, n, missing, located, usable) ==
  LET values == [name |-> name[2], distinct |-> n - missing,
                 count |-> [k \in Kinds |-> (IF k = kind THEN n - missing ELSE 0)
                                                     + (IF k = "empty" THEN missing ELSE 0)]]
  IN [name |-> name, filled |-> n - missing, located |-> located, wide |-> located > 0,
      usable |-> usable]
       @@ IdentifyTypes(values)
OutOfRange == {"number", "real", "point", "namedPoint", "commaPoint"}
PlainColumns ==
  [n \in {1, 5} |->
     {ColumnLike(<<"p", "plain">>, kind, n, m, n - 1, 1..(n - m)) : kind \in Kinds \ {"empty"}, m \in {0, 1}}
       \cup {ColumnLike(<<"p", "plain">>, kind, n, 0, n - 1, {}) : kind \in OutOfRange}
       \cup {ColumnLike(<<"p", "plain">>, "sentence", n, 0, l, {}) : l \in 0..n}]
StemColumns ==
  [n \in {1, 5} |->
     {ColumnLike(<<stem, word>>, "coordinate", n, 0, 0, usable) :
        word \in {"lat", "long", "lat long"}, stem \in {"a", "b"},
        usable \in IF n = 1 THEN {{}, {1}} ELSE {{1, 2}, {2, 3}, 1..n}}]
ProcessFiles ==
  \E n \in {0, 1, 5}, sample \in {<<FALSE, 0>>, <<TRUE, 0>>, <<TRUE, 2>>} :
    \E columns \in IF n = 0 THEN UpTo(PlainColumns[1], 1)
                   ELSE OneTo(PlainColumns[n], 2) \cup OneTo(StemColumns[n], 3) :
      input' = [of |-> "process", header |-> columns # <<>>, big |-> sample[1],
                dropped |-> sample[2], rows |-> n, columns |-> columns]

(* Identifiers with "_", letters, digits, and characters that have one, two *)
(* or four hexadecimal digits; some have the same name or break another.    *)
NameFiles ==
  \E id \in UpTo({95, 65, 50, 32, 233, 10, 8217}, 4) : input' = [of |-> "identifier", id |-> id]
Identifiers == {<<97>>, <<95, 97>>, <<32>>, <<97, 10>>, <<8217>>, <<32, 49, 57>>}
ExportIndex ==
  \E ids \in {s \in OneTo(Identifiers, 2) : IsInjective(s)}, old \in SUBSET {<<97>>, <<98>>, <<32>>} :
    \E sketches \in SUBSET [id : ToSet(ids), column : {"c1", "c2"}] :
      input' = [of |-> "export", datasets |-> [i \in DOMAIN ids |-> [id |-> ids[i], document |-> i]],
                sketches |-> sketches, index |-> [id \in old |-> 0]]
(* Commits 1, 2 and 3 follow each other; 4 is on a branch from 1.           *)
Ancestors == 1 :> {1} @@ 2 :> {1, 2} @@ 3 :> {1, 2, 3} @@ 4 :> {1, 4}
Documents ==
  LET document(fields, version) == [f \in {"name", "materialize", "columns", "version"} \cup DOMAIN fields |->
        CASE f \in DOMAIN fields -> fields[f] [] f = "version" -> version [] OTHER -> "x"]
  IN {document(fields, version) :
        fields \in {<<>>, "source" :> "s", "description" :> "", "source" :> "s" @@ "date" :> "d",
                    "description" :> "t" @@ "manual_annotations" :> "m"},
        version \in 1..4}
ResendDatasets ==
  \E ids \in {{<<97>>}, {<<95, 97>>, <<32>>}, {<<97, 10>>, <<97>>}}, version, now \in 1..4 :
    \E index \in [ids -> Documents] :
      input' = [of |-> "resend", index |-> index, version |-> version, now |-> now]
RangeNumbers ==
  \E sizes \in OneTo({1, 2, 3, 5, 19, 20, 21, 40, 100}, 3) : input' = [of |-> "numbers", sizes |-> sizes]
RangePoints ==
  \E points \in UpTo(({-10, 0, 10} \X {-10, 0, 10}) \cup {<<10, 200>>, <<100, 10>>}, 3) :
    \E labels \in [DOMAIN points -> 1..Len(points)] :
      input' = [of |-> "points", points |-> points, labels |-> labels]
SplitName == \E name \in UpTo({"_", "1", "a", "A"}, 5) : input' = [of |-> "name", name |-> name]
TruncateString ==
  \E length \in 0..11 : \E spaces \in SUBSET (0..(length - 1)) :
    input' = [of |-> "string", length |-> length, spaces |-> spaces]

-----------------------------------------------------------------------------
(* Searches.                                                                *)

(* The West of the second area is East of its East.                         *)
KnownAreas == [area \in {1, 2} |-> IF area = 1 THEN <<0, 1, 0, 1>> ELSE <<5, 4, 0, 1>>]
Fields == {Absent, Invalid, 1}
Variables ==
  [type : {"temporal"}, start : {Absent, Invalid, 0, 2, 5},
   end : {Absent, Invalid, -1, 2, 5}, granularity : Fields]
    \cup [type : {"geospatial"}, area : Fields \cup {2, 3}, bounds : [1..4 -> {Absent, Invalid, Whole, 0, 1}]]
    \cup [type : {"tabular"}, columns : SUBSET {Invalid, 1, 2}]
    \cup [type : {"none", "other"}]
Queries(variables) ==
  [keywords : Fields, source : Fields, types : {Absent}, augmentation : Fields,
   variables : variables]
ParseQueries ==
  \E query \in Queries({<<v>> : v \in Variables}) : input' = [of |-> "query", query |-> query]
AnswerSearches ==
  \E query \in {<<>>} \cup {<<q>> : q \in Queries({<<>>, <<[type |-> "tabular", columns |-> {1}]>>,
                              <<[type |-> "temporal", start |-> 0, end |-> 2, granularity |-> Absent]>>})},
     content \in {"json", "form", "csv", "other"},
     data \in {Absent, 1}, id, profile \in {Absent, Unusable, 1} :
    /\ content = "json" => data = Absent /\ id = Absent /\ profile = Absent
    /\ content = "csv" => query = <<>> /\ data = 1 /\ id = Absent /\ profile = Absent
    /\ input' = [of |-> "request", content |-> content, query |-> query,
                 data |-> data, id |-> id, profile |-> profile]
(* Two datasets of any kind, or up to five of which only joins can tell     *)
(* which are best.                                                          *)
SomeDatasets == [keywords : BOOLEAN, source : BOOLEAN, types : BOOLEAN, variables : BOOLEAN, part : {1}]
ManyDatasets == [keywords : BOOLEAN, source : {TRUE}, types : {TRUE}, variables : {TRUE}, part : {1, 2, 20}]
AskedDatasets == {{d, e} : d, e \in SomeDatasets} \cup UNION {kSubset(k, ManyDatasets) : k \in 3..5}
AskedQueries ==
  Queries({<<>>, <<[type |-> "temporal", start |-> 0, end |-> 2, granularity |-> Absent]>>})
    \cup [keywords : {1}, source : {1}, types : {1}, augmentation : {1}, variables : {<<>>}]
AskAugmentations ==
  \E query \in AskedQueries, datasets \in AskedDatasets, wanted \in SUBSET {"join", "union"} :
    input' = [of |-> "augmentations", query |-> query, datasets |-> datasets, wanted |-> wanted]
FindTexts ==
  \E results \in UpTo([dataset : {"d", "e"}, name : {"a", "b"}, score : {2, 30}], 2),
     names \in [{"d"} -> UpTo({"a", "b"}, 3)] \cup [{"d", "e"} -> UpTo({"a", "b"}, 2)],
     matching \in SUBSET {<<"d", "a">>, <<"e", "b">>}, passing \in SUBSET {"d", "e"} :
    /\ \A i, j \in DOMAIN results : i # j => <<results[i].dataset, results[i].name>>
                                            # <<results[j].dataset, results[j].name>>
    /\ input' = [of |-> "texts", results |-> results, names |-> names, matching |-> matching,
                 passing |-> passing]
MixResults ==
  \E j, u \in 0..6 : input' = [of |-> "results", joins |-> [i \in 1..j |-> i],
                               unions |-> [i \in 1..u |-> 10 + i]]

(* Ranges of a profile do not overlap, its areas may.                       *)
Intervals == {r \in (0..4) \X (0..4) : r[1] <= r[2]}
RangeLists == {l \in OneTo(Intervals, 2) : \A i, j \in DOMAIN l : i < j => l[i][2] < l[j][1]}
ScoreRanges ==
  \E ranges, document \in RangeLists :
    input' = [of |-> "score", ranges |-> ranges, document |-> document]
Envelopes == {Envelope(x[1], x[2], y[1], y[2]) :
                x, y \in {r \in (0..2) \X (0..2) : r[1] < r[2]}}
ScoreAreas ==
  \E ranges, document \in OneTo(Envelopes, 2) :
    input' = [of |-> "areas", ranges |-> ranges, document |-> document]

(* Only text without dates has a sketch; only numbers and dates have ranges.*)
ProfileColumns ==
  {c \in [name : {"d3mIndex", "a"}, structural : {"integer", "text"}, semantic : SUBSET {"id", "datetime"},
          ranges : {<<>>, <<<<0, 1>>>>}, lazo : BOOLEAN, resolution : {"none"}] :
     /\ c.lazo => c.structural = "text" /\ "datetime" \notin c.semantic
     /\ c.ranges # <<>> => c.structural = "integer" \/ "datetime" \in c.semantic}
SomeBoxes == {<<Envelope(0, 1, 0, 1)>>}
CoverColumns ==
  \E columns \in [1..2 -> ProfileColumns], filter \in SUBSET (1..2),
     spatial \in {<<>>} \cup [{<<2>>} -> SomeBoxes] \cup [{<<1, 2>>} -> SomeBoxes] :
    input' = [of |-> "coverage", filter |-> filter,
              profile |-> [columns |-> columns, spatial |-> spatial]]
ResolutionNames == {"none"} \cup ToSet(Resolutions)
MakeTasks ==
  \E resolution \in ResolutionNames,
     hits \in UpTo([companion : {<<1>>, <<1, 2>>}, score : 1..2, dataset : {"x", "y"}, indexes : {<<1>>},
                    resolution : ResolutionNames], 2) :
    input' = [of |-> "tasks", hits |-> hits,
              profile |-> [columns |-> <<[resolution |-> resolution], [resolution |-> "none"]>>,
                           spatial |-> <<>>]]

Typed(names) ==
  {[i \in DOMAIN names |-> [name |-> names[i], structural |-> "text", semantic |-> types[i]]] :
     types \in [DOMAIN names -> {<<>>, <<"categorical", "datetime">>}]}
UnionEntries == [type : {"text", "categorical", "datetime"}, name : {"a", "b"}]
FindUnions ==
  \E columns \in UNION {Typed(names) : names \in {<<"b", "d3mIndex", "a">>, <<"a", "a", "b">>}},
     other \in UNION {Typed(names) : names \in {<<"c", "d">>, <<"c", "d", "c">>}},
     similarity \in [{"a", "b"} \X {"c", "d"} -> 0..Same], filter \in {{}, {1, 3}},
     relevance \in {[e \in UnionEntries |-> 1], [e \in UnionEntries |-> IF e.name = "a" THEN 3 ELSE 2]} :
    input' = [of |-> "unions", columns |-> columns, other |-> other,
              similarity |-> similarity, filter |-> filter, relevance |-> relevance]

-----------------------------------------------------------------------------
Next ==
  /\ input = None /\ UNCHANGED family
  /\ \/ family = "formats" /\ (ConvertFile \/ IndexFile \/ DescribeFile)
     \/ family = "services" /\ (ResolveAddresses \/ DownloadPages \/ AverageDates \/ MakeYears
                                 \/ DiscoverSeries \/ SplitIndicators \/ IndicatorSources)
     \/ family = "requests" /\ (OpenSession \/ DownloadFile \/ UploadFile)
     \/ family = "joins" /\ (JoinKeys \/ JoinDates)
     \/ family = "unions" /\ UnionTables
     \/ family = "types" /\ (TypeColumn \/ PairColumns)
     \/ family = "profiles" /\ (ProcessFiles \/ RangeNumbers \/ RangePoints \/ SplitName \/ TruncateString)
     \/ family = "scripts" /\ (NameFiles \/ ExportIndex \/ ResendDatasets)
     \/ family = "queries" /\ (ParseQueries \/ AnswerSearches \/ MixResults \/ AskAugmentations)
     \/ family = "searches" /\ (ScoreRanges \/ ScoreAreas \/ CoverColumns \/ MakeTasks \/ FindUnions
                                 \/ FindTexts)
Spec == Init /\ [][Next]_<<family, input>>

-----------------------------------------------------------------------------
(* The format that a session asks for is that of its results, a link leads  *)
(* to what was attached, and an upload is whole or refused; the rows of a   *)
(* D3M file get an index wherever the buffer ends, and its description has  *)
(* the columns of the file.                                                 *)
RequestsServed ==
  /\ input.of = "session" => SessionKeepsFormat(input)
  /\ input.of = "download" => LinksLead(input.index, input.task, input.arguments)
  /\ input.of = "upload" => UploadsWhole(input)
  /\ input.of = "index" => RowsNumbered(input.lines, input.hasIndex, input.flushes)
  /\ input.of = "document" => DocumentMatches(input.columns, input.needIndex)

(* What a service answers in batches, pages and datasets is complete, and   *)
(* nothing is there twice, whichever requests fail; a batch of addresses    *)
(* that was split is the exception.                                         *)
ResultsComplete ==
  /\ input.of = "addresses" => LocationsCounted(input.array, input.server)
  /\ input.of = "pages" => PagesComplete(input.data, input.answers)
  /\ input.of = "averages" => DatesAveraged(input.data)
  /\ input.of = "series" => SeriesRecorded(input.stations)
  /\ input.of = "indicators" => IndicatorsKept(input.variables)
  /\ input.of = "years" => YearsCovered(input.start, input.end, input.years)

(* A dataset is the same table whichever way it is downloaded, for the      *)
(* conversions that were detected when it was profiled; the index can be    *)
(* exported and imported, and its datasets sent again.  A join gives each   *)
(* row the aggregates of all that it matches, however the data is cut into  *)
(* chunks; a union appends each row with its values in their columns, where *)
(* names do not change.                                                     *)
TablesKept ==
  /\ input.of = "file" => Files!SameCsv(input.raw, input.guess)
  /\ input.of = "identifier" => NamesFoundAgain(input.id)
  /\ input.of = "export" => ImportRestores(input.datasets, input.sketches, input.index)
  /\ input.of = "resend" => ResendAgrees(input.index, input.version, input.now, Ancestors)
  /\ input.of = "join" => JoinExact(input.original, input.augment, input.chunks, input.task)
  /\ input.of = "union" => UnionExact(input.original, input.augment, input.pairs)

(* The documented meaning of the requested columns of a join.               *)
RequestedColumnsKept == input.of = "join" => RequestedKept(input.augment, input.task)

(* The parts of a profile agree: types with values, coordinates with their  *)
(* pairs, ranges with what they cover.                                      *)
ProfilesCoherent ==
  /\ input.of = "types" => TypesCoherent(input.column, input.types)
  /\ input.of = "pairs" => PairsSound(input.columns)
  /\ input.of = "process" => DocumentServes(input) /\ MigrationAgrees(input)
  /\ input.of = "numbers" => RangesCover(input.sizes)
  /\ input.of = "points" => /\ AreasCover(input.points, input.labels)
                            /\ NullsLeftOut(input.points, input.labels)
  /\ input.of = "name" => WordsKept(input.name)
  /\ input.of = "string" => StringFits(input.length, input.spaces)

(* A search asks for what the query and the data say, and each result is a  *)
(* task that can be done: its score is a part of what it can be, the best   *)
(* are returned, its columns are paired one-to-one and its resolution is    *)
(* that of the augmentation.                                                *)
SearchesSound ==
  /\ input.of = "query" => FiltersSound(input.query, KnownAreas)
  /\ input.of = "request" => AnswersSound(input, KnownAreas)
  /\ input.of = "augmentations" => AugmentationsPass(input.query, KnownAreas, input.datasets, input.wanted)
  /\ input.of = "texts" => TextualSound(input.results, input.names, input.matching, input.passing)
  /\ input.of = "results" => MixedFairly(input.joins, input.unions)
  /\ input.of = "score" => ScoresSound(input.ranges, input.document)
  /\ input.of = "areas" => AreaScoresSound(input.ranges, input.document)
  /\ input.of = "coverage" => CoverageSound(input.profile, input.filter)
  /\ input.of = "tasks" => TasksSound(input.profile, input.hits)
  /\ input.of = "unions" => UnionSound(input.columns, input.filter, input.other, input.similarity, input.relevance)
=============================================================================
