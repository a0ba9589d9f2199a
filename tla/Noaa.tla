--------------------------------- MODULE Noaa ---------------------------------
(***************************************************************************)
(* The climate data of NOAA: the pages of its API and the average of the   *)
(* stations per date (lib_materialize/datamart_materialize/noaa.py), and   *)
(* the datasets that the discoverer makes of a range of years              *)
(* (discovery/noaa/noaa_discovery/noaa_discovery.py).                      *)
(***************************************************************************)
EXTENDS Integers, Sequences, SequencesExt, FiniteSetsExt

CONSTANTS
  PageSize,     \* the `limit` parameter
  MaxFailed     \* failures in a row after which get_all() raises

-----------------------------------------------------------------------------
(* get_all().  `data` is what the API has; `answers` is how it answers each *)
(* request, as [kind, count]: "fails" (HTTPError), "breaks" (no connection, *)
(* a timeout, or what is not JSON: any other exception), "empty" (no data), *)
(* or a "page" with the `count` of results that it announces.               *)
Page(data, offset) == SubSeq(data, offset + 1, Min({offset + PageSize, Len(data)}))

(* Mutant: a request that fails is skipped with its page.                   *)
RequestSkips(state, answer, data) ==
  CASE state.status # "reading" -> state
    [] state.status = "reading" /\ answer.kind = "fails" ->
         [state EXCEPT !.failed = @ + 1, !.offset = @ + PageSize]
    [] OTHER ->
         LET read == state.results \o Page(data, state.offset)
         IN [results |-> read, failed |-> 0, offset |-> state.offset + PageSize,
             status |-> IF state.offset + PageSize >= answer.count THEN "done" ELSE "reading"]
Request(state, answer, data) ==
  CASE state.status # "reading" -> state
    [] state.status = "reading" /\ answer.kind = "fails" ->
         [state EXCEPT !.failed = @ + 1,
                       !.status = IF state.failed + 1 = MaxFailed THEN "raised" ELSE @]
    [] state.status = "reading" /\ answer.kind = "breaks" -> [state EXCEPT !.status = "raised"]
    [] state.status = "reading" /\ answer.kind = "empty" -> [state EXCEPT !.status = "done"]
    [] state.status = "reading" /\ answer.kind = "page" ->
         LET read == state.results \o Page(data, state.offset)
         IN [results |-> read, failed |-> 0, offset |-> Len(read),
             status |-> IF Len(read) >= answer.count THEN "done" ELSE "reading"]
GetAll(data, answers) ==
  FoldLeft(LAMBDA state, answer : Request(state, answer, data),
           [results |-> <<>>, failed |-> 0, offset |-> 0, status |-> "reading"], answers)

-----------------------------------------------------------------------------
(* NoaaMaterializer.download(): a row per date, with the sum and the number *)
(* of the values it is the average of.  sorted() keeps the order of the     *)
(* values of a date.                                                        *)
Earlier(data, i, j) ==
  data[i].date < data[j].date \/ (data[i].date = data[j].date /\ i < j)
SortedByDate(data) ==
  CHOOSE order \in [DOMAIN data -> DOMAIN data] :
    \A i, j \in DOMAIN data : i < j => Earlier(data, order[i], order[j])

Row(date, values) == [date |-> date, sum |-> FoldLeft(+, 0, values), count |-> Len(values)]
Rows(state) ==
  IF state.time = 0 THEN <<>> ELSE Append(state.rows, Row(state.time, state.values))
ReadRow(state, row) ==
  IF row.date = state.time THEN [state EXCEPT !.values = Append(@, row.value)]
  ELSE [time |-> row.date, values |-> <<row.value>>, rows |-> Rows(state)]
Averages(data) ==
  Rows(FoldLeft(LAMBDA state, i : ReadRow(state, data[i]),
                [time |-> 0, values |-> <<>>, rows |-> <<>>], SortedByDate(data)))

-----------------------------------------------------------------------------
(* iterate_years(): the first and the last year of each dataset.            *)
IterateYears(start, end, years) ==
  LET first == start - (start % years)
      last == (end + years - 1) - (end % years)
  IN {<<i, i + years - 1>> : i \in {k \in first..last : (k - first) % years = 0}}

(* discover_data_range() and discover_data(), whose stations are [mindate,  *)
(* maxdate]: without any, or when the API fails, min() or get_all() raises  *)
(* and main_loop() goes on with the next city.                              *)
YearsOf(dataset) == IF dataset = "GSOM" THEN 10 ELSE 1
DiscoverDataRange(series, start, end) ==
  {[id |-> Append(series, years[1]), series |-> series, start |-> years[1], end |-> years[2]] :
     years \in IterateYears(start, end, YearsOf(series[1]))}
DiscoverData(series, stations) ==
  IF stations = {} THEN {}
  ELSE DiscoverDataRange(series, Min({s.mindate : s \in stations}), Max({s.maxdate : s \in stations}))
(* A series is <<dataset, datatype, city>>.                                 *)
Recorded(stations) ==
  UNION {DiscoverData(series, stations[series]) : series \in DOMAIN stations}

-----------------------------------------------------------------------------
(* A download that ends has all the data, in order and once, unless the API *)
(* says that there is nothing, or announces less than it has; it raises     *)
(* after MaxFailed failures in a row, or at once for any other exception,   *)
(* and for nothing else.                                                    *)
PagesComplete(data, answers) ==
  LET result == GetAll(data, answers)
      asked == FoldLeft(LAMBDA n, a : IF a.kind = "fails" THEN n + 1 ELSE 0, 0, answers)
      misled == \E i \in DOMAIN answers :
                  answers[i].kind = "empty" \/ (answers[i].kind = "page" /\ answers[i].count < Len(data))
      broken == \E i \in DOMAIN answers : answers[i].kind = "breaks"
  IN /\ IsPrefix(result.results, data)
     /\ result.status = "done" => result.results = data \/ misled
     /\ result.status = "reading" => asked < MaxFailed /\ ~broken
     /\ result.status = "raised" =>
          \/ broken
          \/ \E i \in DOMAIN answers : \A j \in 0..(MaxFailed - 1) :
               i + j \in DOMAIN answers /\ answers[i + j].kind = "fails"

(* Each date has one row, and no value is left out.                         *)
DatesAveraged(data) ==
  LET rows == Averages(data)
      of(date) == {i \in DOMAIN data : data[i].date = date}
  IN /\ \A i, j \in DOMAIN rows : i < j => rows[i].date < rows[j].date
     /\ {rows[i].date : i \in DOMAIN rows} = {data[i].date : i \in DOMAIN data}
     /\ \A i \in DOMAIN rows :
          /\ rows[i].count = Cardinality(of(rows[i].date))
          /\ rows[i].sum = MapThenSumSet(LAMBDA k : data[k].value, of(rows[i].date))

(* The datasets cover the years of the stations, without an overlap.        *)
YearsCovered(start, end, years) ==
  LET ranges == IterateYears(start, end, years)
  IN \A y \in start..end : Cardinality({r \in ranges : r[1] <= y /\ y <= r[2]}) = 1

(* A pass records each year of each series that has stations once, under an *)
(* identifier of its own, whatever happened to the others.                  *)
SeriesRecorded(stations) ==
  LET recorded == Recorded(stations)
  IN /\ \A a, b \in recorded : a.id = b.id => a = b
     /\ \A series \in DOMAIN stations : \A s \in stations[series] :
          \A y \in s.mindate..s.maxdate :
            Cardinality({r \in recorded : r.series = series /\ r.start <= y /\ y <= r.end}) = 1
     /\ \A r \in recorded : stations[r.series] # {}
=============================================================================
