------------------------------- MODULE Formats -------------------------------
(***************************************************************************)
(* File formats.  The profiler detects the format of a dataset, converts   *)
(* it to CSV step by step and records the steps                            *)
(* (datamart_core/materialize.py); whoever downloads the dataset later     *)
(* replays them by stacking converters on a writer                         *)
(* (lib_materialize/datamart_materialize/__init__.py).                     *)
(*                                                                         *)
(* A text file has a separator and a table, which is what it reads as with *)
(* that separator.  A cell is a sequence of words.                         *)
(***************************************************************************)
EXTENDS Naturals, Sequences, SequencesExt

CONSTANT Dates    \* the cells that parse_date() recognises

Failed == [kind |-> "failed"]     \* an exception
Text(separator, table) == [kind |-> "text", sep |-> separator, table |-> table]
Csv(table) == Text(",", table)

-----------------------------------------------------------------------------
(* The converters.                                                          *)

(* csv.reader() with another separator: a line is a single cell.            *)
Parsed(file, separator) ==
  LET line(row) == IF file.sep = separator THEN row ELSE <<FlattenSeq(row)>>
      rows == file.table.rows
  IN [header |-> line(file.table.header), rows |-> [r \in DOMAIN rows |-> line(rows[r])]]

(* row[i] raises IndexError on a row, or a header, that is too short.       *)
Pivoted(table, exceptColumns) ==
  LET dates == SelectSeq([i \in DOMAIN table.header |-> i],
                         LAMBDA i : ~Contains(exceptColumns, i))
      carried(row) == [k \in DOMAIN exceptColumns |-> row[exceptColumns[k]]]
      melted(row) ==
        [k \in DOMAIN dates |-> carried(row) \o <<table.header[dates[k]], row[dates[k]]>>]
  IN [header |-> carried(table.header) \o << <<"date">>, <<"value">> >>,
      rows |-> FlattenSeq([r \in DOMAIN table.rows |-> melted(table.rows[r])])]

Convert(file, converter) ==
  CASE file.kind = "failed" -> Failed
    [] converter.identifier = "xls" ->      \* more than one sheet raises ValueError
         IF file.kind = "xls" /\ file.sheets = 1 THEN Csv(file.table) ELSE Failed
    [] converter.identifier \in {"stata", "spss"} ->
         IF file.kind = converter.identifier THEN Csv(file.table) ELSE Failed
    [] converter.identifier = "tsv" ->
         IF file.kind = "text" THEN Csv(Parsed(file, converter.separator)) ELSE Failed
    [] converter.identifier = "pivot" ->
         IF file.kind # "text" THEN Failed
         ELSE LET table == Parsed(file, ",")
              IN IF /\ ToSet(converter.exceptColumns) \subseteq DOMAIN table.header
                    /\ \A r \in DOMAIN table.rows : Len(table.rows[r]) >= Len(table.header)
                 THEN Csv(Pivoted(table, converter.exceptColumns)) ELSE Failed

-----------------------------------------------------------------------------
(* detect_format_convert_to_csv().                                          *)

(* A conversion, and its record in `materialize`.                           *)
Step(state, converter) ==
  [file |-> Convert(state.file, converter), convert |-> Append(state.convert, converter)]

DetectBinary(state, kind) ==
  IF state.file.kind = kind THEN Step(state, [identifier |-> kind]) ELSE state

(* The Sniffer's guess may be wrong; what is not text makes it raise, which *)
(* counts as a comma.                                                       *)
DetectSeparator(state, guess) ==
  IF state.file.kind = "text" /\ guess # ","
  THEN Step(state, [identifier |-> "tsv", separator |-> guess]) ELSE state

(* At most two columns, or 20 %, are not dates.                             *)
DetectPivot(state) ==
  IF state.file.kind # "text" THEN [state EXCEPT !.file = Failed]
  ELSE
    LET header == Parsed(state.file, ",").header
        nonMatches == SelectSeq([i \in DOMAIN header |-> i], LAMBDA i : header[i] \notin Dates)
    IN IF Len(header) >= 3 /\ (Len(nonMatches) <= 2 \/ 5 * Len(nonMatches) <= Len(header))
       THEN Step(state, [identifier |-> "pivot", exceptColumns |-> nonMatches])
       ELSE state

Detect(raw, guess) ==
  LET xls == DetectBinary([file |-> raw, convert |-> <<>>], "xls")
      stata == DetectBinary(xls, "stata")
      spss == DetectBinary(stata, "spss")
  IN DetectPivot(DetectSeparator(spss, guess))

-----------------------------------------------------------------------------
(* download().                                                              *)

(* Each converter wraps the writer; the outermost is written to.            *)
Stack(convert) == FoldLeft(LAMBDA writer, c : <<c>> \o writer, <<>>, Reverse(convert))
Write(file, writer) == FoldLeft(Convert, file, writer)

(* How a dataset is had: from its URL, with its materializer, as a data     *)
(* frame, from another server when there is no materializer here or it is   *)
(* not configured, from another server by its identifier alone; or from     *)
(* /datasets, where get_dataset() finds it before it comes to download().   *)
(* Another server sends what it gets from get_dataset(): CSV.  finish() of  *)
(* a converter does not call that of the writer it wraps: no data frame.    *)
Ways == {"direct", "materializer", "pandas", "proxy", "identifier", "shared"}
Download(raw, csv, convert, way) ==
  CASE way \in {"direct", "materializer"} -> Write(raw, Stack(convert))
    [] way = "pandas" -> IF convert = <<>> THEN Write(raw, <<>>) ELSE Failed
    [] way = "proxy" -> Write(csv, Stack(convert))
    [] way = "identifier" -> csv
    [] way = "shared" -> raw

-----------------------------------------------------------------------------
(* Whoever downloads a dataset gets the table that was profiled.  Three     *)
(* ways do not agree with the recorded conversions: a data frame is not     *)
(* returned, what another server sends is converted again, and what is in   *)
(* /datasets is not converted.                                              *)
SameCsv(raw, guess) ==
  LET detected == Detect(raw, guess)
  IN detected.file.kind # "failed" =>
       \A way \in Ways :
         \/ Download(raw, detected.file, detected.convert, way) = detected.file
         \/ way \in {"pandas", "proxy", "shared"} /\ detected.convert # <<>>
=============================================================================
