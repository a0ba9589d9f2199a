---------------------------- MODULE ProcessDataset ----------------------------
(***************************************************************************)
(* process_dataset() (lib_profiler/datamart_profiler/core.py): what the    *)
(* index gets to know about a file, from the types of its columns          *)
(* (ColumnTypes), the pairs of its coordinates (Profile) and the addresses *)
(* that Nominatim resolved.                                                *)
(*                                                                         *)
(* A column has the `structural` and `semantic` types identified, a name   *)
(* as in Profile, `filled` many values, `located` many that Nominatim      *)
(* resolves, and areas that are `wide` enough.  The `usable` rows have a   *)
(* number that the index can hold; in a column of coordinates, one that is *)
(* not 0 and in range, in a column of points, a point in range.  A file    *)
(* has a `header` or is empty; when it is `big`, some of its rows may be   *)
(* `dropped`.                                                              *)
(***************************************************************************)
EXTENDS ColumnTypes, Profile

(* The loop over the columns, one column at a time.                         *)
IsTextual(column) == column.structural = "text" /\ "datetime" \notin column.semantic
IsNumber(column) == column.structural \in {"integer", "real"}
HasAddresses(column) ==
  /\ column.structural = "text" /\ "text" \in column.semantic
  /\ column.filled > 0 /\ 10 * column.located >= 8 * column.filled
TypesKept(column) ==
  column.semantic \cup (IF HasAddresses(column) THEN {"address"} ELSE {})
Coordinates == {"latitude", "longitude"}
Coverage(column) ==
  CASE IsNumber(column) /\ column.semantic \cap Coordinates = {} /\ column.usable # {} -> "numbers"
    [] ~IsNumber(column) /\ "datetime" \in column.semantic -> "dates"
    [] OTHER -> "none"

(* A categorical plot replaces that of numbers or dates; a textual one      *)
(* replaces nothing.                                                        *)
Plot(column) ==
  CASE "categorical" \in column.semantic -> "categorical"
    [] "categorical" \notin column.semantic /\ IsNumber(column) -> "numerical"
    [] "categorical" \notin column.semantic /\ Coverage(column) = "dates" -> "temporal"
    [] column.semantic \cap {"categorical", "datetime"} = {} /\ "text" \in column.semantic -> "text"
    [] OTHER -> "none"

(* columns_lat and columns_long, as Profile has them.                       *)
Located(columns) ==
  [i \in DOMAIN columns |-> [name |-> columns[i].name, annotated |-> "none",
                            types |-> columns[i].semantic \cap Coordinates]]
Missed(columns, i) ==
  (columns[i].semantic \cap Coordinates) \ Unmissed(Located(columns))[i]

(* The spatial coverage: pairs of which two rows at least have both, points,*)
(* addresses, and areas whose bounds together have an extent.  KMeans does  *)
(* not take a column of points of which none is in range.                   *)
FewBoth(columns, pair) ==
  Cardinality(columns[pair[1]].usable \cap columns[pair[2]].usable) <= 1
ProcessRaises(file) ==
  /\ file.header /\ file.rows > 0
  /\ \E column \in ToSet(file.columns) : column.structural = "point" /\ column.usable = {}
ResolvedCoverage(columns) ==
  LET pairs == {pair \in ToSet(Pairs(Located(columns))) : ~FewBoth(columns, pair)}
      single(P(_)) == {<<i>> : i \in {i \in DOMAIN columns : P(columns[i])}}
  IN [latlong |-> pairs,
      point |-> single(LAMBDA c : c.structural = "point"),
      address |-> single(HasAddresses),
      admin |-> single(LAMBDA c : "admin" \in c.semantic /\ c.wide)]
AreasOf(columns) == UNION {ResolvedCoverage(columns)[t] : t \in {"latlong", "point", "address", "admin"}}

DatasetTypes(columns) ==
  ({DatasetType(columns[i]) : i \in DOMAIN columns} \ {"none"})
    \cup (IF AreasOf(columns) # {} THEN {"spatial"} ELSE {})

(* A file that is sampled has its lines counted, with the header.           *)
CountedRows(file) == IF file.big THEN file.rows + file.dropped + 1 ELSE file.rows

Untyped(file) == [i \in DOMAIN file.columns |-> [typed |-> FALSE]]
Process(file) ==
  LET columns == file.columns
      early == file.rows = 0
  IN IF ~file.header
     THEN [nb_rows |-> 0, profiled |-> 0, columns |-> <<>>, types |-> {}, spatial |-> {}, sketches |-> {}]
     ELSE
       [nb_rows |-> CountedRows(file), profiled |-> file.rows,
        columns |->
          IF early THEN Untyped(file)
          ELSE [i \in DOMAIN columns |->
                  [typed |-> TRUE, structural |-> columns[i].structural,
                   semantic |-> TypesKept(columns[i]) \ Missed(columns, i),
                   coverage |-> Coverage(columns[i]), plot |-> Plot(columns[i])]],
        types |-> IF early THEN {} ELSE DatasetTypes(columns),
        spatial |-> IF early THEN {} ELSE AreasOf(columns),
        sketches |-> IF early THEN {} ELSE {i \in DOMAIN columns : IsTextual(columns[i])}]

(* The profiler deletes a dataset without rows.                             *)
IsIndexed(document) == document.nb_rows > 0

(* delete_dataset_from_lazo(): the columns whose sketches are removed.      *)
Forgotten(document) ==
  {i \in DOMAIN document.columns :
     /\ document.columns[i].typed /\ document.columns[i].structural = "text"
     /\ "datetime" \notin document.columns[i].semantic}

-----------------------------------------------------------------------------
(* What the searches and the scripts take for granted of a document, when   *)
(* there is one.  A dataset that is indexed has been profiled, unless the   *)
(* sample has no row.  A column that still is a coordinate is part of an    *)
(* area, unless at most one row has it with the other of its pair, a later  *)
(* latitude took its pair, or it was taken for a latitude and is called a   *)
(* longitude too; numbers have ranges unless they had been taken for a      *)
(* coordinate or the index can hold none, and dates have ranges.  What Lazo *)
(* has sketches of is what will be removed from it.  A dataset without      *)
(* types has nothing that can be searched by values.                        *)
Hidden(columns, i) ==
  /\ "latitude" \in columns[i].semantic
  /\ \E j \in DOMAIN columns :
       /\ j > i /\ columns[j].name[1] = columns[i].name[1]
       /\ "latitude" \in columns[j].semantic
DocumentServes(file) ==
  LET document == Process(file)
      columns == document.columns
  IN ~ProcessRaises(file) =>
     /\ \A i \in DOMAIN columns :
          IsIndexed(document) /\ ~columns[i].typed => document.profiled = 0 /\ file.big
     /\ document.profiled <= document.nb_rows
     /\ document.sketches = Forgotten(document)
     /\ \A i \in {i \in DOMAIN columns : columns[i].typed} :
          LET c == columns[i]
          IN /\ c.semantic \cap Coordinates # {} =>
                  \/ \E area \in document.spatial : i \in ToSet(area)
                  \/ Hidden(file.columns, i)
                  \/ \E pair \in ToSet(Pairs(Located(file.columns))) :
                       i \in ToSet(pair) /\ FewBoth(file.columns, pair)
                  \/ Coordinates \subseteq file.columns[i].semantic
             /\ c.structural \in {"integer", "real"} /\ c.coverage = "none" =>
                  file.columns[i].semantic \cap Coordinates # {} \/ file.columns[i].usable = {}
             /\ "datetime" \in c.semantic => c.coverage = "dates" /\ c.plot # "none"
             /\ "address" \in c.semantic => "spatial" \in document.types
             /\ document.types = {} =>
                  c.coverage = "none" /\ c.structural \in {"text", "missing", "polygon"}
=============================================================================
