----------------------------- MODULE ColumnTypes -----------------------------
(***************************************************************************)
(* The types of a column (lib_profiler/datamart_profiler/profile_types.py):*)
(* how many values match the regular expressions decides on a structural   *)
(* type; semantic types, and a second look at dates, follow from it.       *)
(*                                                                         *)
(* A column has a name, and the number of its values of each kind.  A kind *)
(* stands for all the values that the tests treat alike.                   *)
(***************************************************************************)
EXTENDS Naturals, FiniteSets, FiniteSetsExt

(* The first regular expression of regular_exp_count() that matches.  The   *)
(* integers are 0, 1, those of 2..90 ("degree"), 91..180 ("meridian"),      *)
(* -90..-1 ("south") and -180..-91 ("west"), other years, dates, and others.*)
IntegerKinds == {"zero", "one", "degree", "meridian", "south", "west", "year", "yearMonthDay", "number"}
Kinds ==
  IntegerKinds \cup
  {"empty", "coordinate", "longitude", "real", "point", "namedPoint", "commaPoint", "polygon",
   "sentence", "yes", "date", "area", "word"}
Pattern(kind) ==
  CASE kind = "empty" -> "empty"
    [] kind \in IntegerKinds -> "int"
    [] kind \in {"coordinate", "longitude", "real"} -> "float"
    [] kind = "point" -> "point"
    [] kind = "namedPoint" -> "geo_combined"
    [] kind = "commaPoint" -> "other_point"
    [] kind = "polygon" -> "polygon"
    [] kind = "sentence" -> "text"
    [] kind \in {"yes", "date", "area", "word"} -> "none"
Booleans == {"zero", "one", "yes"}                \* counted besides the pattern
LatitudeKinds == {"coordinate", "zero", "one", "degree", "south"}    \* a number from -90 to 90
LongitudeKinds == LatitudeKinds \cup {"longitude", "meridian", "west"}
DateKinds == {"date", "yearMonthDay"}             \* what parse_date() recognises
Years == {"year", "one", "degree", "meridian"}    \* what datetime() takes as a year
AreaKinds == {"area"}                                 \* what geo_data resolves

Total(column) == MapThenSumSet(LAMBDA k : column.count[k], Kinds)
CountKinds(column, kinds) == MapThenSumSet(LAMBDA k : column.count[k], kinds)
Count(column, pattern) == CountKinds(column, {k \in Kinds : Pattern(k) = pattern})
NonEmpty(column) == Total(column) - Count(column, "empty")

(* max(1, (1 - MAX_UNCLEAN) * ...).                                         *)
Enough(n, column) == n >= 1 /\ 100 * n >= 98 * NonEmpty(column)

(* identify_structural_type().                                              *)
StructuralType(column) ==
  LET enough(pattern) == Enough(Count(column, pattern), column)
      numbers == Count(column, "int") + Count(column, "float")
  IN IF NonEmpty(column) = 0 THEN "missing"
     ELSE IF enough("int") THEN "integer"
     ELSE IF Enough(numbers, column) THEN "real"
     ELSE IF \E p \in {"point", "geo_combined", "other_point"} : enough(p) THEN "point"
     ELSE IF enough("polygon") THEN "polygon"
     ELSE "text"

(* unclean_values_ratio(), as the number of values.                         *)
Unclean(column, type) ==
  LET clean ==
        CASE type = "integer" -> Count(column, "int")
          [] type = "real" -> Count(column, "int") + Count(column, "float")
          [] type = "point" -> Count(column, "point")
          [] type = "polygon" -> Count(column, "polygon")
          [] type = "boolean" -> CountKinds(column, Booleans)
          [] OTHER -> NonEmpty(column)
  IN NonEmpty(column) - clean

(* identify_types() without manual annotations, up to the dates: the types  *)
(* of what is text, and of an integer that is an identifier or a year.      *)
IsBoolean(column) == Enough(CountKinds(column, Booleans), column)
IsArea(column) == 10 * CountKinds(column, AreaKinds) > 7 * Total(column)
TextTypes(column) ==
  IF ~IsArea(column) /\ Enough(Count(column, "text"), column) THEN {"text"}
  ELSE (IF IsArea(column) THEN {"admin"} ELSE {}) \cup
       (IF IsArea(column) \/ IsBoolean(column) \/ 10 * column.distinct <= NonEmpty(column)
        THEN {"categorical"} ELSE {})
IsYear(column) ==
  column.name = "year" /\ Enough(CountKinds(column, Years), column)
IntegerTypes(column) ==
  (IF column.name = "id" THEN {"id"} ELSE {}) \cup
  (IF IsYear(column) THEN {"datetime"} ELSE {})
RealTypes(column) ==
  (IF column.name \in {"lat", "lat long"} /\ Enough(CountKinds(column, LatitudeKinds), column)
   THEN {"latitude"} ELSE {}) \cup
  (IF column.name \in {"long", "lat long"} /\ Enough(CountKinds(column, LongitudeKinds), column)
   THEN {"longitude"} ELSE {})
IsDate(column) == Enough(CountKinds(column, DateKinds), column)

SemanticTypes(column, structural) ==
  (IF IsBoolean(column) THEN {"boolean"} ELSE {}) \cup
  (CASE structural = "text" -> TextTypes(column)
     [] structural = "integer" -> IntegerTypes(column)
     [] structural = "real" -> RealTypes(column)
     [] OTHER -> {}) \cup
  (IF IsDate(column) THEN {"datetime"} ELSE {})

(* A column of integers that are dates is a text from then on.              *)
Identified(column, structural, semantic) ==
  [structural |-> IF structural = "integer" /\ "datetime" \in semantic THEN "text" ELSE structural,
   semantic |-> semantic,
   unclean |-> Unclean(column, IF IsBoolean(column) THEN "boolean" ELSE structural)]
IdentifyStructural(column, structural) ==
  Identified(column, structural, SemanticTypes(column, structural))
IdentifyTypes(column) == IdentifyStructural(column, StructuralType(column))

(* determine_dataset_type(): the first of these that a column has.  Points  *)
(* and polygons are structural types, which it looks for among the others.  *)
DatasetType(types) ==
  LET of(S) == types.semantic \cap S # {}
  IN CASE of({"latitude", "longitude", "admin", "point", "polygon"}) -> "spatial"
       [] ~of({"latitude", "longitude", "admin", "point", "polygon"}) /\ of({"datetime"}) -> "temporal"
       [] ~of({"latitude", "longitude", "admin", "point", "polygon", "datetime"})
            /\ of({"categorical"}) -> "categorical"
       [] OTHER -> IF types.structural \in {"integer", "real"} THEN "numerical" ELSE "none"

-----------------------------------------------------------------------------
(* What the types promise to the profiler, the search and the D3M writer.   *)
(* A type other than text tolerates 2 % of other values; only the points    *)
(* that are not written as POINT (x y) are all counted as unclean.  A       *)
(* column of dates is no column of integers, a latitude or a longitude is a *)
(* number, and a free text has no categories.  A dataset has a type unless  *)
(* its columns are free texts or, although they are spatial, points or      *)
(* polygons.                                                                *)
TypesCoherent(column, types) ==
  LET tolerant == \/ types.structural \in {"integer", "real", "polygon"}
                  \/ types.structural = "point" /\ Enough(Count(column, "point"), column)
  IN /\ tolerant => 100 * types.unclean <= 2 * NonEmpty(column)
     /\ "datetime" \in types.semantic => types.structural # "integer"
     /\ types.semantic \cap {"latitude", "longitude"} # {} => types.structural = "real"
     /\ "text" \in types.semantic => "categorical" \notin types.semantic
     /\ DatasetType(types) = "none" =>
          /\ types.structural \in {"missing", "point", "polygon", "text"}
          /\ types.semantic \subseteq {"text", "boolean"}
     /\ (types.structural = "missing") = (NonEmpty(column) = 0)
=============================================================================
