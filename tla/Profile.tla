------------------------------- MODULE Profile -------------------------------
(***************************************************************************)
(* From the types of its columns to the profile of a dataset: latitudes    *)
(* and longitudes are paired, numbers and points get ranges, names become  *)
(* keywords (lib_profiler/datamart_profiler/core.py, spatial.py,           *)
(* numerical.py).                                                          *)
(*                                                                         *)
(* The name of a column is a pair: a stem, and the word that makes it a    *)
(* latitude or a longitude.  A column also has the `types` identified, and *)
(* the pair that the user gave to all columns of that name (`annotated`).  *)
(***************************************************************************)
EXTENDS Integers, Sequences, SequencesExt, FiniteSetsExt

CONSTANTS Ranges,     \* N_RANGES
          Limit,      \* the number of characters that truncate_string() keeps
          Window      \* how far from the limit it looks for a space

Columns(columns, type) ==
  SelectSeq([i \in DOMAIN columns |-> i], LAMBDA i : type \in columns[i].types)

(* A column that is both is taken as a latitude.                            *)
Latitudes(columns) == Columns(columns, "latitude")
Longitudes(columns) ==
  SelectSeq(Columns(columns, "longitude"), LAMBDA i : "latitude" \notin columns[i].types)

-----------------------------------------------------------------------------
(* pair_latlong_columns().                                                  *)

(* normalize_latlong_column_name().                                         *)
Stem(column) == IF column.annotated # "none" THEN column.annotated ELSE column.name[1]

(* normalized_lat: a later latitude replaces an earlier one.                *)
Normalized(columns) ==
  LET lats == ToSet(Latitudes(columns))
  IN [stem \in {Stem(columns[i]) : i \in lats} |->
        Max({i \in lats : Stem(columns[i]) = stem})]

(* Mutant: the latitude is kept for another longitude.                      *)
PairsWithoutPop(columns) ==
  LET matched == SelectSeq(Longitudes(columns),
                           LAMBDA i : Stem(columns[i]) \in DOMAIN Normalized(columns))
  IN [k \in DOMAIN matched |->
        <<Normalized(columns)[Stem(columns[matched[k]])], matched[k]>>]
(* A latitude is taken by the first longitude that has its stem.            *)
Pairs(columns) ==
  LET longs == Longitudes(columns)
      first(k) == \A j \in 1..(k - 1) : Stem(columns[longs[j]]) # Stem(columns[longs[k]])
      matched ==
        SelectSeq([k \in DOMAIN longs |-> k],
                  LAMBDA k : Stem(columns[longs[k]]) \in DOMAIN Normalized(columns) /\ first(k))
  IN [k \in DOMAIN matched |->
        <<Normalized(columns)[Stem(columns[longs[matched[k]]])], longs[matched[k]]>>]

(* missed_lat and missed_long are names.                                    *)
MissedLatitudes(columns) ==
  {columns[i].name : i \in {Normalized(columns)[s] : s \in DOMAIN Normalized(columns)}
                           \ {pair[1] : pair \in ToSet(Pairs(columns))}}
MissedLongitudes(columns) ==
  {columns[i].name : i \in ToSet(Longitudes(columns))
                           \ {pair[2] : pair \in ToSet(Pairs(columns))}}

(* list.remove() of a type that the column has not raises.                  *)
PairingRaises(columns) ==
  \E i \in DOMAIN columns :
    \/ columns[i].name \in MissedLatitudes(columns) /\ "latitude" \notin columns[i].types
    \/ columns[i].name \in MissedLongitudes(columns) /\ "longitude" \notin columns[i].types
Unmissed(columns) ==
  [i \in DOMAIN columns |->
     columns[i].types
       \ ((IF columns[i].name \in MissedLatitudes(columns) THEN {"latitude"} ELSE {}) \cup
          (IF columns[i].name \in MissedLongitudes(columns) THEN {"longitude"} ELSE {}))]

-----------------------------------------------------------------------------
(* The ranges, from the clusters that k-means found.  Values are numbered   *)
(* in their order, and a cluster is a sequence of consecutive ones.         *)

(* int(0.05 * len(cluster)) and int(0.95 * len(cluster)), from zero.        *)
Bounds(size) == <<(5 * size) \div 100, (95 * size) \div 100>>

(* get_numerical_ranges(), of clusters that have these sizes.               *)
NumericalRanges(sizes) ==
  LET before(k) == FoldLeft(LAMBDA a, b : a + b, 0, SubSeq(sizes, 1, k - 1))
      total == before(Len(sizes) + 1)
      kept == SelectSeq([k \in DOMAIN sizes |-> k], LAMBDA k : 10 * sizes[k] >= total)
  IN [j \in DOMAIN kept |->
        <<before(kept[j]) + Bounds(sizes[kept[j]])[1],
          before(kept[j]) + Bounds(sizes[kept[j]])[2]>>]

(* get_spatial_ranges(), of points <<latitude, longitude>> and the cluster  *)
(* of each; KMeans refuses to find no cluster.  A range has its corners at  *)
(* the North-West and the South-East, and has an area.                      *)
Delta == 1
Widened(range) ==
  LET west == range[1][1] north == range[1][2] east == range[2][1] south == range[2][2]
      x == IF west = east THEN Delta ELSE 0
      y == IF north = south THEN Delta ELSE 0
  IN <<<<west - x, north + y>>, <<east + x, south - y>>>>
SpatialRaises(points) == points = <<>>
SpatialRanges(points, labels) ==
  LET cluster(l) == {i \in DOMAIN points : labels[i] = l}
      kept == {l \in 1..Ranges : /\ cluster(l) # {}
                                 /\ 10 * Cardinality(cluster(l)) >= Len(points)}
      ordered(l, k) == SortSeq([j \in 1..Cardinality(cluster(l)) |->
                                  points[SetToSortSeq(cluster(l), <)[j]][k]], <)
      at(l, k, bound) == ordered(l, k)[Bounds(Cardinality(cluster(l)))[bound] + 1]
  IN {Widened(<<<<at(l, 2, 1), at(l, 1, 2)>>, <<at(l, 2, 2), at(l, 1, 1)>>>>) : l \in kept}

(* "Ignore None and 0", and what is out of range; no range from a single    *)
(* row.                                                                     *)
OnEarth(row) == -90 < row[1] /\ row[1] < 90 /\ -180 < row[2] /\ row[2] < 180
PairValues(rows) ==
  SelectSeq(rows, LAMBDA row : row[1] # 0 /\ row[2] # 0 /\ OnEarth(row))
PairRanges(rows, labels) ==
  IF Len(PairValues(rows)) > 1 THEN SpatialRanges(PairValues(rows), labels) ELSE {}

-----------------------------------------------------------------------------
(* truncate_string(), of a string of some length that has spaces at these   *)
(* positions: the length of what is left, with its dots.                    *)
Truncated(length, spaces) ==
  LET found == {s \in spaces : s >= Limit - Window /\ s < Limit - 3}
  IN IF length <= Limit THEN length
     ELSE IF found = {} THEN Limit
     ELSE Max(found) + 3

(* expand_attribute_name(), of characters that stand for their class: the   *)
(* words, the last of which may be empty.                                   *)
Delimiters == {"_", " "}
ExpandAttributeName(name) ==
  LET splits(i) ==
        /\ i > 1 /\ name[i - 1] \notin Delimiters
        /\ \/ (name[i - 1] = "1") # (name[i] = "1")
           \/ name[i - 1] = "a" /\ name[i] = "A"
      step(words, i) ==
        IF name[i] \in Delimiters
        THEN IF Last(words) = <<>> THEN words ELSE Append(words, <<>>)
        ELSE IF splits(i) THEN Append(words, <<name[i]>>)
        ELSE Append(Front(words), Append(Last(words), name[i]))
  IN FoldLeft(step, <<<<>>>>, [i \in DOMAIN name |-> i])

(* What process_dataset() adds to a dataset that has rows.                  *)
AttributeKeywords(names) ==
  FlattenSeq([i \in DOMAIN names |->
                IF ExpandAttributeName(names[i]) = <<names[i]>> THEN <<names[i]>>
                ELSE <<names[i]>> \o ExpandAttributeName(names[i])])

-----------------------------------------------------------------------------
(* What the profile promises.                                               *)

(* Coordinates come in pairs: a pair has the same stem, no column is in two *)
(* of them, and, where names are distinct, only columns in a pair keep a    *)
(* coordinate type, except for the longitude of a column that is both and   *)
(* a latitude that another one with the same stem hides.                    *)
PairsSound(columns) ==
  LET pairs == Pairs(columns)
      paired == {pair[1] : pair \in ToSet(pairs)} \cup {pair[2] : pair \in ToSet(pairs)}
      distinct == \A i, j \in DOMAIN columns :
                    i # j => columns[i].name # columns[j].name
      hidden(i) == \E j \in ToSet(Latitudes(columns)) :
                     j > i /\ Stem(columns[j]) = Stem(columns[i])
      left(i) == Unmissed(columns)[i] \cap {"latitude", "longitude"}
  IN /\ Cardinality(paired) = 2 * Len(pairs)
     /\ \A pair \in ToSet(pairs) : Stem(columns[pair[1]]) = Stem(columns[pair[2]])
     /\ distinct =>
          /\ ~PairingRaises(columns)
          /\ \A i \in DOMAIN columns :
               /\ i \in paired => left(i) = columns[i].types \cap {"latitude", "longitude"}
               /\ i \notin paired /\ ~hidden(i)
                    => "latitude" \notin left(i) /\ ("latitude" \notin columns[i].types
                                                       => "longitude" \notin left(i))

(* The ranges of numbers are disjoint and in order, and hold 70 % of them.  *)
RangesCover(sizes) ==
  LET ranges == NumericalRanges(sizes)
      total == FoldLeft(LAMBDA a, b : a + b, 0, sizes)
      covered == FoldLeft(LAMBDA a, r : a + r[2] - r[1] + 1, 0, ranges)
  IN /\ \A k \in DOMAIN ranges : 0 <= ranges[k][1] /\ ranges[k][1] <= ranges[k][2]
                                 /\ ranges[k][2] < total
     /\ \A j, k \in DOMAIN ranges : j < k => ranges[j][2] < ranges[k][1]
     /\ 10 * covered >= 7 * total

(* A spatial range has an area, and each point of few is in one.            *)
AreasCover(points, labels) ==
  ~SpatialRaises(points) =>
    LET ranges == SpatialRanges(points, labels)
    IN /\ \A r \in ranges : r[1][1] < r[2][1] /\ r[2][2] < r[1][2]
       /\ \A p \in ToSet(points) : \E r \in ranges :
            /\ r[1][1] <= p[2] /\ p[2] <= r[2][1]
            /\ r[2][2] <= p[1] /\ p[1] <= r[1][2]

(* The ranges of a pair of columns lie between the rows that have both      *)
(* coordinates: no row where one is 0 or out of range stretches them.       *)
NullsLeftOut(rows, labels) ==
  LET located == {row \in ToSet(rows) : 0 \notin {row[1], row[2]} /\ OnEarth(row)}
      within(k, low, high) ==
        /\ \E p \in located : p[k] - Delta <= low
        /\ \E p \in located : high <= p[k] + Delta
  IN \A r \in PairRanges(rows, labels) :
       within(2, r[1][1], r[2][1]) /\ within(1, r[2][2], r[1][2])

(* A truncated string fits, and the words of a name have no delimiter and   *)
(* are all of its characters; only the last word may be empty.              *)
WordsKept(name) ==
  LET words == ExpandAttributeName(name)
  IN /\ FlattenSeq(words) = SelectSeq(name, LAMBDA c : c \notin Delimiters)
     /\ \A i \in 1..(Len(words) - 1) : words[i] # <<>>
     /\ ToSet(words) \subseteq ToSet(AttributeKeywords(<<name>>))
StringFits(length, spaces) == Truncated(length, spaces) <= Limit
=============================================================================
