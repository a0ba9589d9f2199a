--------------------------- MODULE AlgorithmsProofs ---------------------------
(* Theorems about the algorithms, for all their inputs: MCAlgorithms checks *)
(* the same formulas on bounded sets of inputs.                             *)
EXTENDS MCAlgorithms, SetFolds, SequenceTheorems

-----------------------------------------------------------------------------
(* Types of columns.                                                        *)

TypedColumns == [name : STRING, distinct : Nat, count : [Kinds -> Nat]]

LEMMA TripleFinite == ASSUME NEW x, NEW y, NEW z PROVE IsFiniteSet({x, y, z})
<1>1. IsFiniteSet({x}) /\ IsFiniteSet({y}) /\ IsFiniteSet({z})
  BY FS_Singleton
<1>2. IsFiniteSet(({x} \cup {y}) \cup {z})
  BY <1>1, FS_Union
<1>3. {x, y, z} = ({x} \cup {y}) \cup {z}
  OBVIOUS
<1> QED BY <1>2, <1>3

LEMMA KindsFinite == IsFiniteSet(Kinds)
<1> DEFINE A == {"empty", "yearMonthDay", "number"} B == {"year", "year", "coordinate"}
           C == {"longitude", "real", "point"} D == {"namedPoint", "commaPoint", "polygon"}
           E == {"sentence", "yes", "date"} F == {"area", "area", "word"}
           G == {"zero", "one", "degree"} H == {"meridian", "south", "west"}
<1>1. IsFiniteSet(A) /\ IsFiniteSet(B) /\ IsFiniteSet(C) /\ IsFiniteSet(D) /\ IsFiniteSet(E) /\ IsFiniteSet(F)
      /\ IsFiniteSet(G) /\ IsFiniteSet(H)
  BY TripleFinite
<1>2. Kinds = ((((((A \cup B) \cup C) \cup D) \cup E) \cup F) \cup G) \cup H
  BY DEF Kinds, IntegerKinds
<1> HIDE DEF A, B, C, D, E, F, G, H
<1> QED BY <1>1, <1>2, FS_Union

LEMMA CountsAreNumbers ==
  ASSUME NEW column \in TypedColumns
  PROVE  /\ NonEmpty(column) \in Int
         /\ \A pattern : Count(column, pattern) \in Nat
         /\ \A kinds \in SUBSET Kinds : CountKinds(column, kinds) \in Nat
<1>1. \A kinds \in SUBSET Kinds : CountKinds(column, kinds) = SumOf(column.count, kinds)
  BY DEF CountKinds, SumOf, MapThenSumSet, MapThenFoldSet, MapThenSumSet, MapThenFoldSet
<1>2. Total(column) = SumOf(column.count, Kinds)
  BY DEF Total, SumOf, MapThenSumSet, MapThenFoldSet, MapThenSumSet, MapThenFoldSet
<1>3. column.count \in [Kinds -> Nat]
  BY DEF TypedColumns
<1>4. \A kinds \in SUBSET Kinds : SumOf(column.count, kinds) \in Nat
  BY <1>3, KindsFinite, SumOfMore
<1>5. \A pattern : Count(column, pattern) \in Nat
  BY <1>1, <1>4 DEF Count
<1>6. Total(column) \in Nat
  BY <1>2, <1>4
<1> QED BY <1>1, <1>4, <1>5, <1>6 DEF NonEmpty

(* A type of which there is enough leaves few unclean values.               *)
LEMMA FewUnclean ==
  ASSUME NEW column \in TypedColumns, NEW n \in Nat, Enough(n, column)
  PROVE  100 * (NonEmpty(column) - n) <= 2 * NonEmpty(column)
<1>1. NonEmpty(column) \in Int
  BY CountsAreNumbers
<1> QED BY <1>1 DEF Enough

(* The types of a column promise what TypesCoherent says, however many      *)
(* values of each kind it has (identify_types() in profile_types.py).       *)
THEOREM TypesAreCoherent ==
  ASSUME NEW column \in TypedColumns
  PROVE  TypesCoherent(column, IdentifyTypes(column))
<1> DEFINE st == StructuralType(column)
           se == SemanticTypes(column, st)
           ty == IdentifyTypes(column)
           N == NonEmpty(column)
<1>1. /\ ty.structural = IF st = "integer" /\ "datetime" \in se THEN "text" ELSE st
      /\ ty.semantic = se
      /\ ty.unclean = Unclean(column, IF IsBoolean(column) THEN "boolean" ELSE st)
  BY DEF IdentifyTypes, IdentifyStructural, Identified
<1>2. N \in Int /\ \A pattern : Count(column, pattern) \in Nat
  BY CountsAreNumbers
<1>3. CountKinds(column, Booleans) \in Nat
  <2>1. Booleans \in SUBSET Kinds
    BY DEF Booleans, Kinds, IntegerKinds
  <2> QED BY <2>1, CountsAreNumbers
<1>4. /\ st \in {"missing", "integer", "real", "point", "polygon", "text"}
      /\ st = "missing" <=> N = 0
      /\ st = "integer" => Enough(Count(column, "int"), column)
      /\ st = "real" => Enough(Count(column, "int") + Count(column, "float"), column)
      /\ st = "polygon" => Enough(Count(column, "polygon"), column)
  BY DEF StructuralType
<1>5. ASSUME \/ ty.structural \in {"integer", "real", "polygon"}
             \/ ty.structural = "point" /\ Enough(Count(column, "point"), column)
      PROVE  100 * ty.unclean <= 2 * N
  <2>1. CASE IsBoolean(column)
    <3>1. ty.unclean = N - CountKinds(column, Booleans)
      BY <1>1, <2>1 DEF Unclean
    <3>2. Enough(CountKinds(column, Booleans), column)
      BY <2>1 DEF IsBoolean
    <3> QED BY <1>3, <3>1, <3>2, FewUnclean
  <2>2. CASE ~IsBoolean(column)
    <3>0. ty.unclean = Unclean(column, st)
      BY <1>1, <2>2
    <3>1. CASE st = "integer"
      <4>1. ty.unclean = N - Count(column, "int")
        BY <3>0, <3>1 DEF Unclean
      <4>2. Count(column, "int") \in Nat
        BY <1>2
      <4> QED BY <1>4, <3>1, <4>1, <4>2, FewUnclean
    <3>2. CASE st = "real"
      <4> DEFINE n == Count(column, "int") + Count(column, "float")
      <4>1. ty.unclean = N - n
        BY <3>0, <3>2 DEF Unclean
      <4>2. n \in Nat
        BY <1>2
      <4>3. Enough(n, column)
        BY <1>4, <3>2
      <4> HIDE DEF n
      <4> QED BY <4>1, <4>2, <4>3, FewUnclean
    <3>3. CASE st = "point"
      <4>1. ty.unclean = N - Count(column, "point")
        BY <3>0, <3>3 DEF Unclean
      <4>2. Enough(Count(column, "point"), column)
        BY <1>1, <1>5, <3>3
      <4>3. Count(column, "point") \in Nat
        BY <1>2
      <4> QED BY <4>1, <4>2, <4>3, FewUnclean
    <3>4. CASE st = "polygon"
      <4>1. ty.unclean = N - Count(column, "polygon")
        BY <3>0, <3>4 DEF Unclean
      <4>2. Count(column, "polygon") \in Nat
        BY <1>2
      <4> QED BY <1>4, <3>4, <4>1, <4>2, FewUnclean
    <3> QED BY <1>1, <1>4, <1>5, <3>1, <3>2, <3>3, <3>4
  <2> QED BY <2>1, <2>2
<1>6. /\ se \cap {"latitude", "longitude"} # {} => st = "real"
      /\ "text" \in se => "categorical" \notin se
      /\ se \subseteq {"boolean", "text", "admin", "categorical", "id", "datetime", "latitude", "longitude"}
      /\ "id" \in se => st = "integer"
  BY <1>4 DEF SemanticTypes, TextTypes, IntegerTypes, RealTypes
<1>7. ASSUME DatasetType(ty) = "none"
      PROVE  /\ ty.structural \notin {"integer", "real"}
             /\ ty.semantic \cap {"latitude", "longitude", "admin", "datetime", "categorical"} = {}
  BY <1>7 DEF DatasetType
<1>8. DatasetType(ty) = "none" =>
        /\ ty.structural \in {"missing", "point", "polygon", "text"}
        /\ ty.semantic \subseteq {"text", "boolean"}
  BY <1>1, <1>4, <1>6, <1>7
<1>9. /\ "datetime" \in ty.semantic => ty.structural # "integer"
      /\ ty.semantic \cap {"latitude", "longitude"} # {} => ty.structural = "real"
      /\ "text" \in ty.semantic => "categorical" \notin ty.semantic
      /\ (ty.structural = "missing") = (N = 0)
  BY <1>1, <1>4, <1>6
<1>10. TypesCoherent(column, ty)
  <2> HIDE DEF ty
  <2> QED BY <1>5, <1>8, <1>9 DEF TypesCoherent
<1> QED BY <1>10

-----------------------------------------------------------------------------
(* Climate data.                                                            *)

(* The decade, or the year itself, of a year.                               *)
Begin(y, years) == y - (y % years)

LEMMA BeginIs ==
  ASSUME NEW years \in {1, 5, 10}, NEW start \in Nat, NEW end \in Nat, NEW y \in start..end
  PROVE  /\ Begin(y, years) \in Nat /\ Begin(y, years) <= y /\ y <= Begin(y, years) + years - 1
         /\ Begin(y, years) \in Begin(start, years)..((end + years - 1) - (end % years))
         /\ (Begin(y, years) - Begin(start, years)) % years = 0
         /\ \A i \in Int : (i - Begin(start, years)) % years = 0 /\ i <= y /\ y <= i + years - 1 =>
              i = Begin(y, years)
<1>1. CASE years = 1
  BY <1>1 DEF Begin
<1>2. CASE years = 5
  BY <1>2 DEF Begin
<1>3. CASE years = 10
  BY <1>3 DEF Begin
<1> QED BY <1>1, <1>2, <1>3

LEMMA RangeOfYear ==
  ASSUME NEW years \in {1, 5, 10}, NEW start \in Nat, NEW end \in Nat, NEW y \in start..end
  PROVE  \A r : r \in IterateYears(start, end, years) /\ r[1] <= y /\ y <= r[2]
                  <=> r = <<Begin(y, years), Begin(y, years) + years - 1>>
<1> DEFINE first == start - (start % years)
           last == (end + years - 1) - (end % years)
           S == {k \in first..last : (k - first) % years = 0}
           b == Begin(y, years)
<1>1. IterateYears(start, end, years) = {<<i, i + years - 1>> : i \in S}
  BY DEF IterateYears
<1>2. b \in S /\ b <= y /\ y <= b + years - 1 /\ \A i \in S : i <= y /\ y <= i + years - 1 => i = b
  BY BeginIs DEF Begin
<1> HIDE DEF S, b
<1> QED BY <1>1, <1>2 DEF b


LEMMA OneElement ==
  ASSUME NEW S, NEW x, \A y : y \in S <=> y = x
  PROVE  Cardinality(S) = 1
<1>1. S = {x}
  OBVIOUS
<1> QED BY <1>1, FS_Singleton

(* Each year from the first to the last is in one dataset, whether they     *)
(* are of one year, of five or of ten (iterate_years() in                   *)
(* noaa_discovery.py).                                                      *)
THEOREM YearsAreCovered ==
  ASSUME NEW years \in {1, 5, 10}, NEW start \in Nat, NEW end \in Nat
  PROVE  YearsCovered(start, end, years)
<1> SUFFICES ASSUME NEW y \in start..end
             PROVE  Cardinality({r \in IterateYears(start, end, years) : r[1] <= y /\ y <= r[2]}) = 1
  BY DEF YearsCovered
<1> DEFINE S == {r \in IterateYears(start, end, years) : r[1] <= y /\ y <= r[2]}
           x == <<Begin(y, years), Begin(y, years) + years - 1>>
<1>1. \A r : r \in S <=> r = x
  BY RangeOfYear
<1>2. Cardinality(S) = 1
  <2> HIDE DEF S, x
  <2> QED BY <1>1, OneElement
<1> QED BY <1>2

-----------------------------------------------------------------------------
(* The stations of each series; some may have none.                         *)
Stations == [mindate : Nat, maxdate : Nat]
Series(N) == {s \in Seq(N) : Len(s) = 3}

LEMMA NamesDiffer ==
  ASSUME NEW N, NEW s \in Series(N), NEW t \in Series(N), NEW x \in Nat, NEW y \in Nat, Append(s, x) = Append(t, y)
  PROVE  s = t /\ x = y
<1> DEFINE A == N \cup Nat
<1>1. s \in Seq(A) /\ t \in Seq(A) /\ x \in A /\ y \in A
  BY DEF Series
<1> HIDE DEF A
<1> QED BY <1>1, AppendInjective

(* What the plugin records of a series of which there are stations.         *)
Entry(series, i) ==
  [id |-> Append(series, i), series |-> series, start |-> i, end |-> i + YearsOf(series[1]) - 1]
FirstDate(S) == Min({s.mindate : s \in S})
LastDate(S) == Max({s.maxdate : s \in S})

LEMMA DatesOf ==
  ASSUME NEW S \in SUBSET Stations, IsFiniteSet(S), S # {}
  PROVE  /\ FirstDate(S) \in Nat /\ LastDate(S) \in Nat
         /\ \A s \in S : FirstDate(S) <= s.mindate /\ s.maxdate <= LastDate(S)
<1> DEFINE first == {s.mindate : s \in S}
           last == {s.maxdate : s \in S}
<1>1. first \in SUBSET Nat /\ last \in SUBSET Nat /\ first # {} /\ last # {}
  BY DEF Stations
<1>2. IsFiniteSet(first) /\ IsFiniteSet(last)
  <2>1. ASSUME NEW T, NEW f \in [S -> T], \A t \in T : \E s \in S : f[s] = t
        PROVE  IsFiniteSet(T)
    <3>1. f \in Surjection(S, T)
      BY <2>1 DEF Surjection
    <3> QED BY <3>1, FS_Surjection
  <2>2. [s \in S |-> s.mindate] \in [S -> first] /\ [s \in S |-> s.maxdate] \in [S -> last]
    OBVIOUS
  <2>3. /\ \A t \in first : \E s \in S : [u \in S |-> u.mindate][s] = t
        /\ \A t \in last : \E s \in S : [u \in S |-> u.maxdate][s] = t
    OBVIOUS
  <2> HIDE DEF first, last
  <2> QED BY <2>1, <2>2, <2>3
<1>3. /\ Min(first) \in first /\ \A n \in first : Min(first) <= n
      /\ Max(last) \in last /\ \A n \in last : n <= Max(last)
  <2> HIDE DEF first, last
  <2>1. \A T : Min(T) = Min(T) /\ Max(T) = Max(T)
    BY DEF Min, Max, Min, Max
  <2> QED BY <1>1, <1>2, <2>1, ExtremesExist
<1> QED BY <1>1, <1>3 DEF FirstDate, LastDate

LEMMA DiscoveredIs ==
  ASSUME NEW series, NEW S
  PROVE  DiscoverData(series, S) =
           IF S = {} THEN {}
           ELSE {[id |-> Append(series, years[1]), series |-> series, start |-> years[1], end |-> years[2]] :
                   years \in IterateYears(FirstDate(S), LastDate(S), YearsOf(series[1]))}
BY DEF DiscoverData, DiscoverDataRange, FirstDate, LastDate

LEMMA EntriesOf ==
  ASSUME NEW N, NEW series \in Series(N), NEW S \in SUBSET Stations, IsFiniteSet(S),
         NEW r \in DiscoverData(series, S)
  PROVE  S # {} /\ \E i \in Nat : r = Entry(series, i)
<1>1. S # {}
  BY DiscoveredIs
<1> DEFINE years == YearsOf(series[1])
           first == FirstDate(S) - (FirstDate(S) % years)
           last == (LastDate(S) + years - 1) - (LastDate(S) % years)
<1>2. years \in {1, 10} /\ FirstDate(S) \in Nat /\ LastDate(S) \in Nat
  BY <1>1, DatesOf DEF YearsOf
<1>3. first \in Nat
  <2>1. CASE years = 1
    BY <1>2, <2>1
  <2>2. CASE years = 10
    BY <1>2, <2>2
  <2> QED BY <1>2, <2>1, <2>2
<1>4. PICK y \in IterateYears(FirstDate(S), LastDate(S), years) :
        r = [id |-> Append(series, y[1]), series |-> series, start |-> y[1], end |-> y[2]]
  BY <1>1, DiscoveredIs
<1>5. PICK i \in {k \in first..last : (k - first) % years = 0} : y = <<i, i + years - 1>>
  BY <1>4 DEF IterateYears
<1>6. i \in Nat /\ r = Entry(series, i)
  BY <1>3, <1>4, <1>5 DEF Entry
<1> QED BY <1>1, <1>6

(* A pass records each year of each series that has stations once, under an *)
(* identifier of its own, whatever other series there are and whichever of  *)
(* them has none (discover_data() in noaa_discovery.py).                    *)
THEOREM SeriesAreRecorded ==
  ASSUME NEW N, NEW D \in SUBSET Series(N), NEW stations \in [D -> SUBSET Stations],
         \A series \in D : IsFiniteSet(stations[series])
  PROVE  SeriesRecorded(stations)
<1> DEFINE recorded == Recorded(stations)
<1>1. \A r : r \in recorded <=> \E series \in D : r \in DiscoverData(series, stations[series])
  BY DEF Recorded
<1>2. ASSUME NEW r \in recorded
      PROVE  /\ r.series \in D /\ stations[r.series] # {}
             /\ r \in DiscoverData(r.series, stations[r.series])
             /\ \E i \in Nat : r = Entry(r.series, i)
  <2>1. PICK series \in D : r \in DiscoverData(series, stations[series])
    BY <1>1
  <2>2. stations[series] # {} /\ \E i \in Nat : r = Entry(series, i)
    BY <2>1, EntriesOf
  <2>3. r.series = series
    BY <2>2 DEF Entry
  <2> QED BY <2>1, <2>2, <2>3
<1>3. ASSUME NEW a \in recorded, NEW b \in recorded, a.id = b.id
      PROVE  a = b
  <2>1. PICK i \in Nat : a = Entry(a.series, i)
    BY <1>2
  <2>2. PICK j \in Nat : b = Entry(b.series, j)
    BY <1>2
  <2>3. a.id = Append(a.series, i) /\ b.id = Append(b.series, j)
    BY <2>1, <2>2 DEF Entry
  <2>4. a.series \in Series(N) /\ b.series \in Series(N)
    BY <1>2
  <2>5. a.series = b.series /\ i = j
    <3> DEFINE s == a.series
               t == b.series
    <3>1. s \in Series(N) /\ t \in Series(N) /\ Append(s, i) = Append(t, j)
      BY <1>3, <2>3, <2>4
    <3> HIDE DEF s, t
    <3>2. s = t /\ i = j
      BY <3>1, NamesDiffer
    <3> QED BY <3>2 DEF s, t
  <2> QED BY <2>1, <2>2, <2>5
<1>4. ASSUME NEW series \in D, NEW s \in stations[series], NEW y \in s.mindate..s.maxdate
      PROVE  Cardinality({r \in recorded : r.series = series /\ r.start <= y /\ y <= r.end}) = 1
  <2> DEFINE S == stations[series]
             years == YearsOf(series[1])
             first == FirstDate(S)
             last == LastDate(S)
             found == {r \in recorded : r.series = series /\ r.start <= y /\ y <= r.end}
             x == Entry(series, Begin(y, years))
  <2>1. S \in SUBSET Stations /\ IsFiniteSet(S) /\ S # {} /\ s \in S
    OBVIOUS
  <2>2. first \in Nat /\ last \in Nat /\ y \in first..last
    <3>1. first \in Nat /\ last \in Nat /\ first <= s.mindate /\ s.maxdate <= last
      BY <2>1, DatesOf
    <3>2. s.mindate \in Nat /\ s.maxdate \in Nat
      BY <2>1 DEF Stations
    <3> HIDE DEF first, last
    <3> QED BY <3>1, <3>2
  <2>3. years \in {1, 10}
    BY DEF YearsOf
  <2>4. \A r : r \in IterateYears(first, last, years) /\ r[1] <= y /\ y <= r[2]
                 <=> r = <<Begin(y, years), Begin(y, years) + years - 1>>
    <3> HIDE DEF first, last, years
    <3> QED BY <2>2, <2>3, RangeOfYear
  <2>5. DiscoverData(series, S) =
          {[id |-> Append(series, p[1]), series |-> series, start |-> p[1], end |-> p[2]] :
             p \in IterateYears(first, last, years)}
    BY <2>1, DiscoveredIs
  <2>6. ASSUME NEW r \in found PROVE r = x
    <3>1. r \in DiscoverData(series, S)
      BY <1>2
    <3>2. PICK p \in IterateYears(first, last, years) :
            r = [id |-> Append(series, p[1]), series |-> series, start |-> p[1], end |-> p[2]]
      BY <2>5, <3>1
    <3>3. p[1] <= y /\ y <= p[2]
      BY <3>2
    <3>4. p = <<Begin(y, years), Begin(y, years) + years - 1>>
      BY <2>4, <3>2, <3>3
    <3> QED BY <3>2, <3>4 DEF Entry
  <2>7. x \in found
    <3> DEFINE p == <<Begin(y, years), Begin(y, years) + years - 1>>
    <3>1. p \in IterateYears(first, last, years) /\ p[1] <= y /\ y <= p[2]
      BY <2>4
    <3>2. x = [id |-> Append(series, p[1]), series |-> series, start |-> p[1], end |-> p[2]]
      BY DEF Entry
    <3>3. x \in DiscoverData(series, S)
      BY <2>5, <3>1, <3>2
    <3>4. x \in recorded
      BY <1>1, <3>3
    <3> QED BY <3>1, <3>2, <3>4
  <2>8. Cardinality(found) = 1
    <3> HIDE DEF found, x
    <3>1. \A r : r \in found <=> r = x
      BY <2>6, <2>7
    <3> QED BY <3>1, OneElement
  <2> QED BY <2>8
<1> QED BY <1>2, <1>3, <1>4 DEF SeriesRecorded

-----------------------------------------------------------------------------
(* The pages of the API of NOAA: get_all() is a fold over its answers.      *)
ApiAnswer == [kind : {"fails", "breaks", "empty", "page"}, count : Nat]
Answers == Seq(ApiAnswer)
StartState == [results |-> <<>>, failed |-> 0, offset |-> 0, status |-> "reading"]
Reads(it, data, answers) ==
  it = [S \in SUBSET (DOMAIN answers) |->
          IF S = {} THEN StartState ELSE Request(it[S \ {Max(S)}], answers[Max(S)], data)]
CountsFails(it, answers) ==
  it = [S \in SUBSET (DOMAIN answers) |->
          IF S = {} THEN 0
          ELSE IF answers[Max(S)].kind = "fails" THEN it[S \ {Max(S)}] + 1 ELSE 0]

LEMMA GetAllIs ==
  ASSUME NEW data, NEW answers
  PROVE  GetAll(data, answers) = (CHOOSE it : Reads(it, data, answers))[DOMAIN answers]
BY DEF GetAll, FoldLeft, MapThenFoldSet, Max, Reads, StartState

FailsAsked(answers) == FoldLeft(LAMBDA n, a : IF a.kind = "fails" THEN n + 1 ELSE 0, 0, answers)
LEMMA FailsAskedIs ==
  ASSUME NEW answers
  PROVE  FailsAsked(answers) = (CHOOSE it : CountsFails(it, answers))[DOMAIN answers]
BY DEF FailsAsked, FoldLeft, MapThenFoldSet, Max, CountsFails

(* What was read is what comes first, as far as the offset.                 *)
States(D, data) ==
  {st \in [results : Seq(D), failed : Nat, offset : Nat, status : {"reading", "done", "raised"}] :
     st.offset <= Len(data) /\ st.results = SubSeq(data, 1, st.offset)}

LEMMA PageIs ==
  ASSUME NEW D, NEW data \in Seq(D), NEW offset \in Nat, PageSize \in Nat, offset <= Len(data)
  PROVE  /\ Page(data, offset) \in Seq(D)
         /\ \E last \in offset .. Len(data) : Page(data, offset) = SubSeq(data, offset + 1, last)
<1>0. Len(data) \in Nat
  OBVIOUS
<1> DEFINE S == {offset + PageSize, Len(data)}
           last == Min(S)
<1>1. IsFiniteSet(S)
  <2>1. IsFiniteSet({offset + PageSize}) /\ IsFiniteSet({Len(data)})
    BY FS_Singleton
  <2>2. S = {offset + PageSize} \cup {Len(data)}
    OBVIOUS
  <2> HIDE DEF S
  <2> QED BY <2>1, <2>2, FS_Union
<1>2. last \in S
  <2>1. S \in SUBSET Nat /\ S # {}
    BY <1>0
  <2> HIDE DEF S
  <2> QED BY <1>1, <2>1, ExtremesExist
<1>3. last \in Nat /\ last <= Len(data) /\ offset <= last
  <2>1. S \in SUBSET Nat /\ S # {}
    BY <1>0
  <2>2. \A n \in S : last <= n
    <3> HIDE DEF S
    <3> QED BY <1>1, <2>1, ExtremesExist
  <2>3. Len(data) \in S
    OBVIOUS
  <2>4. \A n \in S : n \in Nat /\ offset <= n
    BY <1>0
  <2> HIDE DEF S, last
  <2> QED BY <1>2, <2>2, <2>3, <2>4
<1>4. Page(data, offset) = SubSeq(data, offset + 1, last)
  BY DEF Page
<1>5. SubSeq(data, offset + 1, last) \in Seq(D)
  <2>1. offset + 1 \in Int /\ last \in Int /\ \A i \in offset + 1 .. last : data[i] \in D
    <3> HIDE DEF last
    <3> QED BY <1>0, <1>3
  <2> HIDE DEF last
  <2> QED BY <2>1, SubSeqProperties
<1> HIDE DEF last
<1> QED BY <1>0, <1>3, <1>4, <1>5

Answered(next, st, a, data) ==
  /\ st.status # "reading" => next = st
  /\ st.status = "reading" /\ a.kind = "fails" =>
       next = [results |-> st.results, failed |-> st.failed + 1, offset |-> st.offset,
               status |-> IF st.failed + 1 = MaxFailed THEN "raised" ELSE "reading"]
  /\ st.status = "reading" /\ a.kind = "empty" =>
       next = [results |-> st.results, failed |-> st.failed, offset |-> st.offset, status |-> "done"]
  /\ st.status = "reading" /\ a.kind = "breaks" =>
       next = [results |-> st.results, failed |-> st.failed, offset |-> st.offset, status |-> "raised"]
  /\ st.status = "reading" /\ a.kind = "page" =>
       \E last \in Nat :
         /\ last <= Len(data)
         /\ next = [results |-> SubSeq(data, 1, last), failed |-> 0, offset |-> last,
                    status |-> IF last >= a.count THEN "done" ELSE "reading"]

LEMMA RequestIs ==
  ASSUME NEW D, NEW data \in Seq(D), PageSize \in Nat, NEW st \in States(D, data),
         NEW a \in ApiAnswer
  PROVE  Answered(Request(st, a, data), st, a, data)
<1> DEFINE next == Request(st, a, data)
<1>0. /\ st = [results |-> st.results, failed |-> st.failed, offset |-> st.offset, status |-> st.status]
      /\ st.offset \in Nat /\ st.offset <= Len(data) /\ st.results = SubSeq(data, 1, st.offset)
      /\ Len(data) \in Nat
  BY DEF States
<1>1. CASE st.status # "reading"
  BY <1>1 DEF Request, Answered
<1>2. CASE st.status = "reading" /\ a.kind = "fails"
  <2>1. next = [[st EXCEPT !.failed = st.failed + 1] EXCEPT
                  !.status = IF st.failed + 1 = MaxFailed THEN "raised" ELSE st.status]
    BY <1>2 DEF Request
  <2>2. Answered(next, st, a, data)
    <3> HIDE DEF next
    <3> QED BY <1>0, <1>2, <2>1 DEF Answered
  <2> QED BY <2>2
<1>3. CASE st.status = "reading" /\ a.kind = "empty"
  <2>1. next = [st EXCEPT !.status = "done"]
    BY <1>3 DEF Request
  <2>2. Answered(next, st, a, data)
    <3> HIDE DEF next
    <3> QED BY <1>0, <1>3, <2>1 DEF Answered
  <2> QED BY <2>2
<1>5. CASE st.status = "reading" /\ a.kind = "breaks"
  <2>1. next = [st EXCEPT !.status = "raised"]
    BY <1>5 DEF Request
  <2>2. Answered(next, st, a, data)
    <3> HIDE DEF next
    <3> QED BY <1>0, <1>5, <2>1 DEF Answered
  <2> QED BY <2>2
<1>4. CASE st.status = "reading" /\ a.kind = "page"
  <2> DEFINE read == st.results \o Page(data, st.offset)
  <2>1. next = [results |-> read, failed |-> 0, offset |-> Len(read),
                status |-> IF Len(read) >= a.count THEN "done" ELSE "reading"]
    BY <1>4 DEF Request
  <2>2. PICK last \in st.offset .. Len(data) :
          Page(data, st.offset) = SubSeq(data, st.offset + 1, last)
    BY <1>0, PageIs
  <2>3. read = SubSeq(data, 1, last)
    <3>1. 1 \in 1 .. Len(data) + 1 /\ st.offset \in 1 - 1 .. Len(data)
      BY <1>0
    <3>2. SubSeq(data, 1, st.offset) \o SubSeq(data, st.offset + 1, last) = SubSeq(data, 1, last)
      BY <3>1, ConcatAdjacentSubSeq
    <3> QED BY <1>0, <2>2, <3>2
  <2>4. last \in Nat /\ last <= Len(data)
    BY <1>0
  <2>5. Len(SubSeq(data, 1, last)) = last
    <3>1. 1 \in Int /\ last \in Int /\ \A i \in 1 .. last : data[i] \in D
      BY <1>0, <2>4
    <3>2. Len(SubSeq(data, 1, last)) = IF 1 <= last THEN last - 1 + 1 ELSE 0
      BY <3>1, SubSeqProperties
    <3> QED BY <2>4, <3>2
  <2>6. Answered(next, st, a, data)
    <3> HIDE DEF next, read
    <3> QED BY <1>4, <2>1, <2>3, <2>4, <2>5 DEF Answered
  <2> QED BY <2>6
<1> QED BY <1>1, <1>2, <1>3, <1>4, <1>5 DEF ApiAnswer

LEMMA RequestTyped ==
  ASSUME NEW D, NEW data \in Seq(D), PageSize \in Nat, NEW st \in States(D, data),
         NEW a \in ApiAnswer
  PROVE  Request(st, a, data) \in States(D, data)
<1> DEFINE next == Request(st, a, data)
<1>0. /\ st.results \in Seq(D) /\ st.failed \in Nat /\ st.offset \in Nat
      /\ st.offset <= Len(data) /\ st.results = SubSeq(data, 1, st.offset)
  BY DEF States
<1>1. CASE st.status # "reading"
  BY <1>1, RequestIs DEF Answered
<1>2. CASE st.status = "reading" /\ a.kind = "fails"
  <2>1. next = [results |-> st.results, failed |-> st.failed + 1, offset |-> st.offset,
                status |-> IF st.failed + 1 = MaxFailed THEN "raised" ELSE "reading"]
    BY <1>2, RequestIs DEF Answered
  <2> HIDE DEF next
  <2>2. next \in States(D, data)
    BY <1>0, <2>1 DEF States
  <2> QED BY <2>2 DEF next
<1>3. CASE st.status = "reading" /\ a.kind = "empty"
  <2>1. next = [results |-> st.results, failed |-> st.failed, offset |-> st.offset, status |-> "done"]
    BY <1>3, RequestIs DEF Answered
  <2> HIDE DEF next
  <2>2. next \in States(D, data)
    BY <1>0, <2>1 DEF States
  <2> QED BY <2>2 DEF next
<1>5. CASE st.status = "reading" /\ a.kind = "breaks"
  <2>1. next = [results |-> st.results, failed |-> st.failed, offset |-> st.offset, status |-> "raised"]
    BY <1>5, RequestIs DEF Answered
  <2> HIDE DEF next
  <2>2. next \in States(D, data)
    BY <1>0, <2>1 DEF States
  <2> QED BY <2>2 DEF next
<1>4. CASE st.status = "reading" /\ a.kind = "page"
  <2>1. PICK last \in Nat :
          /\ last <= Len(data)
          /\ next = [results |-> SubSeq(data, 1, last), failed |-> 0, offset |-> last,
                     status |-> IF last >= a.count THEN "done" ELSE "reading"]
    BY <1>4, RequestIs DEF Answered
  <2>2. SubSeq(data, 1, last) \in Seq(D)
    <3>1. 1 \in Int /\ last \in Int /\ \A i \in 1 .. last : data[i] \in D
      BY <2>1
    <3> QED BY <3>1, SubSeqProperties
  <2> HIDE DEF next
  <2>3. next \in States(D, data)
    BY <2>1, <2>2 DEF States
  <2> QED BY <2>3 DEF next
<1> QED BY <1>1, <1>2, <1>3, <1>4, <1>5 DEF ApiAnswer

(* The states that the answers lead through, one after the other.           *)
LEMMA Readings ==
  ASSUME NEW D, NEW data \in Seq(D), NEW answers \in Answers, PageSize \in Nat
  PROVE  \E r \in [0 .. Len(answers) -> States(D, data)] :
           /\ r[0] = StartState
           /\ \A i \in 1 .. Len(answers) : r[i] = Request(r[i - 1], answers[i], data)
           /\ GetAll(data, answers) = r[Len(answers)]
<1> DEFINE n == Len(answers)
           V == States(D, data)
           F == [p \in (1 .. n) \X V |-> Request(p[2], answers[p[1]], data)]
           it == CHOOSE h : Reads(h, data, answers)
<1>0. n \in Nat /\ DOMAIN answers = 1 .. n /\ \A i \in 1 .. n : answers[i] \in ApiAnswer
  BY DEF Answers
<1>1. IsFiniteSet(1 .. n) /\ \A S \in SUBSET (1 .. n) : S # {} => Max(S) \in S /\ Largest(n)[S] = Max(S)
  <2>1. IsFiniteSet(1 .. n)
    BY <1>0, FS_Interval
  <2>2. \A S \in SUBSET (1 .. n) : S # {} => Max(S) \in S /\ Largest(n)[S] \in S
    <3> HIDE DEF n
    <3> QED BY <1>0, LargestIs
  <2>3. \A S \in SUBSET (1 .. n) : Largest(n)[S] = Max(S)
    BY DEF Largest
  <2> QED BY <2>1, <2>2, <2>3
<1>2. StartState \in V
  <2>1. Len(data) \in Nat
    OBVIOUS
  <2>2. SubSeq(data, 1, 0) = <<>>
    BY SubSeqEmpty
  <2>3. <<>> \in Seq(D)
    OBVIOUS
  <2>4. /\ StartState \in [results : Seq(D), failed : Nat, offset : Nat, status : {"reading", "done", "raised"}]
        /\ StartState.offset = 0 /\ StartState.results = <<>>
    BY <2>3 DEF StartState
  <2> QED BY <2>1, <2>2, <2>4 DEF States
<1>3. ASSUME NEW i \in 1 .. n, NEW st \in V
      PROVE  Request(st, answers[i], data) \in V
  BY <1>0, RequestTyped
<1>4. F \in [(1 .. n) \X V -> V]
  <2> HIDE DEF V
  <2> QED BY <1>3
<1>5. \E h : Solves(h, 1 .. n, StartState, Largest(n), F, V)
  <2>1. \A S \in SUBSET (1 .. n) : S # {} => Largest(n)[S] \in S
    BY <1>1
  <2> HIDE DEF n, V, F
  <2> QED BY <1>1, <1>2, <1>4, <2>1, FoldExists
<1>6. Reads(it, data, answers)
  <2>1. PICK h : Solves(h, 1 .. n, StartState, Largest(n), F, V)
    BY <1>5
  <2>2. h \in [SUBSET (1 .. n) -> V]
    BY <2>1 DEF Solves
  <2>3. ASSUME NEW S \in SUBSET (1 .. n), S # {}
        PROVE  h[S] = Request(h[S \ {Max(S)}], answers[Max(S)], data)
    <3>1. Max(S) \in 1 .. n /\ h[S \ {Max(S)}] \in V /\ Largest(n)[S] = Max(S)
      <4> HIDE DEF V
      <4> QED BY <1>1, <2>2, <2>3
    <3>2. h[S] = F[<<Max(S), h[S \ {Max(S)}]>>]
      <4> HIDE DEF F, V, n
      <4> QED BY <2>1, <2>3, <3>1 DEF Solves
    <3> DEFINE p == <<Max(S), h[S \ {Max(S)}]>>
    <3>3. p \in (1 .. n) \X V /\ p[1] = Max(S) /\ p[2] = h[S \ {Max(S)}]
      <4> HIDE DEF V
      <4> QED BY <3>1
    <3>4. F[p] = Request(p[2], answers[p[1]], data)
      <4> HIDE DEF V, p
      <4> QED BY <3>3
    <3> QED BY <3>2, <3>3, <3>4
  <2>4. h[{}] = StartState
    BY <2>1 DEF Solves
  <2>5. h = [S \in SUBSET (1 .. n) |->
              IF S = {} THEN StartState ELSE Request(h[S \ {Max(S)}], answers[Max(S)], data)]
    <3> HIDE DEF V, n
    <3> QED BY <2>2, <2>3, <2>4
  <2>6. Reads(h, data, answers)
    BY <1>0, <2>5 DEF Reads
  <2> QED BY <2>6
<1>7. /\ it = [S \in SUBSET (1 .. n) |-> it[S]]
      /\ it[{}] = StartState
      /\ \A S \in SUBSET (1 .. n) : S # {} => it[S] = Request(it[S \ {Max(S)}], answers[Max(S)], data)
  <2> HIDE DEF it
  <2>1. it = [S \in SUBSET (1 .. n) |->
               IF S = {} THEN StartState ELSE Request(it[S \ {Max(S)}], answers[Max(S)], data)]
    BY <1>0, <1>6 DEF Reads
  <2> HIDE DEF n
  <2> QED BY <2>1
<1>8. it \in [SUBSET (1 .. n) -> V]
  <2>1. \A S \in SUBSET (1 .. n) : S # {} => Largest(n)[S] \in S
    BY <1>1
  <2>2. ASSUME NEW S \in SUBSET (1 .. n), S # {}, it[S \ {Largest(n)[S]}] \in V
        PROVE  it[S] \in V
    <3>1. Max(S) \in 1 .. n /\ Largest(n)[S] = Max(S)
      BY <1>1, <2>2
    <3>2. it[S] = Request(it[S \ {Max(S)}], answers[Max(S)], data)
      BY <1>7, <2>2
    <3> HIDE DEF it, V
    <3> QED BY <1>3, <2>2, <3>1, <3>2
  <2>3. it[{}] \in V
    BY <1>2, <1>7
  <2> HIDE DEF it, V, n
  <2> QED BY <1>1, <1>7, <2>1, <2>2, <2>3, TypeOfFold
<1> DEFINE r == [i \in 0 .. n |-> it[1 .. i]]
<1>9. r \in [0 .. n -> V]
  <2>1. \A i \in 0 .. n : 1 .. i \in SUBSET (1 .. n)
    BY <1>0
  <2> HIDE DEF it, V
  <2> QED BY <1>8, <2>1
<1>10. r[0] = StartState
  <2>1. 1 .. 0 = {} /\ 0 \in 0 .. n
    BY <1>0
  <2> HIDE DEF it
  <2> QED BY <1>7, <2>1
<1>11. ASSUME NEW i \in 1 .. n PROVE r[i] = Request(r[i - 1], answers[i], data)
  <2> DEFINE S == 1 .. i
             R == 1 .. i - 1
  <2>1. S \in SUBSET (1 .. n) /\ S # {} /\ Max(S) = i /\ S \ {i} = R
    <3>1. Max(S) = i
      BY <1>0, LargestIs
    <3>2. S \in SUBSET (1 .. n) /\ i \in S
      BY <1>0
    <3>3. S \ {i} = R
      BY <1>0
    <3> QED BY <3>1, <3>2, <3>3
  <2>2. it[S] = Request(it[R], answers[i], data)
    <3> HIDE DEF it, S, R
    <3> QED BY <1>7, <2>1
  <2>3. r[i] = it[S] /\ r[i - 1] = it[R]
    <3>1. i \in 0 .. n /\ i - 1 \in 0 .. n
      BY <1>0
    <3> HIDE DEF it
    <3> QED BY <3>1
  <2> QED BY <2>2, <2>3
<1>12. GetAll(data, answers) = r[n]
  <2>1. n \in 0 .. n
    BY <1>0
  <2>2. r[n] = it[1 .. n]
    <3> HIDE DEF it
    <3> QED BY <2>1
  <2> QED BY <1>0, <2>2, GetAllIs
<1> QED BY <1>9, <1>10, <1>11, <1>12

(* How many answers in a row, up to each, were failures.                    *)
LEMMA Failures ==
  ASSUME NEW answers \in Answers
  PROVE  \E c \in [0 .. Len(answers) -> Nat] :
           /\ c[0] = 0
           /\ \A i \in 1 .. Len(answers) : c[i] = IF answers[i].kind = "fails" THEN c[i - 1] + 1 ELSE 0
           /\ FailsAsked(answers) = c[Len(answers)]
<1> DEFINE n == Len(answers)
           F == [p \in (1 .. n) \X Nat |-> IF answers[p[1]].kind = "fails" THEN p[2] + 1 ELSE 0]
           it == CHOOSE h : CountsFails(h, answers)
<1>0. n \in Nat /\ DOMAIN answers = 1 .. n
  BY DEF Answers
<1>1. IsFiniteSet(1 .. n) /\ \A S \in SUBSET (1 .. n) : S # {} => Max(S) \in S /\ Largest(n)[S] = Max(S)
  <2>1. IsFiniteSet(1 .. n)
    BY <1>0, FS_Interval
  <2>2. \A S \in SUBSET (1 .. n) : S # {} => Max(S) \in S /\ Largest(n)[S] \in S
    <3> HIDE DEF n
    <3> QED BY <1>0, LargestIs
  <2>3. \A S \in SUBSET (1 .. n) : Largest(n)[S] = Max(S)
    BY DEF Largest
  <2> QED BY <2>1, <2>2, <2>3
<1>4. F \in [(1 .. n) \X Nat -> Nat]
  OBVIOUS
<1>5. \E h : Solves(h, 1 .. n, 0, Largest(n), F, Nat)
  <2>1. \A S \in SUBSET (1 .. n) : S # {} => Largest(n)[S] \in S
    BY <1>1
  <2> HIDE DEF n, F
  <2> QED BY <1>1, <1>4, <2>1, FoldExists
<1>6. CountsFails(it, answers)
  <2>1. PICK h : Solves(h, 1 .. n, 0, Largest(n), F, Nat)
    BY <1>5
  <2>2. h \in [SUBSET (1 .. n) -> Nat]
    BY <2>1 DEF Solves
  <2>3. ASSUME NEW S \in SUBSET (1 .. n), S # {}
        PROVE  h[S] = IF answers[Max(S)].kind = "fails" THEN h[S \ {Max(S)}] + 1 ELSE 0
    <3>1. Max(S) \in 1 .. n /\ h[S \ {Max(S)}] \in Nat /\ Largest(n)[S] = Max(S)
      BY <1>1, <2>2, <2>3
    <3>2. h[S] = F[<<Max(S), h[S \ {Max(S)}]>>]
      <4> HIDE DEF F, n
      <4> QED BY <2>1, <2>3, <3>1 DEF Solves
    <3> DEFINE p == <<Max(S), h[S \ {Max(S)}]>>
    <3>3. p \in (1 .. n) \X Nat /\ p[1] = Max(S) /\ p[2] = h[S \ {Max(S)}]
      BY <3>1
    <3>4. \A x \in (1 .. n) \X Nat :
            F[x] = IF answers[x[1]].kind = "fails" THEN x[2] + 1 ELSE 0
      OBVIOUS
    <3> HIDE DEF p, F
    <3>5. F[p] = IF answers[p[1]].kind = "fails" THEN p[2] + 1 ELSE 0
      BY <3>3, <3>4
    <3>6. h[S] = F[p]
      BY <3>2 DEF p
    <3> QED BY <3>3, <3>5, <3>6
  <2>4. h[{}] = 0
    BY <2>1 DEF Solves
  <2>5. h = [S \in SUBSET (1 .. n) |->
              IF S = {} THEN 0 ELSE IF answers[Max(S)].kind = "fails" THEN h[S \ {Max(S)}] + 1 ELSE 0]
    <3> HIDE DEF n
    <3> QED BY <2>2, <2>3, <2>4
  <2>6. CountsFails(h, answers)
    BY <1>0, <2>5 DEF CountsFails
  <2> QED BY <2>6
<1>7. /\ it = [S \in SUBSET (1 .. n) |-> it[S]]
      /\ it[{}] = 0
      /\ \A S \in SUBSET (1 .. n) : S # {} => it[S] = IF answers[Max(S)].kind = "fails" THEN it[S \ {Max(S)}] + 1 ELSE 0
  <2> HIDE DEF it
  <2>1. it = [S \in SUBSET (1 .. n) |->
               IF S = {} THEN 0 ELSE IF answers[Max(S)].kind = "fails" THEN it[S \ {Max(S)}] + 1 ELSE 0]
    BY <1>0, <1>6 DEF CountsFails
  <2> HIDE DEF n
  <2> QED BY <2>1
<1>8. it \in [SUBSET (1 .. n) -> Nat]
  <2>1. \A S \in SUBSET (1 .. n) : S # {} => Largest(n)[S] \in S
    BY <1>1
  <2>2. ASSUME NEW S \in SUBSET (1 .. n), S # {}, it[S \ {Largest(n)[S]}] \in Nat
        PROVE  it[S] \in Nat
    <3>1. Largest(n)[S] = Max(S)
      BY <1>1, <2>2
    <3>2. it[S \ {Max(S)}] \in Nat
      <4> HIDE DEF it
      <4> QED BY <2>2, <3>1
    <3>3. it[S] = IF answers[Max(S)].kind = "fails" THEN it[S \ {Max(S)}] + 1 ELSE 0
      BY <1>7, <2>2
    <3> HIDE DEF it
    <3> QED BY <3>2, <3>3
  <2>3. it[{}] \in Nat
    BY <1>7
  <2> HIDE DEF it, n
  <2> QED BY <1>1, <1>7, <2>1, <2>2, <2>3, TypeOfFold
<1> DEFINE c == [i \in 0 .. n |-> it[1 .. i]]
<1>9. c \in [0 .. n -> Nat]
  <2>1. \A i \in 0 .. n : 1 .. i \in SUBSET (1 .. n)
    BY <1>0
  <2> HIDE DEF it
  <2> QED BY <1>8, <2>1
<1>10. c[0] = 0
  <2>1. 1 .. 0 = {} /\ 0 \in 0 .. n
    BY <1>0
  <2> HIDE DEF it
  <2> QED BY <1>7, <2>1
<1>11. ASSUME NEW i \in 1 .. n PROVE c[i] = IF answers[i].kind = "fails" THEN c[i - 1] + 1 ELSE 0
  <2> DEFINE S == 1 .. i
             R == 1 .. i - 1
  <2>1. S \in SUBSET (1 .. n) /\ S # {} /\ Max(S) = i /\ S \ {i} = R
    <3>1. Max(S) = i
      BY <1>0, LargestIs
    <3>2. S \in SUBSET (1 .. n) /\ i \in S
      BY <1>0
    <3>3. S \ {i} = R
      BY <1>0
    <3> QED BY <3>1, <3>2, <3>3
  <2>2. it[S] = IF answers[i].kind = "fails" THEN it[R] + 1 ELSE 0
    <3> HIDE DEF it, S, R
    <3> QED BY <1>7, <2>1
  <2>3. c[i] = it[S] /\ c[i - 1] = it[R]
    <3>1. i \in 0 .. n /\ i - 1 \in 0 .. n
      BY <1>0
    <3> HIDE DEF it
    <3> QED BY <3>1
  <2> QED BY <2>2, <2>3
<1>12. FailsAsked(answers) = c[n]
  <2>1. n \in 0 .. n
    BY <1>0
  <2>2. c[n] = it[1 .. n]
    <3> HIDE DEF it
    <3> QED BY <2>1
  <2> QED BY <1>0, <2>2, FailsAskedIs
<1> QED BY <1>9, <1>10, <1>11, <1>12

(* The answers after which a download may end, or raise.                    *)
Misleads(a, data) == a.kind = "empty" \/ (a.kind = "page" /\ a.count < Len(data))
FailsFrom(answers, k, i) ==
  k + MaxFailed - 1 <= i /\ \A j \in 0 .. MaxFailed - 1 : answers[k + j].kind = "fails"

(* The failures before an answer say how the download stands after it.      *)
Stands(r, c, answers, data, i) ==
  /\ c[i] <= i
  /\ \A j \in 0 .. c[i] - 1 : answers[i - j].kind = "fails"
  /\ r[i].status = "reading" =>
       r[i].failed = c[i] /\ c[i] < MaxFailed /\ \A k \in 1 .. i : answers[k].kind # "breaks"
  /\ r[i].status = "done" => r[i].results = data \/ \E k \in 1 .. i : Misleads(answers[k], data)
  /\ r[i].status = "raised" => \E k \in 1 .. i : answers[k].kind = "breaks" \/ FailsFrom(answers, k, i)

LEMMA StandsOn ==
  ASSUME NEW D, NEW data \in Seq(D), NEW answers \in Answers, PageSize \in Nat, MaxFailed \in Nat \ {0},
         NEW r \in [0 .. Len(answers) -> States(D, data)], NEW c \in [0 .. Len(answers) -> Nat],
         NEW i \in 1 .. Len(answers), r[i] = Request(r[i - 1], answers[i], data),
         c[i] = IF answers[i].kind = "fails" THEN c[i - 1] + 1 ELSE 0,
         Stands(r, c, answers, data, i - 1)
  PROVE  Stands(r, c, answers, data, i)
<1> DEFINE a == answers[i]
           old == r[i - 1]
           new == r[i]
           m == c[i - 1]
<1>0. /\ Len(answers) \in Nat /\ i \in Nat /\ i - 1 \in 0 .. Len(answers) /\ i \in 0 .. Len(answers)
      /\ a \in ApiAnswer /\ old \in States(D, data) /\ m \in Nat /\ c[i] \in Nat
  BY DEF Answers
<1>1. Answered(new, old, a, data)
  <2> HIDE DEF a, old
  <2> QED BY <1>0, RequestIs DEF a, old
<1>2. /\ m <= i - 1
      /\ \A j \in 0 .. m - 1 : answers[i - 1 - j].kind = "fails"
      /\ old.status = "reading" =>
           old.failed = m /\ m < MaxFailed /\ \A k \in 1 .. i - 1 : answers[k].kind # "breaks"
      /\ old.status = "done" => old.results = data \/ \E k \in 1 .. i - 1 : Misleads(answers[k], data)
      /\ old.status = "raised" =>
           \E k \in 1 .. i - 1 : answers[k].kind = "breaks" \/ FailsFrom(answers, k, i - 1)
  BY DEF Stands
<1>3. c[i] <= i
  BY <1>0, <1>2
<1>4. \A j \in 0 .. c[i] - 1 : answers[i - j].kind = "fails"
  <2>1. CASE a.kind = "fails"
    <3>1. c[i] = m + 1
      BY <2>1
    <3>2. ASSUME NEW j \in 0 .. m, j # 0 PROVE answers[i - j].kind = "fails"
      <4>1. j - 1 \in 0 .. m - 1 /\ i - 1 - (j - 1) = i - j
        BY <1>0, <3>2
      <4> QED BY <1>2, <4>1
    <3>3. \A j \in 0 .. c[i] - 1 : j \in 0 .. m
      BY <1>0, <3>1
    <3>4. answers[i - 0].kind = "fails"
      BY <1>0, <2>1
    <3> QED BY <3>2, <3>3, <3>4
  <2>2. CASE a.kind # "fails"
    BY <2>2
  <2> QED BY <2>1, <2>2
<1>5. CASE old.status # "reading"
  <2>1. new = old
    BY <1>1, <1>5 DEF Answered
  <2>2. new.status = "done" => new.results = data \/ \E k \in 1 .. i : Misleads(answers[k], data)
    BY <1>0, <1>2, <2>1
  <2>3. new.status = "raised" => \E k \in 1 .. i : answers[k].kind = "breaks" \/ FailsFrom(answers, k, i)
    <3> SUFFICES ASSUME new.status = "raised"
                 PROVE  \E k \in 1 .. i : answers[k].kind = "breaks" \/ FailsFrom(answers, k, i)
      OBVIOUS
    <3>1. PICK k \in 1 .. i - 1 : answers[k].kind = "breaks" \/ FailsFrom(answers, k, i - 1)
      BY <1>2, <2>1
    <3>2. k \in 1 .. i
      BY <1>0
    <3>3. FailsFrom(answers, k, i - 1) => FailsFrom(answers, k, i)
      BY <1>0, <3>2 DEF FailsFrom
    <3> QED BY <3>1, <3>2, <3>3
  <2> QED BY <1>3, <1>4, <1>5, <2>1, <2>2, <2>3 DEF Stands
<1>9. ASSUME old.status = "reading", a.kind # "breaks"
      PROVE  \A k \in 1 .. i : answers[k].kind # "breaks"
  <2>1. \A k \in 1 .. i : k = i \/ k \in 1 .. i - 1
    BY <1>0
  <2> QED BY <1>2, <1>9, <2>1
<1>6. CASE old.status = "reading" /\ a.kind = "fails"
  <2>1. new = [results |-> old.results, failed |-> old.failed + 1, offset |-> old.offset,
               status |-> IF old.failed + 1 = MaxFailed THEN "raised" ELSE "reading"]
    BY <1>1, <1>6 DEF Answered
  <2>2. c[i] = m + 1 /\ old.failed = m /\ m < MaxFailed
    BY <1>2, <1>6
  <2>3. CASE m + 1 = MaxFailed
    <3>1. new.status = "raised"
      BY <2>1, <2>2, <2>3
    <3> DEFINE k == i - m
    <3>0. m <= i - 1
      BY <1>2
    <3>2. k \in 1 .. i /\ k + MaxFailed - 1 <= i
      BY <1>0, <2>3, <3>0
    <3>3. ASSUME NEW j \in 0 .. MaxFailed - 1 PROVE answers[k + j].kind = "fails"
      <4>1. m - j \in 0 .. c[i] - 1 /\ i - (m - j) = k + j
        BY <1>0, <2>2, <2>3
      <4> QED BY <1>4, <4>1
    <3> HIDE DEF k
    <3>4. FailsFrom(answers, k, i)
      BY <3>2, <3>3 DEF FailsFrom
    <3> QED BY <1>3, <1>4, <3>1, <3>2, <3>4 DEF Stands
  <2>4. CASE m + 1 # MaxFailed
    <3>1. new.status = "reading" /\ new.failed = m + 1
      BY <2>1, <2>2, <2>4
    <3>2. c[i] < MaxFailed
      BY <1>0, <2>2, <2>4
    <3>3. \A k \in 1 .. i : answers[k].kind # "breaks"
      BY <1>6, <1>9
    <3> QED BY <1>3, <1>4, <2>2, <3>1, <3>2, <3>3 DEF Stands
  <2> QED BY <2>3, <2>4
<1>7. CASE old.status = "reading" /\ a.kind = "empty"
  <2>1. new.status = "done"
    BY <1>1, <1>7 DEF Answered
  <2>2. i \in 1 .. i /\ Misleads(answers[i], data)
    BY <1>0, <1>7 DEF Misleads
  <2> QED BY <1>3, <1>4, <2>1, <2>2 DEF Stands
<1>10. CASE old.status = "reading" /\ a.kind = "breaks"
  <2>1. new.status = "raised"
    BY <1>1, <1>10 DEF Answered
  <2>2. i \in 1 .. i /\ answers[i].kind = "breaks"
    BY <1>0, <1>10
  <2> QED BY <1>3, <1>4, <2>1, <2>2 DEF Stands
<1>8. CASE old.status = "reading" /\ a.kind = "page"
  <2>1. PICK last \in Nat :
          /\ last <= Len(data)
          /\ new = [results |-> SubSeq(data, 1, last), failed |-> 0, offset |-> last,
                    status |-> IF last >= a.count THEN "done" ELSE "reading"]
    BY <1>1, <1>8 DEF Answered
  <2>2. c[i] = 0 /\ 0 < MaxFailed
    BY <1>8
  <2>3. new.status = "done" => new.results = data \/ Misleads(a, data)
    <3> SUFFICES ASSUME last >= a.count, ~(a.count < Len(data)) PROVE new.results = data
      BY <1>8, <2>1 DEF Misleads
    <3>1. last = Len(data)
      <4>1. a.count \in Nat /\ Len(data) \in Nat
        BY <1>0 DEF ApiAnswer
      <4> QED BY <2>1, <4>1
    <3>2. SubSeq(data, 1, Len(data)) = data
      BY SubSeqFull
    <3> QED BY <2>1, <3>1, <3>2
  <2>4. new.failed = 0 /\ new.status # "raised"
    BY <2>1
  <2>5. \A k \in 1 .. i : answers[k].kind # "breaks"
    BY <1>8, <1>9
  <2>6. i \in 1 .. i
    BY <1>0
  <2>7. new.status = "done" => new.results = data \/ \E k \in 1 .. i : Misleads(answers[k], data)
    BY <2>3, <2>6
  <2> QED BY <1>3, <1>4, <2>2, <2>4, <2>5, <2>7 DEF Stands
<1>11. a.kind \in {"fails", "breaks", "empty", "page"}
  BY <1>0 DEF ApiAnswer
<1> QED BY <1>5, <1>6, <1>7, <1>8, <1>10, <1>11

(* get_all(): a download that ends has what the API has, in order and once, *)
(* unless the API said that there is nothing more, or announced less than   *)
(* it has; it raises after MaxFailed failures in a row, or at once for any  *)
(* other exception, and for nothing else.  For all data, all ways the API   *)
(* answers, and every page size (noaa.py).                                  *)
THEOREM PagesAreComplete ==
  ASSUME NEW D, NEW data \in Seq(D), NEW answers \in Answers, PageSize \in Nat, MaxFailed \in Nat \ {0}
  PROVE  PagesComplete(data, answers)
<1> DEFINE n == Len(answers)
<1>0. n \in Nat /\ DOMAIN answers = 1 .. n
  BY DEF Answers
<1>1. PICK r \in [0 .. n -> States(D, data)] :
        /\ r[0] = StartState
        /\ \A i \in 1 .. n : r[i] = Request(r[i - 1], answers[i], data)
        /\ GetAll(data, answers) = r[n]
  BY Readings
<1>2. PICK c \in [0 .. n -> Nat] :
        /\ c[0] = 0
        /\ \A i \in 1 .. n : c[i] = IF answers[i].kind = "fails" THEN c[i - 1] + 1 ELSE 0
        /\ FailsAsked(answers) = c[n]
  BY Failures
<1>3. Stands(r, c, answers, data, n)
  <2> DEFINE M == {i \in 0 .. n : Stands(r, c, answers, data, i)}
  <2>1. 0 \in M
    <3>1. r[0].status = "reading" /\ r[0].failed = 0
      BY <1>1 DEF StartState
    <3>2. \A j \in 0 .. c[0] - 1 : FALSE
      BY <1>2
    <3>3. Stands(r, c, answers, data, 0)
      BY <1>2, <3>1, <3>2 DEF Stands
    <3> QED BY <1>0, <3>3
  <2>2. ASSUME NEW i \in 0 .. n - 1, i \in M PROVE i + 1 \in M
    <3> DEFINE k == i + 1
    <3>1. k \in 1 .. n /\ k - 1 = i /\ k \in 0 .. n
      BY <1>0
    <3>2. Stands(r, c, answers, data, k - 1)
      BY <2>2, <3>1
    <3>3. r[k] = Request(r[k - 1], answers[k], data)
      BY <1>1, <3>1
    <3>4. c[k] = IF answers[k].kind = "fails" THEN c[k - 1] + 1 ELSE 0
      BY <1>2, <3>1
    <3>5. Stands(r, c, answers, data, k)
      <4> HIDE DEF k
      <4> QED BY <3>1, <3>2, <3>3, <3>4, StandsOn
    <3> QED BY <3>1, <3>5
  <2>3. M \in SUBSET Nat
    BY <1>0
  <2>4. 0 .. n \subseteq M
    <3> HIDE DEF M, n
    <3> QED BY <1>0, <2>1, <2>2, <2>3, StepInduction
  <2>5. n \in 0 .. n
    BY <1>0
  <2> QED BY <2>4, <2>5
<1> DEFINE result == GetAll(data, answers)
<1>4. result = r[n] /\ result \in States(D, data)
  <2>1. n \in 0 .. n
    BY <1>0
  <2> QED BY <1>1, <2>1
<1>5. FoldLeft(LAMBDA m, a : IF a.kind = "fails" THEN m + 1 ELSE 0, 0, answers) = c[n]
  BY <1>2 DEF FailsAsked
<1>6. IsPrefix(result.results, data)
  <2> DEFINE o == result.offset
             s == result.results
  <2>1. o \in Nat /\ o <= Len(data) /\ s = SubSeq(data, 1, o) /\ Len(data) \in Nat
    <3> HIDE DEF result
    <3> QED BY <1>4 DEF States
  <2>2. Len(s) = o /\ SubSeq(s, 1, Len(s)) = s
    <3> HIDE DEF result
    <3>1. 1 \in Int /\ o \in Int /\ \A i \in 1 .. o : data[i] \in D
      BY <2>1
    <3>2. Len(SubSeq(data, 1, o)) = IF 1 <= o THEN o - 1 + 1 ELSE 0
      <4> HIDE DEF o
      <4> QED BY <3>1, SubSeqProperties
    <3>3. Len(s) = o
      BY <2>1, <3>2
    <3>4. s \in Seq(D)
      BY <1>4 DEF States
    <3>5. SubSeq(s, 1, Len(s)) = s
      BY <3>4, SubSeqFull
    <3> QED BY <3>3, <3>5
  <2>3. IsPrefix(s, data)
    <3> HIDE DEF s, o
    <3> QED BY <2>1, <2>2 DEF IsPrefix
  <2> QED BY <2>3
<1> DEFINE broken == \E i \in DOMAIN answers : answers[i].kind = "breaks"
<1>7. result.status = "done" =>
        \/ result.results = data
        \/ \E i \in DOMAIN answers :
             answers[i].kind = "empty" \/ (answers[i].kind = "page" /\ answers[i].count < Len(data))
  BY <1>0, <1>3, <1>4 DEF Stands, Misleads
<1>8. result.status = "reading" => c[n] < MaxFailed /\ ~broken
  BY <1>0, <1>3, <1>4 DEF Stands
<1>9. result.status = "raised" =>
        \/ broken
        \/ \E i \in DOMAIN answers : \A j \in 0 .. MaxFailed - 1 :
             i + j \in DOMAIN answers /\ answers[i + j].kind = "fails"
  <2> SUFFICES ASSUME result.status = "raised", ~broken
               PROVE  \E i \in 1 .. n : \A j \in 0 .. MaxFailed - 1 : i + j \in 1 .. n /\ answers[i + j].kind = "fails"
    BY <1>0
  <2>1. PICK k \in 1 .. n : FailsFrom(answers, k, n)
    BY <1>0, <1>3, <1>4 DEF Stands
  <2>2. \A j \in 0 .. MaxFailed - 1 : k + j \in 1 .. n
    BY <1>0, <2>1 DEF FailsFrom
  <2> QED BY <2>1, <2>2 DEF FailsFrom
<1> HIDE DEF n
<1> QED BY <1>5, <1>6, <1>7, <1>8, <1>9 DEF PagesComplete

-----------------------------------------------------------------------------
(* The format of a request on its way through sessions and links.           *)
D3mNames == {"version", "need_d3mindex"}
AreOptions(f) == f = [name \in DOMAIN f |-> f[name]]
(* What validate_format() accepts.                                          *)
Accepted(read) ==
  \/ read = [status |-> 200, format |-> "csv", options |-> <<>>]
  \/ /\ read = [status |-> 200, format |-> "d3m", options |-> read.options]
     /\ AreOptions(read.options) /\ DOMAIN read.options = D3mNames
     /\ read.options["need_d3mindex"] \in {"True", "False"}

LEMMA NoOptions == ASSUME NEW f, DOMAIN f = {}, AreOptions(f) PROVE f = <<>>
<1>1. <<>> = [x \in DOMAIN <<>> |-> <<>>[x]] /\ DOMAIN <<>> = {}
  OBVIOUS
<1> QED BY <1>1 DEF AreOptions

LEMMA ParsedOptions ==
  ASSUME NEW options, AreOptions(options), KnownOptions(options)
  PROVE  LET parsed == ParseOptions(options)
         IN /\ AreOptions(parsed) /\ DOMAIN parsed = D3mNames
            /\ parsed["need_d3mindex"] =
                 IF "need_d3mindex" \in DOMAIN options
                 THEN IF options["need_d3mindex"] \in FalseTexts THEN "False" ELSE "True"
                 ELSE "False"
            /\ "version" \in DOMAIN options => parsed["version"] = options["version"]
<1> DEFINE default == DefaultOptions
           names == DOMAIN options \cup D3mNames
           merged == [x \in names |-> IF x \in DOMAIN options THEN options[x] ELSE default[x]]
           parsed == ParseOptions(options)
<1>1. DOMAIN default = D3mNames /\ default["need_d3mindex"] = "False"
  BY DEF DefaultOptions, D3mNames
<1>2. names = D3mNames
  BY <1>1 DEF KnownOptions
<1>3. parsed = [merged EXCEPT !["need_d3mindex"] = IF merged["need_d3mindex"] \in FalseTexts
                                                   THEN "False" ELSE "True"]
  BY <1>1 DEF ParseOptions
<1>4. \A x \in D3mNames : merged[x] = (IF x \in DOMAIN options THEN options[x] ELSE default[x])
  BY <1>2
<1>5. DOMAIN merged = D3mNames
  BY <1>2
<1> HIDE DEF merged, parsed, default, names
<1>6. parsed = [x \in D3mNames |-> IF x = "need_d3mindex"
                                   THEN IF merged[x] \in FalseTexts THEN "False" ELSE "True"
                                   ELSE merged[x]]
  BY <1>3, <1>5
<1>7. AreOptions(parsed) /\ DOMAIN parsed = D3mNames
  BY <1>6 DEF AreOptions
<1>8. /\ parsed["version"] = merged["version"]
      /\ parsed["need_d3mindex"] = IF merged["need_d3mindex"] \in FalseTexts THEN "False" ELSE "True"
  BY <1>6 DEF D3mNames
<1>9. "False" \in FalseTexts
  BY DEF FalseTexts
<1>10. /\ parsed["need_d3mindex"] =
             IF "need_d3mindex" \in DOMAIN options
             THEN IF options["need_d3mindex"] \in FalseTexts THEN "False" ELSE "True"
             ELSE "False"
       /\ "version" \in DOMAIN options => parsed["version"] = options["version"]
  BY <1>1, <1>4, <1>8, <1>9 DEF D3mNames
<1> QED BY <1>7, <1>10 DEF parsed

LEMMA Validated ==
  ASSUME NEW format, NEW options, AreOptions(options)
  PROVE  LET read == ValidateFormat(format, options)
         IN read.status = 200 =>
              /\ Accepted(read) /\ read.format = format
              /\ format = "d3m" => KnownOptions(options) /\ read.options = ParseOptions(options)
<1> DEFINE read == ValidateFormat(format, options)
<1>1. SUFFICES ASSUME read.status = 200
               PROVE  /\ Accepted(read) /\ read.format = format
                      /\ format = "d3m" => KnownOptions(options) /\ read.options = ParseOptions(options)
  OBVIOUS
<1>2. CASE format = "d3m"
  <2>1. KnownOptions(options)
    BY <1>1, <1>2 DEF ValidateFormat, Refuse
  <2>2. read = [status |-> 200, format |-> "d3m", options |-> ParseOptions(options)]
    BY <1>2, <2>1 DEF ValidateFormat
  <2> DEFINE parsed == ParseOptions(options)
  <2>3. AreOptions(parsed) /\ DOMAIN parsed = D3mNames /\ parsed["need_d3mindex"] \in {"True", "False"}
    BY <2>1, ParsedOptions
  <2>4. Accepted(read) /\ read.format = "d3m" /\ read.options = parsed
    <3> HIDE DEF read, parsed
    <3> QED BY <2>2, <2>3 DEF parsed, Accepted
  <2> QED BY <1>2, <2>1, <2>4
<1>3. CASE format # "d3m"
  <2>1. format = "csv" /\ options = <<>>
    BY <1>1, <1>3 DEF ValidateFormat, Refuse
  <2>2. read = [status |-> 200, format |-> "csv", options |-> <<>>]
    BY <2>1 DEF ValidateFormat
  <2>3. Accepted(read) /\ read.format = "csv"
    <3> HIDE DEF read
    <3> QED BY <2>2 DEF Accepted
  <2> QED BY <1>3, <2>1, <2>3
<1> QED BY <1>2, <1>3

(* What was accepted is read again as what it was, whichever default the    *)
(* endpoint has and whoever wrote the Boolean as a text.                    *)
LEMMA ReadAgain ==
  ASSUME NEW read, Accepted(read), NEW default, NEW texts, AreOptions(texts),
         DOMAIN texts = DOMAIN read.options,
         \A name \in DOMAIN texts : name # "need_d3mindex" => texts[name] = read.options[name],
         "need_d3mindex" \in DOMAIN texts =>
           texts["need_d3mindex"] \in {read.options["need_d3mindex"],
                                       InJavaScript(read.options["need_d3mindex"])},
         NEW arguments,
         arguments = [format |-> read.format, options |-> [name \in DOMAIN texts |-> <<texts[name]>>]]
  PROVE  ReadFormat(arguments, default) = read
<1>1. /\ arguments.format = read.format /\ read.format \in {"csv", "d3m"}
      /\ DOMAIN arguments.options = DOMAIN texts
      /\ \A name \in DOMAIN texts : arguments.options[name] = <<texts[name]>>
  <2>1. read.format \in {"csv", "d3m"}
    BY DEF Accepted
  <2> QED BY <2>1
<1>2. ~ \E name \in DOMAIN arguments.options : Len(arguments.options[name]) # 1
  BY <1>1
<1>3. [name \in DOMAIN arguments.options |-> arguments.options[name][1]] = texts
  <2>1. \A name \in DOMAIN texts : arguments.options[name][1] = texts[name]
    BY <1>1
  <2> QED BY <1>1, <2>1 DEF AreOptions
<1>4. ReadFormat(arguments, default) = ValidateFormat(read.format, texts)
  BY <1>1, <1>2, <1>3 DEF ReadFormat
<1>5. CASE read = [status |-> 200, format |-> "csv", options |-> <<>>]
  <2>1. read.format = "csv" /\ DOMAIN read.options = {} /\ read.options = <<>>
    BY <1>5
  <2>2. texts = <<>>
    BY <2>1, NoOptions
  <2>3. ValidateFormat("csv", texts) = [status |-> 200, format |-> "csv", options |-> <<>>]
    BY <2>2 DEF ValidateFormat
  <2> QED BY <1>4, <1>5, <2>1, <2>3
<1>6. CASE read # [status |-> 200, format |-> "csv", options |-> <<>>]
  <2>1. /\ read = [status |-> 200, format |-> "d3m", options |-> read.options]
        /\ AreOptions(read.options) /\ DOMAIN read.options = D3mNames
        /\ read.options["need_d3mindex"] \in {"True", "False"}
    BY <1>6 DEF Accepted
  <2> DEFINE need == read.options["need_d3mindex"]
             parsed == ParseOptions(texts)
  <2>2. KnownOptions(texts)
    BY <2>1 DEF KnownOptions, DefaultOptions, D3mNames
  <2>3. /\ AreOptions(parsed) /\ DOMAIN parsed = D3mNames
        /\ parsed["need_d3mindex"] = IF texts["need_d3mindex"] \in FalseTexts THEN "False" ELSE "True"
        /\ parsed["version"] = texts["version"]
    BY <2>1, <2>2, ParsedOptions DEF D3mNames
  <2>4. texts["version"] = read.options["version"]
    BY <2>1 DEF D3mNames
  <2>5. texts["need_d3mindex"] \in {need, InJavaScript(need)}
    BY <2>1 DEF D3mNames
  <2>6. (IF texts["need_d3mindex"] \in FalseTexts THEN "False" ELSE "True") = need
    BY <2>1, <2>5 DEF FalseTexts, InJavaScript
  <2>7. parsed = read.options
    <3> HIDE DEF parsed
    <3>1. \A name \in D3mNames : parsed[name] = read.options[name]
      BY <2>3, <2>4, <2>6 DEF D3mNames
    <3> QED BY <2>1, <2>3, <3>1 DEF AreOptions
  <2>8. ValidateFormat("d3m", texts) = [status |-> 200, format |-> "d3m", options |-> parsed]
    BY <2>2 DEF ValidateFormat
  <2>9. read.format = "d3m"
    BY <2>1
  <2> HIDE DEF parsed
  <2> QED BY <1>4, <2>1, <2>7, <2>8, <2>9
<1> QED BY <1>5, <1>6

(* The client that a session was opened for gets the format and options     *)
(* that the session asked for, through the link to the frontend, what it    *)
(* makes of Booleans, the record in the session and the defaults of two     *)
(* endpoints: for every format and all options (base.py, sessions.py,       *)
(* rest.ts).                                                                *)
THEOREM FormatsAreKept ==
  ASSUME NEW request, AreOptions(request.options)
  PROVE  SessionKeepsFormat(request)
<1> DEFINE session == SessionNew(request)
           sent == ReadFormat(SessionArguments(session), "d3m")
           fetched == ReadFormat(Serialize(sent.format, sent.options), "csv")
<1> SUFFICES ASSUME session.status = 200 PROVE sent = session /\ fetched = session
  BY DEF SessionKeepsFormat
<1>1. Accepted(session)
  <2> DEFINE valid == ValidateFormat(request.format, request.options)
  <2>1. session = valid /\ valid.status = 200
    BY DEF SessionNew, Refuse
  <2>2. valid.status = 200 => Accepted(valid)
    BY Validated
  <2> HIDE DEF valid, session
  <2> QED BY <2>1, <2>2
<1> HIDE DEF session
<1>2. AreOptions(session.options)
  BY <1>1 DEF Accepted, AreOptions
<1>3. sent = session
  <2> DEFINE texts == [name \in DOMAIN session.options |->
                         IF name = "need_d3mindex" THEN InJavaScript(session.options[name])
                         ELSE session.options[name]]
  <2>1. AreOptions(texts) /\ DOMAIN texts = DOMAIN session.options
    BY DEF AreOptions
  <2>2. \A name \in DOMAIN texts : name # "need_d3mindex" => texts[name] = session.options[name]
    OBVIOUS
  <2>3. "need_d3mindex" \in DOMAIN texts =>
          texts["need_d3mindex"] = InJavaScript(session.options["need_d3mindex"])
    OBVIOUS
  <2>4. SessionArguments(session) =
          [format |-> session.format, options |-> [name \in DOMAIN texts |-> <<texts[name]>>]]
    <3>1. [name \in DOMAIN session.options |->
             <<IF name = "need_d3mindex" THEN InJavaScript(session.options[name])
               ELSE session.options[name]>>] = [name \in DOMAIN texts |-> <<texts[name]>>]
      OBVIOUS
    <3> HIDE DEF texts
    <3> QED BY <3>1 DEF SessionArguments
  <2> HIDE DEF texts
  <2> QED BY <1>1, <2>1, <2>2, <2>3, <2>4, ReadAgain
<1>4. ReadFormat(Serialize(session.format, session.options), "csv") = session
  BY <1>1, <1>2, ReadAgain DEF Serialize
<1> QED BY <1>3, <1>4

LEMMA ReadAccepted ==
  ASSUME NEW arguments, NEW default, ReadFormat(arguments, default).status = 200
  PROVE  Accepted(ReadFormat(arguments, default))
<1> DEFINE format == IF arguments.format = "" THEN default ELSE arguments.format
           options == [name \in DOMAIN arguments.options |-> arguments.options[name][1]]
<1>1. ReadFormat(arguments, default) = ValidateFormat(format, options)
  <2> DEFINE bad == \E name \in DOMAIN arguments.options : Len(arguments.options[name]) # 1
  <2>1. ReadFormat(arguments, default) = IF bad THEN Refuse(400) ELSE ValidateFormat(format, options)
    BY Zenon DEF ReadFormat
  <2> HIDE DEF format, options, bad
  <2>2. Refuse(400).status # 200
    BY DEF Refuse
  <2> QED BY <2>1, <2>2
<1>2. AreOptions(options)
  BY DEF AreOptions
<1> HIDE DEF format, options
<1> QED BY <1>1, <1>2, Validated

(* The answer only depends on what was read from the arguments.             *)
CanSend(metadata, read) ==
  metadata.file # "none" /\ (read.format = "d3m" => read.options["version"] \in Versions)
SentFor(id, metadata, read, how) ==
  IF read.status # 200 THEN [kind |-> "error", status |-> read.status]
  ELSE IF metadata.direct /\ how = "fetch" /\ read.format = "csv" /\ ~metadata.convert
  THEN [kind |-> "redirect", file |-> metadata.file]
  ELSE IF ~CanSend(metadata, read) THEN [kind |-> "error", status |-> 500]
  ELSE IF how = "attach" THEN [kind |-> "attached", link |-> Link(id, read.format, read.options)]
  ELSE [kind |-> "file", file |-> metadata.file, format |-> read.format, options |-> read.options]

LEMMA SentIs ==
  ASSUME NEW id, NEW metadata, NEW arguments, NEW read, read = ReadFormat(arguments, "csv")
  PROVE  /\ SendDataset(id, metadata, arguments, TRUE) = SentFor(id, metadata, read, "attach")
         /\ SendDataset(id, metadata, arguments, FALSE) = SentFor(id, metadata, read, "fetch")
BY DEF SendDataset, SentFor, Materializes, CanSend

LEMMA AttachedMeans ==
  ASSUME NEW id, NEW metadata, NEW read, SentFor(id, metadata, read, "attach").kind = "attached"
  PROVE  /\ read.status = 200 /\ CanSend(metadata, read)
         /\ SentFor(id, metadata, read, "attach") = [kind |-> "attached", link |-> Link(id, read.format, read.options)]
BY DEF SentFor

(* What was attached to a session is found behind its link, in the format   *)
(* and with the options that were asked for; a task with metadata of its    *)
(* own leads to the dataset of the index.  For all tasks and indices        *)
(* (download.py).                                                           *)
THEOREM LinksAreGood ==
  ASSUME NEW index, NEW task, NEW arguments
  PROVE  LinksLead(index, task, arguments)
<1> DEFINE attached == Download(index, task, arguments, TRUE)
           sent == Download(index, task, arguments, FALSE)
           found == DownloadId(index, attached.link.id, attached.link.arguments, FALSE)
           read == ReadFormat(arguments, "csv")
           own == task.metadata # <<>>
           id == IF own /\ task.id = "" THEN "unknown_id" ELSE task.id
           metadata == IF own THEN task.metadata[1] ELSE index[task.id]
<1> SUFFICES ASSUME attached.kind = "attached"
             PROVE  /\ task.metadata = <<>> => found = sent /\ found.kind \in {"file", "redirect"}
                    /\ found.kind = "file" /\ sent.kind = "file" =>
                         found.format = sent.format /\ found.options = sent.options
                    /\ found.kind = "error" =>
                         /\ task.metadata # <<>>
                         /\ attached.link.id \notin DOMAIN index \/ index[attached.link.id].file = "none"
  BY DEF LinksLead
<1>1. ~own => task.id # "" /\ task.id \in DOMAIN index
  BY DEF Download, DownloadId
<1>2. ASSUME NEW session \in BOOLEAN, NEW how, how = IF session THEN "attach" ELSE "fetch"
      PROVE  Download(index, task, arguments, session) = SentFor(id, metadata, read, how)
  <2>1. Download(index, task, arguments, session) = SendDataset(id, metadata, arguments, session)
    <3>1. CASE own
      BY <3>1 DEF Download
    <3>2. CASE ~own
      BY <1>1, <3>2 DEF Download, DownloadId
    <3> QED BY <3>1, <3>2
  <2> HIDE DEF id, metadata, read
  <2>2. CASE session = TRUE
    BY <1>2, <2>1, <2>2, SentIs DEF read
  <2>3. CASE session = FALSE
    BY <1>2, <2>1, <2>3, SentIs DEF read
  <2> QED BY <2>2, <2>3
<1>3. attached = SentFor(id, metadata, read, "attach") /\ sent = SentFor(id, metadata, read, "fetch")
  BY <1>2
<1> HIDE DEF attached, sent, read, id, metadata
<1>4. /\ read.status = 200 /\ CanSend(metadata, read)
      /\ attached.link = Link(id, read.format, read.options)
  <2>1. SentFor(id, metadata, read, "attach").kind = "attached"
    BY <1>3
  <2>2. /\ read.status = 200 /\ CanSend(metadata, read)
        /\ SentFor(id, metadata, read, "attach")
             = [kind |-> "attached", link |-> Link(id, read.format, read.options)]
    BY <2>1, AttachedMeans
  <2> QED BY <1>3, <2>2
<1>5. Accepted(read)
  BY <1>4, ReadAccepted DEF read
<1>6. attached.link.id = id /\ attached.link.arguments = Serialize(read.format, read.options)
  BY <1>4 DEF Link
<1>7. ReadFormat(attached.link.arguments, "csv") = read
  <2>1. AreOptions(read.options)
    BY <1>5 DEF Accepted, AreOptions
  <2>2. attached.link.arguments =
          [format |-> read.format, options |-> [name \in DOMAIN read.options |-> <<read.options[name]>>]]
    BY <1>6 DEF Serialize
  <2> QED BY <1>5, <2>1, <2>2, ReadAgain
<1>8. found = IF id \in DOMAIN index THEN SentFor(id, index[id], read, "fetch") ELSE [kind |-> "error", status |-> 404]
  <2>1. SendDataset(id, index[id], attached.link.arguments, FALSE) = SentFor(id, index[id], read, "fetch")
    BY <1>7, SentIs
  <2> QED BY <1>6, <2>1 DEF DownloadId
<1> HIDE DEF found
<1>9. ASSUME NEW other, other.file # "none"
      PROVE  SentFor(id, other, read, "fetch").kind \in {"file", "redirect"}
  <2>1. CanSend(other, read)
    BY <1>4, <1>9 DEF CanSend
  <2> QED BY <1>4, <2>1 DEF SentFor
<1>10. metadata.file # "none"
  BY <1>4 DEF CanSend
<1>11. task.metadata = <<>> => found = sent /\ found.kind \in {"file", "redirect"}
  <2> SUFFICES ASSUME task.metadata = <<>> PROVE found = sent /\ found.kind \in {"file", "redirect"}
    OBVIOUS
  <2>1. id = task.id /\ metadata = index[id] /\ id \in DOMAIN index
    BY <1>1 DEF id, metadata
  <2> QED BY <1>3, <1>8, <1>9, <1>10, <2>1
<1>12. ASSUME NEW other, SentFor(id, other, read, "fetch").kind = "file"
       PROVE  SentFor(id, other, read, "fetch").format = read.format /\ SentFor(id, other, read, "fetch").options = read.options
  BY <1>12 DEF SentFor
<1>13. found.kind = "file" /\ sent.kind = "file" => found.format = sent.format /\ found.options = sent.options
  <2> SUFFICES ASSUME found.kind = "file", sent.kind = "file"
               PROVE  found.format = sent.format /\ found.options = sent.options
    OBVIOUS
  <2>1. found = SentFor(id, index[id], read, "fetch")
    BY <1>8
  <2>2. found.format = read.format /\ found.options = read.options
    BY <1>12, <2>1
  <2>3. sent.format = read.format /\ sent.options = read.options
    BY <1>3, <1>12
  <2> QED BY <2>2, <2>3
<1>14. found.kind = "error" => task.metadata # <<>> /\ (id \notin DOMAIN index \/ index[id].file = "none")
  BY <1>8, <1>9, <1>11
<1> QED BY <1>6, <1>11, <1>13, <1>14

-----------------------------------------------------------------------------
(* Uploads, documents of the D3M format, and strings of a profile.          *)

(* What Upload.post() refuses leaves nothing behind, and a dataset that it  *)
(* accepts has each required field, has a file if and only if it is         *)
(* materialized from it, and has an address otherwise.                      *)
THEOREM UploadsAreWhole ==
  ASSUME NEW NumberOfFields, NEW request, DOMAIN request.fields = 1 .. NumberOfFields, NumberOfFields \in Nat
  PROVE  UploadsWhole(request)
<1> DEFINE ill(f) == request.fields[f].value = "invalid"
           lacks(f) == request.fields[f].required /\ request.fields[f].value = "none"
           before(f) == \A g \in 1 .. (f - 1) : ~ill(g) /\ ~lacks(g)
           answer == Upload(request)
           wrong == {f \in 1 .. NumberOfFields : ill(f) \/ lacks(f)}
           refused(status) == [status |-> status, stored |-> FALSE, metadata |-> <<>>]
<1>1. ASSUME wrong # {}
      PROVE  answer = refused(500) \/ answer = refused(400)
  <2>1. IsFiniteSet(wrong) /\ wrong \in SUBSET Nat
    <3>1. IsFiniteSet(1 .. NumberOfFields)
      BY FS_Interval
    <3>2. wrong \in SUBSET (1 .. NumberOfFields)
      OBVIOUS
    <3> HIDE DEF wrong
    <3>3. IsFiniteSet(wrong)
      BY <3>1, <3>2, FS_Subset
    <3> QED BY <3>2, <3>3
  <2>2. PICK f \in wrong : \A g \in wrong : f <= g
    <3> HIDE DEF wrong
    <3> QED BY <1>1, <2>1, ExtremesExist
  <2>3. f \in DOMAIN request.fields /\ f \in Nat
    OBVIOUS
  <2>4. before(f)
    <3> SUFFICES ASSUME NEW g \in 1 .. (f - 1)
                 PROVE  ~ill(g) /\ ~lacks(g)
      OBVIOUS
    <3>1. g \in 1 .. NumberOfFields /\ ~(f <= g)
      BY <2>3
    <3> QED BY <2>2, <3>1
  <2>5. CASE \E h \in DOMAIN request.fields : before(h) /\ ill(h)
    BY <2>5 DEF Upload
  <2>6. CASE ~\E h \in DOMAIN request.fields : before(h) /\ ill(h)
    <3>1. lacks(f)
      BY <2>3, <2>4, <2>6
    <3>2. \E h \in DOMAIN request.fields : before(h) /\ lacks(h)
      BY <2>3, <2>4, <3>1
    <3> QED BY <2>6, <3>2 DEF Upload
  <2> QED BY <2>5, <2>6
<1>2. ASSUME wrong = {}
      PROVE  UploadsWhole(request)
  <2>1. \A f \in DOMAIN request.fields : ~ill(f) /\ ~lacks(f)
    BY <1>2
  <2>2. {f \in DOMAIN request.fields : request.fields[f].required} \subseteq Kept(request)
    BY <2>1 DEF Kept
  <2>3. \/ answer = refused(400)
        \/ answer = [status |-> 200, stored |-> TRUE,
                     metadata |-> <<Metadata(request, "datamart.upload")>>]
        \/ answer = [status |-> 200, stored |-> FALSE,
                     metadata |-> <<Metadata(request, "datamart.url")>>]
    BY <2>1 DEF Upload
  <2> DEFINE upload == Metadata(request, "datamart.upload")
             url == Metadata(request, "datamart.url")
  <2>4. /\ upload.identifier = "datamart.upload" /\ ~upload.direct /\ upload.fields = Kept(request)
        /\ url.identifier = "datamart.url" /\ url.direct /\ url.fields = Kept(request)
    BY DEF Metadata
  <2> HIDE DEF upload, url, answer
  <2>5. CASE answer = refused(400)
    BY <2>5 DEF answer, UploadsWhole
  <2>6. CASE answer = [status |-> 200, stored |-> TRUE, metadata |-> <<upload>>]
    <3>1. answer.status = 200 /\ answer.stored /\ answer.metadata[1] = upload
      BY <2>6
    <3> QED BY <2>2, <2>4, <3>1 DEF answer, UploadsWhole
  <2>7. CASE answer = [status |-> 200, stored |-> FALSE, metadata |-> <<url>>]
    <3>1. answer.status = 200 /\ ~answer.stored /\ answer.metadata[1] = url
      BY <2>7
    <3> QED BY <2>2, <2>4, <3>1 DEF answer, UploadsWhole
  <2> QED BY <2>3, <2>5, <2>6, <2>7 DEF upload, url
<1>3. ASSUME answer = refused(500) \/ answer = refused(400)
      PROVE  UploadsWhole(request)
  BY <1>3 DEF UploadsWhole
<1> QED BY <1>1, <1>2, <1>3

(* The document of the D3M format has a column for each one of the file     *)
(* that is sent with it, in their order (d3m_metadata(), D3mWriter).        *)
THEOREM DocumentsMatch ==
  ASSUME NEW Descriptions, NEW columns \in Seq(Descriptions), NEW needIndex
  PROVE  DocumentMatches(columns, needIndex)
<1> DEFINE names == [i \in DOMAIN columns |-> columns[i].name]
           described == Described(columns, needIndex)
           index == [name |-> "d3mIndex", structural |-> "integer", semantic |-> {"id"}]
<1>1. DOMAIN columns = 1 .. Len(columns) /\ Len(columns) \in Nat
  OBVIOUS
<1>2. names \in Seq({columns[i].name : i \in DOMAIN columns}) /\ Len(names) = Len(columns)
  BY <1>1
<1>3. (\A i \in DOMAIN columns : columns[i].name # "d3mIndex") <=> ~Contains(names, "d3mIndex")
  BY <1>1, <1>2 DEF Contains
<1>4. CASE needIndex /\ \A i \in DOMAIN columns : columns[i].name # "d3mIndex"
  <2> DEFINE all == <<index>> \o columns
  <2>1. WrittenHeader(names, needIndex) = <<"d3mIndex">> \o names
    BY <1>3, <1>4 DEF WrittenHeader
  <2>2. [i \in DOMAIN described |-> described[i].name] = [i \in DOMAIN all |-> all[i].name]
    BY <1>4 DEF Described
  <2>3. /\ DOMAIN all = 1 .. (1 + Len(columns))
        /\ all[1].name = "d3mIndex"
        /\ \A i \in 2 .. (1 + Len(columns)) : all[i] = columns[i - 1]
    BY <1>1
  <2>4. /\ DOMAIN (<<"d3mIndex">> \o names) = 1 .. (1 + Len(columns))
        /\ (<<"d3mIndex">> \o names)[1] = "d3mIndex"
        /\ \A i \in 2 .. (1 + Len(columns)) : (<<"d3mIndex">> \o names)[i] = columns[i - 1].name
    BY <1>1, <1>2
  <2>5. [i \in DOMAIN all |-> all[i].name] = <<"d3mIndex">> \o names
    <3> DEFINE written == <<"d3mIndex">> \o names
               listed == [i \in DOMAIN all |-> all[i].name]
    <3>1. written = [i \in 1 .. (1 + Len(columns)) |-> written[i]]
      BY <1>1, <1>2, <2>4
    <3>2. listed = [i \in 1 .. (1 + Len(columns)) |-> listed[i]]
      BY <2>3
    <3>3. ASSUME NEW i \in 1 .. (1 + Len(columns))
          PROVE  listed[i] = written[i]
      <4>1. listed[i] = all[i].name
        BY <2>3
      <4> HIDE DEF all, names, listed, written
      <4>2. i = 1 \/ i \in 2 .. (1 + Len(columns))
        BY <1>1
      <4> QED BY <2>3, <2>4, <4>1, <4>2 DEF written
    <3> HIDE DEF listed, written
    <3>4. listed = written
      BY <3>1, <3>2, <3>3
    <3> QED BY <3>4 DEF listed, written
  <2> QED BY <2>1, <2>2, <2>5 DEF DocumentMatches
<1>5. CASE ~(needIndex /\ \A i \in DOMAIN columns : columns[i].name # "d3mIndex")
  <2>1. WrittenHeader(names, needIndex) = names
    BY <1>3, <1>5 DEF WrittenHeader
  <2>2. [i \in DOMAIN described |-> described[i].name] = names
    BY <1>5 DEF Described
  <2> QED BY <2>1, <2>2 DEF DocumentMatches
<1> QED BY <1>4, <1>5

(* truncate_string() keeps to its limit, wherever it finds a space.         *)
THEOREM StringsFit ==
  ASSUME Limit \in Nat, Window \in Nat,
         NEW length \in Nat, NEW spaces \in SUBSET Nat, IsFiniteSet(spaces)
  PROVE  StringFits(length, spaces)
<1> DEFINE found == {s \in spaces : s >= Limit - Window /\ s < Limit - 3}
<1>1. IsFiniteSet(found) /\ found \in SUBSET Nat /\ \A s \in found : s < Limit - 3
  BY FS_Subset
<1>2. ASSUME found # {}
      PROVE  Max(found) + 3 <= Limit
  <2> HIDE DEF found
  <2>1. Max(found) \in found
    BY <1>1, <1>2, ExtremesExist
  <2>2. PICK s \in Nat : s = Max(found) /\ s < Limit - 3
    BY <1>1, <2>1
  <2>3. s + 3 <= Limit
    BY <2>2
  <2> QED BY <2>2, <2>3
<1> QED BY <1>2 DEF StringFits, Truncated
-----------------------------------------------------------------------------
(* The index of the D3M format.  How many lines are written when the buffer *)
(* has come to a line: those before it, and before a blank one.             *)
IsWritten(lines, visible, n) ==
  /\ \A i \in 1 .. n : i < visible /\ lines[i] # "blank"
  /\ n + 1 >= visible \/ lines[n + 1] = "blank"
After(n) ==
  [generate |-> "True", start |-> n + 1, idx |-> n - 1, rows |-> [i \in 1 .. n |-> <<i - 2, i>>]]

LEMMA WrittenOnce ==
  ASSUME NEW lines, NEW visible \in Nat, NEW m \in Nat, NEW n \in Nat,
         IsWritten(lines, visible, m), IsWritten(lines, visible, n)
  PROVE  m = n
<1>1. ASSUME NEW a \in Nat, NEW b \in Nat, a < b, IsWritten(lines, visible, a), IsWritten(lines, visible, b)
      PROVE  FALSE
  <2>1. a + 1 \in 1 .. b
    BY <1>1
  <2> QED BY <1>1, <2>1 DEF IsWritten
<1> QED BY <1>1

(* WriteLines() writes the lines that are complete now, and no others.      *)
LEMMA LinesComplete ==
  ASSUME NEW lines, NEW visible \in Nat, NEW from \in Nat \ {0}
  PROVE  /\ Complete(lines, from, visible) \in 0 .. visible
         /\ \A i \in 0 .. Complete(lines, from, visible) - 1 : from + i < visible /\ lines[from + i] # "blank"
         /\ \/ from + Complete(lines, from, visible) >= visible
            \/ lines[from + Complete(lines, from, visible)] = "blank"
<1> DEFINE Q(n) == from + n >= visible \/ lines[from + n] = "blank"
           S == {n \in 0 .. visible : Q(n)}
<1>1. visible \in S /\ S \in SUBSET Nat /\ IsFiniteSet(S)
  <2>1. visible \in S /\ S \in SUBSET (0 .. visible)
    OBVIOUS
  <2>2. IsFiniteSet(0 .. visible) /\ 0 .. visible \in SUBSET Nat
    BY FS_Interval
  <2> HIDE DEF S
  <2>3. IsFiniteSet(S)
    BY <2>1, <2>2, FS_Subset
  <2> QED BY <2>1, <2>2, <2>3
<1>2. PICK n \in S : \A m \in S : n <= m
  <2> HIDE DEF S
  <2> QED BY <1>1, ExtremesExist
<1>3. n \in 0 .. visible /\ Q(n)
  OBVIOUS
<1>4. ASSUME NEW i \in 0 .. n - 1
      PROVE  from + i < visible /\ lines[from + i] # "blank"
  <2>1. i \in 0 .. visible /\ ~(n <= i)
    BY <1>3
  <2>2. ~Q(i)
    BY <1>2, <2>1
  <2> QED BY <2>1, <2>2
<1> QED BY <1>3, <1>4 DEF Complete

Continues(f, t, m, n) == \A i \in 1 .. n : f[m + i] = t[i]
LEMMA Joined ==
  ASSUME NEW S, NEW s, NEW t, NEW m \in Nat, NEW n \in Nat, NEW f,
         s \in Seq(S), t \in Seq(S), Len(s) = m, Len(t) = n,
         f \in [1 .. m + n -> S],
         Continues(f, s, 0, m), Continues(f, t, m, n)
  PROVE  s \o t = f
<1>1. m \in Nat /\ n \in Nat
  OBVIOUS
<1> DEFINE st == s \o t
<1>2. st \in Seq(S) /\ Len(st) = m + n
        /\ \A i \in 1 .. m + n : st[i] = IF i <= m THEN s[i] ELSE t[i - m]
  BY ConcatProperties
<1> HIDE DEF st
<1>3. DOMAIN st = 1 .. m + n /\ st = [i \in DOMAIN st |-> st[i]]
  BY <1>2, LenProperties
<1>0. (\A i \in 1 .. m : f[0 + i] = s[i]) /\ (\A i \in 1 .. n : f[m + i] = t[i])
  BY DEF Continues
<1>4. ASSUME NEW i \in 1 .. m + n
      PROVE  st[i] = f[i]
  <2>1. CASE i <= m
    <3>1. i \in 1 .. m /\ 0 + i = i
      BY <1>1, <2>1
    <3> QED BY <1>0, <1>2, <2>1, <3>1
  <2>2. CASE ~(i <= m)
    <3>1. i - m \in 1 .. n /\ m + (i - m) = i
      BY <1>1, <2>2
    <3>2. f[m + (i - m)] = t[i - m]
      BY <1>0, <3>1
    <3> QED BY <1>2, <2>2, <3>1, <3>2
  <2> QED BY <2>1, <2>2
<1> QED BY <1>3, <1>4 DEF st

LEMMA VisibleTyped == ASSUME NEW position \in Nat PROVE Visible(position) \in Nat
BY DEF Visible
(* What a flush decides (the arms of _flush()).                             *)
LEMMA FlushKeeps ==
  ASSUME NEW lines, NEW state, NEW hasIndex \in BOOLEAN, NEW position \in Nat,
         state.generate \in {"ValueError", "False"}
  PROVE  Flush(state, lines, hasIndex, position) = state
<1> DEFINE v == Visible(position)
           g == state.generate
           w == WriteLines([state EXCEPT !.generate = "True"], lines, v)
           f == [state EXCEPT !.generate = "False"]
           r == Raised
           F == Flush(state, lines, hasIndex, position)
<1>1. F = CASE g \in {"ValueError", "False"} -> state
            [] g = "None" /\ v < 2 -> r
            [] g = "None" /\ v >= 2 /\ hasIndex -> f
            [] OTHER -> w
  BY DEF Flush
<1>2. v \in Nat
  BY DEF Visible
<1>3. g \in {"ValueError", "False"}
  OBVIOUS
<1> HIDE DEF v, g, w, f, r, F
<1>4. F = state
  BY <1>1, <1>2, <1>3
<1> QED BY <1>4 DEF F
LEMMA FlushRaises ==
  ASSUME NEW lines, NEW state, NEW hasIndex \in BOOLEAN, NEW position \in Nat,
         state.generate = "None", Visible(position) < 2
  PROVE  Flush(state, lines, hasIndex, position) = Raised
<1> DEFINE v == Visible(position)
           g == state.generate
           w == WriteLines([state EXCEPT !.generate = "True"], lines, v)
           f == [state EXCEPT !.generate = "False"]
           r == Raised
           F == Flush(state, lines, hasIndex, position)
<1>1. F = CASE g \in {"ValueError", "False"} -> state
            [] g = "None" /\ v < 2 -> r
            [] g = "None" /\ v >= 2 /\ hasIndex -> f
            [] OTHER -> w
  BY DEF Flush
<1>2. v \in Nat
  BY DEF Visible
<1>3. g = "None" /\ v < 2
  OBVIOUS
<1> HIDE DEF v, g, w, f, r, F
<1>4. F = r
  BY <1>1, <1>2, <1>3
<1> QED BY <1>4 DEF F, r
LEMMA FlushCopies ==
  ASSUME NEW lines, NEW state, NEW hasIndex \in BOOLEAN, NEW position \in Nat,
         state.generate = "None", Visible(position) >= 2, hasIndex
  PROVE  Flush(state, lines, hasIndex, position) = [state EXCEPT !.generate = "False"]
<1> DEFINE v == Visible(position)
           g == state.generate
           w == WriteLines([state EXCEPT !.generate = "True"], lines, v)
           f == [state EXCEPT !.generate = "False"]
           r == Raised
           F == Flush(state, lines, hasIndex, position)
<1>1. F = CASE g \in {"ValueError", "False"} -> state
            [] g = "None" /\ v < 2 -> r
            [] g = "None" /\ v >= 2 /\ hasIndex -> f
            [] OTHER -> w
  BY DEF Flush
<1>2. v \in Nat
  BY DEF Visible
<1>3. g = "None" /\ v >= 2 /\ hasIndex
  OBVIOUS
<1> HIDE DEF v, g, w, f, r, F
<1>4. F = f
  BY <1>1, <1>2, <1>3
<1> QED BY <1>4 DEF F, f
LEMMA FlushNumbers ==
  ASSUME NEW lines, NEW state, NEW hasIndex \in BOOLEAN, NEW position \in Nat,
         state.generate = "True" \/ (state.generate = "None" /\ Visible(position) >= 2 /\ ~hasIndex)
  PROVE  Flush(state, lines, hasIndex, position) = 
           WriteLines([state EXCEPT !.generate = "True"], lines, Visible(position))
<1> DEFINE v == Visible(position)
           g == state.generate
           w == WriteLines([state EXCEPT !.generate = "True"], lines, v)
           f == [state EXCEPT !.generate = "False"]
           r == Raised
           F == Flush(state, lines, hasIndex, position)
<1>1. F = CASE g \in {"ValueError", "False"} -> state
            [] g = "None" /\ v < 2 -> r
            [] g = "None" /\ v >= 2 /\ hasIndex -> f
            [] OTHER -> w
  BY DEF Flush
<1>2. v \in Nat
  BY DEF Visible
<1>3. g = "True" \/ (g = "None" /\ v >= 2 /\ ~hasIndex)
  OBVIOUS
<1> HIDE DEF v, g, w, f, r, F
<1>4. F = w
  BY <1>1, <1>2, <1>3
<1> QED BY <1>4 DEF F, w, v

(* A flush writes the lines that can be written now.                        *)
LEMMA FlushWrites ==
  ASSUME NEW lines, NEW hasIndex \in BOOLEAN, NEW position \in Nat, NEW n \in Nat, NEW state,
         \/ state = New /\ n = 0 /\ ~hasIndex /\ Visible(position) >= 2
         \/ state = After(n)
  PROVE  Flush(state, lines, hasIndex, position)
           = After(n + Complete(lines, n + 1, Visible(position)))
<1> DEFINE v == Visible(position)
           c == Complete(lines, n + 1, v)
<1>0. state = After(n) \/ (state = New /\ n = 0 /\ ~hasIndex /\ v >= 2)
  OBVIOUS
<1>1. v \in Nat
  BY DEF Visible
<1>2. /\ c \in 0 .. v
      /\ \A i \in 0 .. c - 1 : n + 1 + i < v /\ lines[n + 1 + i] # "blank"
      /\ n + 1 + c >= v \/ lines[n + 1 + c] = "blank"
  <2>1. n + 1 \in Nat \ {0}
    OBVIOUS
  <2> HIDE DEF v
  <2> QED BY <1>1, <2>1, LinesComplete
<1>4. Flush(state, lines, hasIndex, position) = WriteLines(After(n), lines, v)
  <2>1. CASE state = New /\ n = 0
    <3>1. [state EXCEPT !.generate = "True"] = After(n)
      <4>1. [i \in 1 .. 0 |-> <<i - 2, i>>] = <<>>
        OBVIOUS
      <4> QED BY <2>1, <4>1 DEF New, After
    <3>2. state.generate = "None"
      BY <2>1 DEF New
    <3>4. v >= 2 /\ ~hasIndex
      BY <1>0, <1>1, <2>1, <3>2 DEF After
    <3>3. Flush(state, lines, hasIndex, position) = WriteLines([state EXCEPT !.generate = "True"], lines, v)
      BY <3>2, <3>4, FlushNumbers
    <3> QED BY <3>1, <3>3
  <2>2. CASE state = After(n)
    <3>1. [state EXCEPT !.generate = "True"] = After(n) /\ state.generate = "True"
      BY <2>2 DEF After
    <3>2. Flush(state, lines, hasIndex, position) = WriteLines([state EXCEPT !.generate = "True"], lines, v)
      BY <3>1, FlushNumbers
    <3> QED BY <3>1, <3>2
  <2> QED BY <2>1, <2>2
<1>5. WriteLines(After(n), lines, v) = After(n + c)
  <2> HIDE DEF v
  <2>1. c \in Nat
    BY <1>1, <1>2
  <2> DEFINE old == [i \in 1 .. n |-> <<i - 2, i>>]
             more == [i \in 1 .. c |-> <<(n - 1) + i - 1, (n + 1) + i - 1>>]
             all == [i \in 1 .. n + c |-> <<i - 2, i>>]
             st == After(n)
  <2>2. WriteLines(st, lines, v) =
          [generate |-> "True", start |-> n + 1 + c, idx |-> n - 1 + c, rows |-> old \o more]
    <3>1. st = [generate |-> "True", start |-> n + 1, idx |-> n - 1, rows |-> old]
      BY DEF After
    <3>2. st.start = n + 1 /\ st.idx = n - 1
      BY <3>1
    <3> HIDE DEF st, old, c
    <3> DEFINE next == [i \in 1 .. c |-> <<st.idx + i - 1, st.start + i - 1>>]
    <3>3. next = more
      BY <3>2
    <3> HIDE DEF next, more
    <3>4. WriteLines(st, lines, v)
            = [[[st EXCEPT !.rows = st.rows \o next] EXCEPT !.idx = st.idx + c] EXCEPT !.start = st.start + c]
      BY <3>2 DEF WriteLines, next, c
    <3> QED BY <3>1, <3>3, <3>4
  <2> HIDE DEF c
  <2>3. old \o more = all
    <3> DEFINE R == Int \X Int
    <3>1. old \in Seq(R)
      BY <2>1
    <3>2. more \in Seq(R)
      BY <2>1
    <3>3. Len(old) = n
      BY <2>1
    <3>4. Len(more) = c
      BY <2>1
    <3>5. all \in [1 .. n + c -> R]
      BY <2>1
    <3>6. Continues(all, old, 0, n)
      BY <2>1 DEF Continues
    <3>7. Continues(all, more, n, c)
      BY <2>1 DEF Continues
    <3> HIDE DEF old, more, all, R
    <3> QED BY <2>1, <3>1, <3>2, <3>3, <3>4, <3>5, <3>6, <3>7, Joined
  <2>4. n + 1 + c = (n + c) + 1 /\ n - 1 + c = (n + c) - 1
    BY <2>1
  <2> QED BY <2>2, <2>3, <2>4 DEF After
<1> QED BY <1>4, <1>5

(* A flush goes on from what was written to what can be written now.        *)
LEMMA FlushGoesOn ==
  ASSUME NEW lines, NEW before \in Nat, NEW v \in Nat, NEW n \in Nat, before <= v,
         n = 0 \/ IsWritten(lines, before, n)
  PROVE  /\ n + Complete(lines, n + 1, v) \in Nat
         /\ IsWritten(lines, v, n + Complete(lines, n + 1, v))
<1> DEFINE c == Complete(lines, n + 1, v)
<1>2. /\ c \in 0 .. v
      /\ \A i \in 0 .. c - 1 : n + 1 + i < v /\ lines[n + 1 + i] # "blank"
      /\ n + 1 + c >= v \/ lines[n + 1 + c] = "blank"
  <2>1. n + 1 \in Nat \ {0}
    OBVIOUS
  <2> QED BY <2>1, LinesComplete
<1>3. IsWritten(lines, v, n + c)
  <2> HIDE DEF c
  <2>1. c \in Nat
    BY <1>2
  <2>2. ASSUME NEW i \in 1 .. n + c
        PROVE  i < v /\ lines[i] # "blank"
    <3>1. CASE i <= n
      <4>1. n # 0 /\ i \in 1 .. n
        BY <2>1, <3>1
      <4>2. i < before /\ lines[i] # "blank"
        BY <4>1 DEF IsWritten
      <4> QED BY <2>1, <4>2
    <3>2. CASE ~(i <= n)
      <4>1. i - n - 1 \in 0 .. c - 1 /\ n + 1 + (i - n - 1) = i
        BY <2>1, <3>2
      <4> QED BY <1>2, <4>1
    <3> QED BY <3>1, <3>2
  <2>3. (n + c) + 1 = n + 1 + c
    BY <2>1
  <2> QED BY <1>2, <2>2, <2>3 DEF IsWritten
<1>6. n + c \in Nat
  <2> HIDE DEF c
  <2> QED BY <1>2
<1> QED BY <1>3, <1>6

(* The states of the writer, as the buffer is flushed at one position after *)
(* the other.                                                               *)
Flushes(it, lines, hasIndex, flushes) ==
  it = [done \in SUBSET flushes |->
          IF done = {} THEN New
          ELSE Flush(it[done \ {Max(done)}], lines, hasIndex, Max(done))]
LEMMA AddIndexIs ==
  ASSUME NEW lines, NEW hasIndex \in BOOLEAN, NEW flushes
  PROVE  AddIndex(lines, hasIndex, flushes)
           = Close((CHOOSE it : Flushes(it, lines, hasIndex, flushes))[flushes], lines, hasIndex)
BY DEF AddIndex, Flushes

WriterStates ==
  {New, Raised, [New EXCEPT !.generate = "False"]} \cup {After(n) : n \in Nat}
LEMMA FlushTyped ==
  ASSUME NEW lines, NEW state \in WriterStates, NEW hasIndex \in BOOLEAN, NEW position \in Nat
  PROVE  Flush(state, lines, hasIndex, position) \in WriterStates
<1> DEFINE v == Visible(position)
<1>1. v \in Nat
  BY DEF Visible
<1>2. ASSUME NEW n \in Nat, (n = 0 /\ state = New /\ ~hasIndex /\ v >= 2) \/ state = After(n)
      PROVE  Flush(state, lines, hasIndex, position) \in WriterStates
  <2> DEFINE c == Complete(lines, n + 1, v)
  <2>1. c \in Nat
    <3>1. n + 1 \in Nat \ {0}
      OBVIOUS
    <3> HIDE DEF v
    <3>2. c \in 0 .. v
      BY <1>1, <3>1, LinesComplete
    <3> QED BY <1>1, <3>2
  <2>2. Flush(state, lines, hasIndex, position) = After(n + c)
    BY <1>2, FlushWrites
  <2>3. n + c \in Nat
    <3> HIDE DEF c
    <3> QED BY <2>1
  <2> HIDE DEF c
  <2> QED BY <2>2, <2>3 DEF WriterStates
<1>3. CASE \E n \in Nat : state = After(n)
  BY <1>2, <1>3
<1>4. CASE state = New
  <2>0. state.generate = "None"
    BY <1>4 DEF New
  <2>1. CASE v < 2
    <3>1. Flush(state, lines, hasIndex, position) = Raised
      BY <2>0, <2>1, FlushRaises
    <3> QED BY <3>1 DEF WriterStates
  <2>2. CASE v >= 2 /\ hasIndex
    <3>2. Flush(state, lines, hasIndex, position) = [state EXCEPT !.generate = "False"]
      BY <2>0, <2>2, FlushCopies
    <3> QED BY <1>4, <3>2 DEF WriterStates
  <2>3. CASE v >= 2 /\ ~hasIndex
    <3> HIDE DEF v
    <3>1. v >= 2
      BY <2>3
    <3> QED BY <1>2, <1>4, <2>3, <3>1
  <2>4. v < 2 \/ v >= 2
    <3> HIDE DEF v
    <3> QED BY <1>1
  <2> QED BY <2>1, <2>2, <2>3, <2>4
<1>5. CASE state = Raised \/ state = [New EXCEPT !.generate = "False"]
  <2>1. state.generate \in {"ValueError", "False"}
    BY <1>5 DEF Raised, New
  <2>2. Flush(state, lines, hasIndex, position) = state
    BY <2>1, FlushKeeps
  <2> QED BY <2>2
<1> QED BY <1>3, <1>4, <1>5 DEF WriterStates

LEMMA GreatestIs ==
  ASSUME NEW flushes \in SUBSET Nat, IsFiniteSet(flushes), NEW S \in SUBSET flushes, S # {}
  PROVE  Max(S) \in S /\ \A p \in S : p <= Max(S)
<1>1. S \in SUBSET Nat /\ IsFiniteSet(S)
  BY FS_Subset
<1> QED BY <1>1, ExtremesExist

WriterSteps(it, lines, hasIndex, flushes) ==
  /\ it[{}] = New
  /\ \A S \in SUBSET flushes :
       S # {} => it[S] = Flush(it[S \ {Max(S)}], lines, hasIndex, Max(S))

LEMMA Writings ==
  ASSUME NEW lines, NEW hasIndex \in BOOLEAN, NEW flushes \in SUBSET Nat, IsFiniteSet(flushes)
  PROVE  \E it : /\ WriterSteps(it, lines, hasIndex, flushes)
                 /\ AddIndex(lines, hasIndex, flushes) = Close(it[flushes], lines, hasIndex)
<1> DEFINE V == WriterStates
           next == [S \in SUBSET flushes |-> Max(S)]
           F == [p \in flushes \X V |-> Flush(p[2], lines, hasIndex, p[1])]
           it == CHOOSE h : Flushes(h, lines, hasIndex, flushes)
<1>1. \A S \in SUBSET flushes : S # {} => next[S] \in S
  BY GreatestIs
<1>2. New \in V
  BY DEF WriterStates
<1>3. F \in [flushes \X V -> V]
  <2>1. \A st \in V, p \in flushes : Flush(st, lines, hasIndex, p) \in V
    BY FlushTyped
  <2> HIDE DEF V
  <2> QED BY <2>1
<1>4. PICK h : Solves(h, flushes, New, next, F, V)
  <2> HIDE DEF next, F, V
  <2> QED BY <1>1, <1>2, <1>3, FoldExists
<1>5. Flushes(h, lines, hasIndex, flushes)
  <2>1. h \in [SUBSET flushes -> V]
    BY <1>4 DEF Solves
  <2>2. h[{}] = New
    BY <1>4 DEF Solves
  <2>3. ASSUME NEW S \in SUBSET flushes, S # {}
        PROVE  h[S] = Flush(h[S \ {Max(S)}], lines, hasIndex, Max(S))
    <3>1. next[S] = Max(S) /\ Max(S) \in flushes /\ h[S \ {Max(S)}] \in V
      <4>1. Max(S) \in S
        BY <2>3, GreatestIs
      <4> HIDE DEF V
      <4> QED BY <2>1, <4>1
    <3>2. h[S] = F[<<Max(S), h[S \ {Max(S)}]>>]
      <4> HIDE DEF F, V, next
      <4> QED BY <1>4, <2>3, <3>1 DEF Solves
    <3> DEFINE p == <<Max(S), h[S \ {Max(S)}]>>
    <3>3. p \in flushes \X V /\ p[1] = Max(S) /\ p[2] = h[S \ {Max(S)}]
      <4> HIDE DEF V
      <4> QED BY <3>1
    <3>4. F[p] = Flush(p[2], lines, hasIndex, p[1])
      <4> HIDE DEF V, p
      <4> QED BY <3>3
    <3> QED BY <3>2, <3>3, <3>4
  <2>4. h = [S \in SUBSET flushes |->
              IF S = {} THEN New ELSE Flush(h[S \ {Max(S)}], lines, hasIndex, Max(S))]
    <3> HIDE DEF V
    <3> QED BY <2>1, <2>2, <2>3
  <2> QED BY <2>4 DEF Flushes
<1>6. Flushes(it, lines, hasIndex, flushes)
  BY <1>5
<1> HIDE DEF it
<1>7. it = [S \in SUBSET flushes |->
             IF S = {} THEN New ELSE Flush(it[S \ {Max(S)}], lines, hasIndex, Max(S))]
  BY <1>6 DEF Flushes
<1>8. WriterSteps(it, lines, hasIndex, flushes)
  <2>1. {} \in SUBSET flushes
    OBVIOUS
  <2> QED BY <1>7, <2>1 DEF WriterSteps
<1>9. AddIndex(lines, hasIndex, flushes) = Close(it[flushes], lines, hasIndex)
  BY AddIndexIs DEF it
<1> QED BY <1>8, <1>9

(* What the writer has come to, when it was flushed at the positions of S   *)
(* and has seen the lines up to v.                                          *)
Reached(state, lines, hasIndex, S, v) ==
  \/ (\E p \in S : Visible(p) < 2) /\ state = Raised
  \/ (\A p \in S : Visible(p) >= 2) /\ S = {} /\ state = New
  \/ (\A p \in S : Visible(p) >= 2) /\ S # {} /\ hasIndex /\ state = [New EXCEPT !.generate = "False"]
  \/ /\ (\A p \in S : Visible(p) >= 2) /\ S # {} /\ ~hasIndex
     /\ \E k \in Nat : state = After(k) /\ IsWritten(lines, v, k)

LEMMA MoreIsVisible ==
  ASSUME NEW p \in Nat, NEW q \in Nat, p <= q
  PROVE  Visible(p) \in Nat /\ Visible(q) \in Nat /\ Visible(p) <= Visible(q)
BY DEF Visible

LEMMA FlushReaches ==
  ASSUME NEW lines, NEW hasIndex \in BOOLEAN, NEW S \in SUBSET Nat, NEW p \in Nat, NEW v \in Nat, NEW state,
         \A q \in S : q <= p, v <= Visible(p), Reached(state, lines, hasIndex, S, v)
  PROVE  Reached(Flush(state, lines, hasIndex, p), lines, hasIndex, S \cup {p}, Visible(p))
<1> DEFINE w == Visible(p)
           next == Flush(state, lines, hasIndex, p)
           T == S \cup {p}
<1>1. w \in Nat /\ \A q \in S : Visible(q) \in Nat /\ Visible(q) <= w
  BY MoreIsVisible
<1>2. ASSUME NEW k \in Nat, w >= 2, ~hasIndex, \A q \in S : Visible(q) >= 2,
             (k = 0 /\ state = New) \/ (state = After(k) /\ IsWritten(lines, v, k))
      PROVE  Reached(next, lines, hasIndex, T, w)
  <2> DEFINE c == Complete(lines, k + 1, w)
  <2>1. next = After(k + c)
    BY <1>2, FlushWrites
  <2>2. k + c \in Nat /\ IsWritten(lines, w, k + c)
    <3> HIDE DEF w
    <3> QED BY <1>1, <1>2, FlushGoesOn DEF w
  <2>3. T # {} /\ \A q \in T : Visible(q) >= 2
    BY <1>2
  <2> HIDE DEF next, T, w, c
  <2> QED BY <1>2, <2>1, <2>2, <2>3 DEF Reached
<1>3. CASE (\E q \in S : Visible(q) < 2) /\ state = Raised
  <2>1. next = Raised
    <3>1. state.generate \in {"ValueError", "False"}
      BY <1>3 DEF Raised
    <3> QED BY <1>3, <3>1, FlushKeeps
  <2>2. \E q \in T : Visible(q) < 2
    BY <1>3
  <2>9. Reached(next, lines, hasIndex, T, w)
    <3> HIDE DEF next, T, w
    <3> QED BY <2>1, <2>2 DEF Reached
  <2> QED BY <2>9
<1>4. CASE S = {} /\ state = New
  <2>0. state.generate = "None"
    BY <1>4 DEF New
  <2>1. CASE w < 2
    <3>1. next = Raised
      BY <2>0, <2>1, FlushRaises
    <3>2. \E q \in T : Visible(q) < 2
      BY <2>1
    <3>9. Reached(next, lines, hasIndex, T, w)
      <4> HIDE DEF next, T, w
      <4> QED BY <3>1, <3>2 DEF Reached
    <3> QED BY <3>9
  <2>2. CASE w >= 2 /\ hasIndex
    <3>1. next = [New EXCEPT !.generate = "False"]
      BY <1>4, <2>0, <2>2, FlushCopies
    <3>2. T # {} /\ \A q \in T : Visible(q) >= 2
      BY <1>4, <2>2
    <3>9. Reached(next, lines, hasIndex, T, w)
      <4> HIDE DEF next, T, w
      <4> QED BY <2>2, <3>1, <3>2 DEF Reached
    <3> QED BY <3>9
  <2>3. CASE w >= 2 /\ ~hasIndex
    <3>1. \A q \in S : Visible(q) >= 2
      BY <1>4
    <3>9. Reached(next, lines, hasIndex, T, w)
      <4> HIDE DEF next, T, w
      <4> QED BY <1>2, <1>4, <2>3, <3>1
    <3> QED BY <3>9
  <2>4. w < 2 \/ w >= 2
    <3> HIDE DEF w
    <3> QED BY <1>1
  <2> QED BY <2>1, <2>2, <2>3, <2>4
<1>5. ASSUME S # {}, \A q \in S : Visible(q) >= 2
      PROVE  w >= 2 /\ T # {} /\ \A q \in T : Visible(q) >= 2
  <2>1. PICK q \in S : TRUE
    BY <1>5
  <2>2. w >= 2
    <3> HIDE DEF w
    <3> QED BY <1>1, <1>5, <2>1
  <2> QED BY <1>5, <2>2
<1>6. CASE (\A q \in S : Visible(q) >= 2) /\ S # {} /\ hasIndex /\ state = [New EXCEPT !.generate = "False"]
  <2>1. next = state
    <3>1. state.generate \in {"ValueError", "False"}
      BY <1>6 DEF New
    <3> QED BY <3>1, FlushKeeps
  <2>9. Reached(next, lines, hasIndex, T, w)
    <3> HIDE DEF next, T, w
    <3> QED BY <1>5, <1>6, <2>1 DEF Reached
  <2> QED BY <2>9
<1>7. CASE /\ (\A q \in S : Visible(q) >= 2) /\ S # {} /\ ~hasIndex
           /\ \E k \in Nat : state = After(k) /\ IsWritten(lines, v, k)
  <2>9. Reached(next, lines, hasIndex, T, w)
    <3> HIDE DEF next, T, w
    <3> QED BY <1>2, <1>5, <1>7
  <2> QED BY <2>9
<1> QED BY <1>3, <1>4, <1>6, <1>7 DEF Reached

(* close() has written all that can be written.                             *)
Closes(result, lines, n, hasIndex, S) ==
  /\ (\E p \in S : Visible(p) < 2) => result = Raised
  /\ (\A p \in S : Visible(p) >= 2) /\ hasIndex => result.rows = [i \in 1 .. n |-> <<i - 2, i>>]
  /\ (\A p \in S : Visible(p) >= 2) /\ ~hasIndex /\ n >= 2 =>
       \E k \in Nat : /\ result.rows = [i \in 1 .. k |-> <<i - 2, i>>]
                      /\ \A i \in 1 .. k : i <= n /\ lines[i] # "blank"
                      /\ k = n \/ (k + 1 \in 1 .. n /\ lines[k + 1] = "blank")
LEMMA CloseWrites ==
  ASSUME NEW lines, NEW n \in Nat, Len(lines) = n, DOMAIN lines = 1 .. n, NEW hasIndex \in BOOLEAN,
         NEW S \in SUBSET Nat, NEW state, NEW last, last = Flush(state, lines, hasIndex, 2 * Len(lines)),
         Reached(last, lines, hasIndex, S, n), S # {}
  PROVE  Closes(Close(state, lines, hasIndex), lines, n, hasIndex, S)
<1> DEFINE all == [last EXCEPT !.rows = [i \in DOMAIN lines |-> <<i - 2, i>>]]
           one == [last EXCEPT !.rows = Append(last.rows, <<last.idx, last.start>>)]
           start == last.start
           g == last.generate
           Closed == Close(state, lines, hasIndex)
<1>1. Closed = CASE g = "False" -> all
                 [] g = "True" /\ start <= n /\ lines[start] # "blank" -> one
                 [] OTHER -> last
  BY DEF Close
<1>0. (\A p \in S : Visible(p) \in Nat) /\ \A v \in Nat : ~(v < 2 /\ v >= 2)
  BY MoreIsVisible
<1>2. ASSUME \E p \in S : Visible(p) < 2
      PROVE  Closed = Raised
  <2>1. last = Raised
    BY <1>0, <1>2 DEF Reached
  <2>2. g = "ValueError"
    BY <2>1 DEF Raised
  <2> HIDE DEF Closed, g, one, all, start
  <2>3. Closed = last
    BY <1>1, <2>2
  <2> QED BY <2>1, <2>3
<1>3. ASSUME \A p \in S : Visible(p) >= 2, hasIndex
      PROVE  Closed.rows = [i \in 1 .. n |-> <<i - 2, i>>]
  <2>1. last = [New EXCEPT !.generate = "False"]
    BY <1>0, <1>3 DEF Reached
  <2>2. g = "False"
    BY <2>1 DEF New
  <2>3. Closed = all
    <3> HIDE DEF Closed, g, one, all, start
    <3> QED BY <1>1, <2>2
  <2>4. all.rows = [i \in DOMAIN lines |-> <<i - 2, i>>]
    BY <2>1 DEF New
  <2> HIDE DEF Closed, all
  <2> QED BY <2>3, <2>4
<1>4. ASSUME \A p \in S : Visible(p) >= 2, ~hasIndex, n >= 2
      PROVE  \E k \in Nat :
                /\ Closed.rows = [i \in 1 .. k |-> <<i - 2, i>>]
                /\ \A i \in 1 .. k : i <= n /\ lines[i] # "blank"
                /\ k = n \/ (k + 1 \in 1 .. n /\ lines[k + 1] = "blank")
  <2>1. PICK k \in Nat : last = After(k) /\ IsWritten(lines, n, k)
    BY <1>0, <1>4 DEF Reached
  <2>2. g = "True" /\ start = k + 1 /\ last.idx = k - 1 /\ last.rows = [i \in 1 .. k |-> <<i - 2, i>>]
    <3>1. /\ After(k).generate = "True" /\ After(k).start = k + 1 /\ After(k).idx = k - 1
          /\ After(k).rows = [i \in 1 .. k |-> <<i - 2, i>>]
      BY DEF After
    <3> QED BY <2>1, <3>1
  <2>3. k < n /\ (\A i \in 1 .. k : i <= n /\ lines[i] # "blank") /\ (k + 1 = n \/ lines[k + 1] = "blank")
    <3>2. k < n
      <4>1. CASE k = 0
        BY <1>4, <4>1
      <4>2. CASE k # 0
        <5>1. k \in 1 .. k
          BY <4>2
        <5> QED BY <2>1, <5>1 DEF IsWritten
      <4> QED BY <4>1, <4>2
    <3>3. \A i \in 1 .. k : i < n /\ lines[i] # "blank"
      BY <2>1 DEF IsWritten
    <3>4. k + 1 >= n \/ lines[k + 1] = "blank"
      BY <2>1 DEF IsWritten
    <3>5. k + 1 = n \/ lines[k + 1] = "blank"
      BY <3>2, <3>4
    <3>6. \A i \in 1 .. k : i <= n
      BY <3>2
    <3> QED BY <3>2, <3>3, <3>5, <3>6
  <2>4. CASE lines[k + 1] = "blank"
    <3>1. Closed = last
      <4> HIDE DEF Closed, g, one, all, start
      <4> QED BY <1>1, <2>2, <2>4
    <3>2. k + 1 \in 1 .. n
      BY <2>3
    <3> HIDE DEF Closed
    <3> QED BY <2>2, <2>3, <2>4, <3>1, <3>2
  <2>5. CASE lines[k + 1] # "blank"
    <3>1. k + 1 = n /\ start <= n
      BY <2>2, <2>3, <2>5
    <3>2. Closed = one
      <4> HIDE DEF Closed, g, one, all, start
      <4> QED BY <1>1, <2>2, <2>5, <3>1
    <3>3. one.rows = [i \in 1 .. k + 1 |-> <<i - 2, i>>]
      <4> DEFINE old == [i \in 1 .. k |-> <<i - 2, i>>]
                 new == [i \in 1 .. k + 1 |-> <<i - 2, i>>]
                 added == Append(old, <<k - 1, k + 1>>)
      <4>1. old \in Seq(Int \X Int) /\ Len(old) = k
        OBVIOUS
      <4>0. <<k - 1, k + 1>> \in Int \X Int
        OBVIOUS
      <4>2. added \in Seq(Int \X Int) /\ Len(added) = k + 1
        <5> HIDE DEF old
        <5> QED BY <4>0, <4>1
      <4>3. \A i \in 1 .. k + 1 : added[i] = IF i = k + 1 THEN <<k - 1, k + 1>> ELSE old[i]
        <5> HIDE DEF old
        <5> QED BY <4>0, <4>1
      <4>4. added = [i \in 1 .. k + 1 |-> added[i]]
        <5> HIDE DEF added
        <5> QED BY <4>2
      <4>5. \A i \in 1 .. k + 1 : added[i] = new[i]
        <5>1. \A i \in 1 .. k + 1 : IF i = k + 1 THEN <<k - 1, k + 1>> = <<i - 2, i>> ELSE old[i] = <<i - 2, i>>
          OBVIOUS
        <5> HIDE DEF old, added
        <5> QED BY <4>3, <5>1
      <4>6. added = new
        <5> HIDE DEF added
        <5> QED BY <4>4, <4>5
      <4>7. one.rows = Append(last.rows, <<last.idx, last.start>>)
        BY <2>1 DEF After
      <4>8. one.rows = added
        BY <2>2, <4>7
      <4> QED BY <4>6, <4>8
    <3>4. \A i \in 1 .. k + 1 : i <= n /\ lines[i] # "blank"
      BY <2>3, <2>5, <3>1
    <3>5. k + 1 \in Nat
      OBVIOUS
    <3> HIDE DEF Closed, one
    <3> QED BY <3>1, <3>2, <3>3, <3>4, <3>5
  <2> QED BY <2>4, <2>5
<1>5. Closes(Closed, lines, n, hasIndex, S)
  <2> HIDE DEF Closed
  <2> QED BY <1>2, <1>3, <1>4 DEF Closes
<1> QED BY <1>5

(* Wherever the buffer of the D3M writer is flushed, the rows are numbered  *)
(* from 0, and none is lost or written twice, up to the first blank line;   *)
(* and it raises ValueError for a header that is alone or longer than the   *)
(* buffer: for every file and every way that it comes in pieces.            *)
THEOREM RowsAreNumbered ==
  ASSUME NEW L, NEW lines \in Seq(L), NEW hasIndex \in BOOLEAN,
         NEW flushes \in SUBSET (1 .. 2 * Len(lines))
  PROVE  RowsNumbered(lines, hasIndex, flushes)
<1> DEFINE n == Len(lines)
           end == 2 * Len(lines)
           S == flushes \cup {end}
           result == AddIndex(lines, hasIndex, flushes)
<1>1. n \in Nat /\ end \in Nat /\ DOMAIN lines = 1 .. n
  <2>1. n \in Nat
    OBVIOUS
  <2> QED BY <2>1
<1>2. IsFiniteSet(flushes) /\ flushes \in SUBSET Nat
  <2>1. IsFiniteSet(1 .. end)
    BY <1>1, FS_Interval
  <2>2. IsFiniteSet(flushes)
    BY <2>1, FS_Subset
  <2> QED BY <2>2
<1>3. PICK it : WriterSteps(it, lines, hasIndex, flushes) /\ result = Close(it[flushes], lines, hasIndex)
  BY <1>2, Writings
<1> DEFINE Seen(T) == IF T = {} THEN 0 ELSE Visible(Max(T))
           M == {T \in SUBSET flushes : Reached(it[T], lines, hasIndex, T, Seen(T))}
<1>4. ASSUME NEW T \in SUBSET flushes, \A U \in SUBSET T : U # T => U \in M
      PROVE  T \in M
  <2>1. CASE T = {}
    <3>1. it[T] = New
      BY <1>3, <2>1 DEF WriterSteps
    <3>2. Reached(it[T], lines, hasIndex, T, Seen(T))
      BY <2>1, <3>1 DEF Reached
    <3> QED BY <3>2
  <2>2. CASE T # {}
    <3> DEFINE p == Max(T)
               U == T \ {p}
    <3>1. p \in T /\ \A q \in T : q <= p
      BY <1>2, <2>2, GreatestIs
    <3>2. U \in SUBSET T /\ U # T /\ p \in Nat /\ U \in SUBSET Nat /\ T = U \cup {p}
      <4> HIDE DEF p
      <4> QED BY <1>2, <3>1
    <3>3. Reached(it[U], lines, hasIndex, U, Seen(U))
      <4>1. U \in M
        <5> HIDE DEF M, U
        <5> QED BY <1>4, <3>2
      <4> QED BY <4>1
    <3>4. Seen(U) \in Nat /\ Seen(U) <= Visible(p)
      <4>1. CASE U = {}
        <5>1. Visible(p) \in Nat
          <6> HIDE DEF p
          <6> QED BY <3>2, MoreIsVisible
        <5>2. Seen(U) = 0
          <6> HIDE DEF U
          <6> QED BY <4>1
        <5> HIDE DEF Seen, U, p
        <5> QED BY <5>1, <5>2
      <4>2. CASE U # {}
        <5>1. Max(U) \in U
          <6>1. U \in SUBSET flushes
            OBVIOUS
          <6> HIDE DEF U
          <6> QED BY <1>2, <4>2, <6>1, GreatestIs
        <5> DEFINE q == Max(U)
        <5>2. q \in Nat /\ q <= p
          <6> HIDE DEF p, U
          <6> QED BY <3>1, <3>2, <5>1
        <5>3. Seen(U) = Visible(q)
          <6> HIDE DEF U
          <6> QED BY <4>2
        <5> HIDE DEF p, U, q, Seen
        <5> QED BY <3>2, <5>2, <5>3, MoreIsVisible
      <4> QED BY <4>1, <4>2
    <3>5. it[T] = Flush(it[U], lines, hasIndex, p)
      BY <1>3, <2>2 DEF WriterSteps
    <3>6. \A q \in U : q <= p
      BY <3>1
    <3>7. Reached(Flush(it[U], lines, hasIndex, p), lines, hasIndex, U \cup {p}, Visible(p))
      <4> DEFINE v == Seen(U)
      <4>1. Reached(it[U], lines, hasIndex, U, v) /\ v \in Nat /\ v <= Visible(p)
        BY <3>3, <3>4
      <4> HIDE DEF v, U, p
      <4> QED BY <3>2, <3>6, <4>1, FlushReaches
    <3>8. Reached(it[T], lines, hasIndex, T, Visible(p))
      <4> HIDE DEF p, U
      <4> QED BY <3>2, <3>5, <3>7
    <3>9. Seen(T) = Visible(p)
      BY <2>2
    <3> HIDE DEF Seen, p
    <3> QED BY <3>8, <3>9
  <2> QED BY <2>1, <2>2
<1>5. Reached(it[flushes], lines, hasIndex, flushes, Seen(flushes))
  <2>1. M \in SUBSET (SUBSET flushes)
    OBVIOUS
  <2>2. flushes \in M
    <3>1. flushes \in SUBSET flushes
      OBVIOUS
    <3> HIDE DEF M
    <3> QED BY <1>2, <1>4, <2>1, <3>1, SubsetInduction
  <2> QED BY <2>2
<1>6. Visible(end) = n
  <2> HIDE DEF n
  <2>1. end = 2 * n
    BY DEF n
  <2>2. \A k \in Nat : (2 * k + 1) \div 2 = k
    OBVIOUS
  <2> QED BY <1>1, <2>1, <2>2 DEF Visible
<1> DEFINE last == Flush(it[flushes], lines, hasIndex, end)
<1>7. Reached(last, lines, hasIndex, S, n)
  <2> DEFINE v == Seen(flushes)
  <2>1. v \in Nat /\ v <= n
    <3>1. CASE flushes = {}
      BY <1>1, <3>1
    <3>2. CASE flushes # {}
      <4> DEFINE p == Max(flushes)
      <4>1. p \in flushes
        BY <1>2, <3>2, GreatestIs
      <4>2. p \in Nat /\ p <= end
        <5> HIDE DEF p
        <5> QED BY <1>1, <4>1
      <4>3. v = Visible(p)
        BY <3>2
      <4> HIDE DEF p, v, end, n
      <4> QED BY <1>1, <1>6, <4>2, <4>3, MoreIsVisible
    <3> QED BY <3>1, <3>2
  <2>2. \A q \in flushes : q <= end
    OBVIOUS
  <2>3. v <= Visible(end)
    <3> HIDE DEF v, end
    <3> QED BY <1>6, <2>1
  <2>4. Reached(last, lines, hasIndex, S, Visible(end))
    <3> HIDE DEF v, end
    <3> QED BY <1>1, <1>2, <1>5, <2>1, <2>2, <2>3, FlushReaches DEF v
  <2> HIDE DEF last, S, end
  <2> QED BY <1>6, <2>4
<1>8. S \in SUBSET Nat /\ S # {}
  BY <1>1, <1>2
<1>9. Closes(result, lines, n, hasIndex, S)
  <2>1. Len(lines) = n /\ last = Flush(it[flushes], lines, hasIndex, 2 * Len(lines))
    OBVIOUS
  <2>2. result = Close(it[flushes], lines, hasIndex)
    BY <1>3
  <2>3. Len(lines) = n /\ DOMAIN lines = 1 .. n
    BY <1>1
  <2> DEFINE state == it[flushes]
  <2>4. last = Flush(state, lines, hasIndex, 2 * Len(lines))
    OBVIOUS
  <2>5. Closes(Close(state, lines, hasIndex), lines, n, hasIndex, S)
    <3> HIDE DEF n, S, last, state
    <3> QED BY <1>1, <1>7, <1>8, <2>3, <2>4, CloseWrites
  <2> HIDE DEF result, n, S
  <2> QED BY <2>2, <2>5
<1> DEFINE blanks == {i \in DOMAIN lines : lines[i] = "blank"}
           rows == {i \in DOMAIN lines : hasIndex \/ \A b \in blanks : i < b}
<1>10. (n < 2 \/ \E p \in flushes : Visible(p) < 2) <=> \E p \in S : Visible(p) < 2
  <2> HIDE DEF n, end
  <2> QED BY <1>6
<1>11. ASSUME ~(\E p \in S : Visible(p) < 2)
       PROVE  result.rows = [i \in 1 .. Cardinality(rows) |-> <<i - 2, i>>]
  <2>0. (\A p \in S : Visible(p) >= 2) /\ n >= 2
    <3>1. \A p \in S : Visible(p) \in Nat
      BY <1>8, MoreIsVisible
    <3>2. end \in S
      OBVIOUS
    <3> HIDE DEF S, n, end
    <3> QED BY <1>6, <1>11, <3>1, <3>2
  <2>1. PICK k \in Nat : result.rows = [i \in 1 .. k |-> <<i - 2, i>>] /\ rows = 1 .. k
    <3>1. CASE hasIndex
      <4>1. rows = 1 .. n
        BY <1>1, <3>1
      <4> HIDE DEF rows, result, n, S
      <4> QED BY <1>1, <1>9, <2>0, <3>1, <4>1 DEF Closes
    <3>2. CASE ~hasIndex
      <4>1. PICK k \in Nat :
              /\ result.rows = [i \in 1 .. k |-> <<i - 2, i>>]
              /\ \A i \in 1 .. k : i <= n /\ lines[i] # "blank"
              /\ k = n \/ (k + 1 \in 1 .. n /\ lines[k + 1] = "blank")
        <5> HIDE DEF rows, result, n, S
        <5> QED BY <1>9, <2>0, <3>2 DEF Closes
      <4>2. rows = {i \in 1 .. n : \A b \in 1 .. n : lines[b] = "blank" => i < b}
        BY <1>1, <3>2
      <4> HIDE DEF rows, result, n
      <4>3. ASSUME NEW i \in 1 .. n
            PROVE  (\A b \in 1 .. n : lines[b] = "blank" => i < b) <=> i <= k
        <5>1. ASSUME i <= k, NEW b \in 1 .. n, lines[b] = "blank"
              PROVE  i < b
          <6>1. b \notin 1 .. k
            BY <4>1, <5>1
          <6> QED BY <1>1, <5>1, <6>1
        <5>2. ASSUME ~(i <= k)
              PROVE  \E b \in 1 .. n : lines[b] = "blank" /\ ~(i < b)
          <6>1. k # n /\ k + 1 \in 1 .. n /\ lines[k + 1] = "blank" /\ ~(i < k + 1)
            BY <1>1, <4>1, <5>2
          <6> QED BY <6>1
        <5> QED BY <5>1, <5>2
      <4>4. 1 .. k \subseteq 1 .. n
        BY <1>1, <4>1
      <4>5. rows = 1 .. k
        BY <4>2, <4>3, <4>4
      <4> QED BY <4>1, <4>5
    <3> QED BY <3>1, <3>2
  <2>2. Cardinality(1 .. k) = k
    <3>1. Cardinality(1 .. k) = IF 1 > k THEN 0 ELSE k - 1 + 1
      BY FS_Interval
    <3> QED BY <3>1
  <2>3. Cardinality(rows) = k
    <3> HIDE DEF rows
    <3> QED BY <2>1, <2>2
  <2> HIDE DEF rows, result
  <2> QED BY <2>1, <2>3
<1> QED
  <2> HIDE DEF rows, result, S, n
  <2> QED BY <1>9, <1>10, <1>11 DEF Closes, RowsNumbered, rows, result, n

-----------------------------------------------------------------------------
(* What each action of MCAlgorithms asks about.                             *)
LEMMA AsksAbout ==
  /\ ConvertFile => input'.of = "file"
  /\ IndexFile => input'.of = "index"
  /\ DescribeFile => input'.of = "document"
  /\ ResolveAddresses => input'.of = "addresses"
  /\ DownloadPages => input'.of = "pages"
  /\ AverageDates => input'.of = "averages"
  /\ MakeYears => input'.of = "years"
  /\ DiscoverSeries => input'.of = "series"
  /\ SplitIndicators \/ IndicatorSources => input'.of = "indicators"
  /\ OpenSession => input'.of = "session"
  /\ DownloadFile => input'.of = "download"
  /\ UploadFile => input'.of = "upload"
  /\ JoinKeys \/ JoinDates => input'.of = "join"
  /\ UnionTables => input'.of = "union"
  /\ TypeColumn => input'.of = "types"
  /\ PairColumns => input'.of = "pairs"
  /\ ProcessFiles => input'.of = "process"
  /\ RangeNumbers => input'.of = "numbers"
  /\ RangePoints => input'.of = "points"
  /\ SplitName => input'.of = "name"
  /\ TruncateString => input'.of = "string"
  /\ NameFiles => input'.of = "identifier"
  /\ ExportIndex => input'.of = "export"
  /\ ResendDatasets => input'.of = "resend"
  /\ ParseQueries => input'.of = "query"
  /\ AnswerSearches => input'.of = "request"
  /\ MixResults => input'.of = "results"
  /\ AskAugmentations => input'.of = "augmentations"
  /\ ScoreRanges => input'.of = "score"
  /\ ScoreAreas => input'.of = "areas"
  /\ CoverColumns => input'.of = "coverage"
  /\ MakeTasks => input'.of = "tasks"
  /\ FindUnions => input'.of = "unions"
  /\ FindTexts => input'.of = "texts"
<1>1. ASSUME ConvertFile PROVE input'.of = "file"
  <2>1. PICK raw, guess : input' = [of |-> "file", raw |-> raw, guess |-> guess]
    BY <1>1, ZenonT(20) DEF ConvertFile
  <2> QED BY <2>1
<1>2. IndexFile => input'.of = "index"
  BY DEF IndexFile
<1>3. DescribeFile => input'.of = "document"
  BY DEF DescribeFile
<1>4. ResolveAddresses => input'.of = "addresses"
  BY DEF ResolveAddresses
<1>5. DownloadPages => input'.of = "pages"
  BY DEF DownloadPages
<1>6. AverageDates => input'.of = "averages"
  BY DEF AverageDates
<1>7. MakeYears => input'.of = "years"
  BY DEF MakeYears
<1>8. DiscoverSeries => input'.of = "series"
  BY DEF DiscoverSeries
<1>9. SplitIndicators => input'.of = "indicators"
  BY DEF SplitIndicators
<1>10. IndicatorSources => input'.of = "indicators"
  BY DEF IndicatorSources
<1>11. OpenSession => input'.of = "session"
  BY DEF OpenSession
<1>12. ASSUME DownloadFile PROVE input'.of = "download"
  <2>1. PICK index, task, arguments :
          input' = [of |-> "download", index |-> index, task |-> task, arguments |-> arguments]
    BY <1>12, ZenonT(20) DEF DownloadFile
  <2> QED BY <2>1
<1>13. UploadFile => input'.of = "upload"
  BY DEF UploadFile
<1>14. JoinKeys => input'.of = "join"
  BY DEF JoinKeys, JoinOn
<1>15. JoinDates => input'.of = "join"
  BY DEF JoinDates, JoinOn
<1>16. UnionTables => input'.of = "union"
  BY DEF UnionTables
<1>17. ASSUME TypeColumn PROVE input'.of = "types"
  <2>1. PICK column : input' = [of |-> "types", column |-> column, types |-> IdentifyTypes(column)]
    BY <1>17, ZenonT(20) DEF TypeColumn
  <2> QED BY <2>1
<1>18. PairColumns => input'.of = "pairs"
  BY DEF PairColumns
<1>19. ProcessFiles => input'.of = "process"
  BY DEF ProcessFiles
<1>20. RangeNumbers => input'.of = "numbers"
  BY DEF RangeNumbers
<1>21. RangePoints => input'.of = "points"
  BY DEF RangePoints
<1>22. ASSUME SplitName PROVE input'.of = "name"
  <2>1. PICK name : input' = [of |-> "name", name |-> name]
    BY <1>22, ZenonT(20) DEF SplitName
  <2> QED BY <2>1
<1>23. TruncateString => input'.of = "string"
  BY DEF TruncateString
<1>24. NameFiles => input'.of = "identifier"
  BY DEF NameFiles
<1>25. ExportIndex => input'.of = "export"
  BY DEF ExportIndex
<1>26. ResendDatasets => input'.of = "resend"
  BY DEF ResendDatasets
<1>27. ParseQueries => input'.of = "query"
  BY DEF ParseQueries
<1>28. AnswerSearches => input'.of = "request"
  BY DEF AnswerSearches
<1>29. MixResults => input'.of = "results"
  BY DEF MixResults
<1>30. AskAugmentations => input'.of = "augmentations"
  BY DEF AskAugmentations
<1>31. ScoreRanges => input'.of = "score"
  BY DEF ScoreRanges
<1>32. ScoreAreas => input'.of = "areas"
  BY DEF ScoreAreas
<1>33. CoverColumns => input'.of = "coverage"
  BY DEF CoverColumns
<1>34. MakeTasks => input'.of = "tasks"
  BY DEF MakeTasks
<1>35. FindUnions => input'.of = "unions"
  BY DEF FindUnions
<1>36. FindTexts => input'.of = "texts"
  BY DEF FindTexts
<1> QED
  BY <1>1, <1>2, <1>3, <1>4, <1>5, <1>6, <1>7, <1>8, <1>9, <1>10, <1>11, <1>12, <1>13, <1>14, <1>15, <1>16, <1>17, <1>18, <1>19, <1>20, <1>21, <1>22, <1>23, <1>24, <1>25, <1>26, <1>27, <1>28, <1>29, <1>30, <1>31, <1>32, <1>33, <1>34, <1>35, <1>36

(* The sets of inputs.                                                      *)
LEMMA UpToAre ==
  ASSUME NEW S, NEW n \in Nat, NEW s \in UpTo(S, n)
  PROVE  s \in Seq(S) /\ DOMAIN s = 1 .. Len(s) /\ Len(s) \in Nat
<1>1. PICK k \in 0 .. n : s \in [1 .. k -> S]
  BY DEF UpTo
<1>2. k \in Nat
  OBVIOUS
<1>3. s \in Seq(S)
  BY <1>1, <1>2
<1> QED BY <1>3

LEMMA OptionsAre == ASSUME NEW options \in SomeOptions PROVE AreOptions(options)
<1>1. CASE options = <<>>
  BY <1>1 DEF AreOptions
<1>2. CASE options # <<>>
  <2>1. PICK D, R : options \in [D -> R]
    BY <1>2, Zenon DEF SomeOptions
  <2>2. options = [name \in D |-> options[name]] /\ DOMAIN options = D
    BY <2>1
  <2> QED BY <2>2 DEF AreOptions
<1> QED BY <1>1, <1>2

LEMMA SessionsAsked == ASSUME OpenSession PROVE AreOptions(input'.options)
<1>1. PICK format, options, token, other :
        /\ options \in SomeOptions
        /\ input' = [of |-> "session", format |-> format, options |-> options, token |-> token, other |-> other]
  BY ZenonT(20) DEF OpenSession
<1>2. input' = [of |-> "session", format |-> format, options |-> options, token |-> token, other |-> other]
  BY <1>1, Zenon
<1>3. input'.options = options
  BY <1>2
<1>4. AreOptions(options)
  BY <1>1, OptionsAre
<1> QED BY <1>3, <1>4

LEMMA UploadsAsked ==
  ASSUME UploadFile
  PROVE  \E n \in Nat : DOMAIN input'.fields = 1 .. n
<1>1. PICK fields, file, annotations, address :
        /\ fields \in UpTo([required : BOOLEAN, value : {"none", "valid", "invalid"}], 2)
        /\ input' = [of |-> "upload", fields |-> fields, file |-> file, annotations |-> annotations,
                     address |-> address]
  BY ZenonT(20) DEF UploadFile
<1>2. input'.fields = fields
  BY <1>1
<1>3. DOMAIN fields = 1 .. Len(fields) /\ Len(fields) \in Nat
  <2> DEFINE S == [required : BOOLEAN, value : {"none", "valid", "invalid"}]
  <2>1. fields \in UpTo(S, 2)
    BY <1>1
  <2> HIDE DEF S
  <2> QED BY <2>1, UpToAre
<1> QED BY <1>2, <1>3

LEMMA FilesIndexed ==
  ASSUME IndexFile
  PROVE  \E lines \in Seq({"blank", "line"}), hasIndex \in BOOLEAN :
           \E flushes \in SUBSET (1 .. 2 * Len(lines)) :
             input' = [of |-> "index", hasIndex |-> hasIndex, flushes |-> flushes, lines |-> lines]
<1>0. PICK n \in 0 .. 5 : \E blanks \in SUBSET (2 .. n), flushes \in UNION {kSubset(k, 1 .. (2 * n)) : k \in 0 .. 2},
                               hasIndex \in BOOLEAN :
        input' = [of |-> "index", hasIndex |-> hasIndex, flushes |-> flushes,
                  lines |-> [i \in 1 .. n |-> IF i \in blanks THEN "blank" ELSE "line"]]
  BY DEF IndexFile
<1>1. PICK blanks \in SUBSET (2 .. n), flushes \in UNION {kSubset(k, 1 .. (2 * n)) : k \in 0 .. 2},
           hasIndex \in BOOLEAN :
        input' = [of |-> "index", hasIndex |-> hasIndex, flushes |-> flushes,
                  lines |-> [i \in 1 .. n |-> IF i \in blanks THEN "blank" ELSE "line"]]
  BY <1>0
<1> DEFINE lines == [i \in 1 .. n |-> IF i \in blanks THEN "blank" ELSE "line"]
<1>2. lines \in Seq({"blank", "line"}) /\ Len(lines) = n
  OBVIOUS
<1>3. flushes \in SUBSET (1 .. 2 * n)
  BY <1>1 DEF kSubset
<1>4. input' = [of |-> "index", hasIndex |-> hasIndex, flushes |-> flushes, lines |-> lines]
  BY <1>1
<1> HIDE DEF lines
<1> QED BY <1>2, <1>3, <1>4

LEMMA FilesDescribed ==
  ASSUME DescribeFile
  PROVE  \E D : \E columns \in Seq(D), needIndex \in BOOLEAN :
           input' = [of |-> "document", columns |-> columns, needIndex |-> needIndex]
<1> DEFINE D == [name : {"d3mIndex", "a", "b"}, structural : {"integer", "text", "point"},
                 semantic : SUBSET {"categorical", "datetime"}]
<1>1. PICK columns \in UpTo(D, 2), needIndex \in BOOLEAN :
        input' = [of |-> "document", columns |-> columns, needIndex |-> needIndex]
  BY ZenonT(20) DEF DescribeFile
<1>2. columns \in Seq(D)
  <2> HIDE DEF D
  <2> QED BY <1>1, UpToAre
<1> HIDE DEF D
<1> QED BY <1>1, <1>2

(* The format that a session asks for is that of its results, a link leads  *)
(* to what was attached, an upload is whole or refused, and the rows of a   *)
(* D3M file are numbered: the theorems above, for the inputs of the run.    *)
THEOREM RequestsAreServed == Spec => []RequestsServed
<1>1. Init => RequestsServed
  BY DEF Init, None, RequestsServed
<1>2. RequestsServed /\ [Next]_<<family, input>> => RequestsServed'
  <2>1. ASSUME Next, input'.of = "session" PROVE SessionKeepsFormat(input')
    <3>1. OpenSession
      BY <2>1, AsksAbout DEF Next
    <3> QED BY <3>1, SessionsAsked, FormatsAreKept
  <2>2. LinksLead(input.index, input.task, input.arguments)'
    BY LinksAreGood
  <2>3. ASSUME Next, input'.of = "upload" PROVE UploadsWhole(input')
    <3>1. UploadFile
      BY <2>3, AsksAbout DEF Next
    <3> QED BY <3>1, UploadsAsked, UploadsAreWhole
  <2>4. ASSUME Next, input'.of = "index" PROVE RowsNumbered(input'.lines, input'.hasIndex, input'.flushes)
    <3>1. IndexFile
      BY <2>4, AsksAbout DEF Next
    <3>2. PICK lines \in Seq({"blank", "line"}), hasIndex \in BOOLEAN :
            \E flushes \in SUBSET (1 .. 2 * Len(lines)) :
              input' = [of |-> "index", hasIndex |-> hasIndex, flushes |-> flushes, lines |-> lines]
      BY <3>1, FilesIndexed
    <3>3. PICK flushes \in SUBSET (1 .. 2 * Len(lines)) :
            input' = [of |-> "index", hasIndex |-> hasIndex, flushes |-> flushes, lines |-> lines]
      BY <3>2
    <3>4. RowsNumbered(lines, hasIndex, flushes)
      BY RowsAreNumbered
    <3>5. input'.lines = lines /\ input'.hasIndex = hasIndex /\ input'.flushes = flushes
      BY <3>3
    <3> QED BY <3>4, <3>5
  <2>5. ASSUME Next, input'.of = "document" PROVE DocumentMatches(input'.columns, input'.needIndex)
    <3>1. DescribeFile
      BY <2>5, AsksAbout DEF Next
    <3>2. PICK D : \E columns \in Seq(D), needIndex \in BOOLEAN :
            input' = [of |-> "document", columns |-> columns, needIndex |-> needIndex]
      BY <3>1, FilesDescribed
    <3>3. PICK columns \in Seq(D), needIndex \in BOOLEAN :
            input' = [of |-> "document", columns |-> columns, needIndex |-> needIndex]
      BY <3>2
    <3>4. DocumentMatches(columns, needIndex)
      BY DocumentsMatch
    <3> QED BY <3>3, <3>4
  <2>6. ASSUME UNCHANGED <<family, input>>, RequestsServed PROVE RequestsServed'
    BY <2>6 DEF RequestsServed
  <2> QED BY <2>1, <2>2, <2>3, <2>4, <2>5, <2>6 DEF RequestsServed
<1> QED BY <1>1, <1>2, PTL DEF Spec

-----------------------------------------------------------------------------
(* The sum of the values of a sequence.                                     *)
SumOfValues(values) == FoldLeft(+, 0, values)
AddsValues(it, values) ==
  it = [S \in SUBSET (DOMAIN values) |->
          IF S = {} THEN 0 ELSE it[S \ {Max(S)}] + values[Max(S)]]
LEMMA SumOfValuesIs ==
  ASSUME NEW values
  PROVE  SumOfValues(values) = (CHOOSE it : AddsValues(it, values))[DOMAIN values]
BY DEF SumOfValues, FoldLeft, MapThenFoldSet, Max, AddsValues

LEMMA SumsOfValues ==
  ASSUME NEW values \in Seq(Nat)
  PROVE  \E r \in [0 .. Len(values) -> Nat] :
           /\ r[0] = 0
           /\ \A i \in 1 .. Len(values) : r[i] = r[i - 1] + values[i]
           /\ SumOfValues(values) = r[Len(values)]
<1> DEFINE n == Len(values)
           F == [p \in (1 .. n) \X Nat |-> p[2] + values[p[1]]]
           it == CHOOSE h : AddsValues(h, values)
<1>0. n \in Nat /\ DOMAIN values = 1 .. n /\ \A i \in 1 .. n : values[i] \in Nat
  OBVIOUS
<1>1. F \in [(1 .. n) \X Nat -> Nat]
  BY <1>0
<1>2. ASSUME NEW i \in 1 .. n, NEW s \in Nat
      PROVE  F[<<i, s>>] = s + values[i]
  OBVIOUS
<1>3. AddsValues(it, values)
  <2>1. PICK h : Computes(h, n, Nat, 0, F)
    <3> HIDE DEF n, F
    <3> QED BY <1>0, <1>1, FoldIsDefined
  <2>2. AddsValues(h, values)
    <3>1. \A S \in SUBSET (1 .. n) : S # {} => h[S] = h[S \ {Max(S)}] + values[Max(S)]
      <4> HIDE DEF F
      <4> QED BY <1>2, <2>1 DEF Computes
    <3>2. h = [S \in SUBSET (1 .. n) |-> IF S = {} THEN 0 ELSE h[S \ {Max(S)}] + values[Max(S)]]
      BY <2>1, <3>1 DEF Computes
    <3> QED BY <1>0, <3>2 DEF AddsValues
  <2> QED BY <2>2
<1>4. Follows(it, n, Nat, 0, F)
  <2> HIDE DEF it
  <2>1. it = [S \in SUBSET (1 .. n) |-> IF S = {} THEN 0 ELSE it[S \ {Max(S)}] + values[Max(S)]]
    BY <1>0, <1>3 DEF AddsValues
  <2>2. it[{}] = 0 /\ \A S \in SUBSET (1 .. n) : S # {} => it[S] = it[S \ {Max(S)}] + values[Max(S)]
    <3> HIDE DEF n
    <3> QED BY <2>1
  <2>3. it = [S \in SUBSET (1 .. n) |-> it[S]]
    <3> HIDE DEF n
    <3> QED BY <2>1
  <2>4. \A S \in SUBSET (1 .. n) :
          S # {} /\ Max(S) \in 1 .. n /\ it[S \ {Max(S)}] \in Nat
            => it[S] = F[<<Max(S), it[S \ {Max(S)}]>>]
    <3> HIDE DEF F, n
    <3> QED BY <1>2, <2>2
  <2> QED BY <2>2, <2>3, <2>4 DEF Follows
<1>5. PICK r : Leads(r, n, Nat, 0, F, it[1 .. n])
  <2> HIDE DEF n, F, it
  <2> QED BY <1>0, <1>1, <1>4, FoldLeads
<1>6. ASSUME NEW i \in 1 .. n PROVE r[i] = r[i - 1] + values[i]
  <2>1. i - 1 \in 0 .. n
    BY <1>0
  <2>2. r[i - 1] \in Nat
    <3> HIDE DEF n
    <3> QED BY <1>5, <2>1 DEF Leads
  <2> HIDE DEF F
  <2> QED BY <1>2, <1>5, <2>2 DEF Leads
<1>7. SumOfValues(values) = r[n]
  BY <1>0, <1>5, SumOfValuesIs DEF Leads
<1> QED BY <1>5, <1>6, <1>7 DEF Leads

LEMMA SumGrows ==
  ASSUME NEW values \in Seq(Nat), NEW v \in Nat
  PROVE  /\ SumOfValues(values) \in Nat
         /\ SumOfValues(Append(values, v)) = SumOfValues(values) + v
         /\ SumOfValues(<<v>>) = v
<1>1. ASSUME NEW s \in Seq(Nat)
      PROVE  /\ SumOfValues(s) \in Nat
             /\ SumOfValues(Append(s, v)) = SumOfValues(s) + v
  <2> DEFINE n == Len(s)
             t == Append(s, v)
  <2>0. /\ n \in Nat /\ t \in Seq(Nat) /\ Len(t) = n + 1 /\ t[n + 1] = v
        /\ \A i \in 1 .. n : t[i] = s[i]
    OBVIOUS
  <2>1. PICK r \in [0 .. n -> Nat] :
          r[0] = 0 /\ (\A i \in 1 .. n : r[i] = r[i - 1] + s[i]) /\ SumOfValues(s) = r[n]
    BY SumsOfValues
  <2>2. PICK q \in [0 .. n + 1 -> Nat] :
          q[0] = 0 /\ (\A i \in 1 .. n + 1 : q[i] = q[i - 1] + t[i]) /\ SumOfValues(t) = q[n + 1]
    <3> HIDE DEF t
    <3> QED BY <2>0, SumsOfValues
  <2> DEFINE M == {i \in Nat : i <= n => q[i] = r[i]}
  <2>3. ASSUME NEW i \in 0 .. n - 1, i \in M PROVE i + 1 \in M
    <3>1. i \in Nat /\ i + 1 \in 1 .. n /\ i + 1 \in 1 .. n + 1 /\ (i + 1) - 1 = i
      BY <2>0
    <3>2. q[i + 1] = q[i] + t[i + 1] /\ r[i + 1] = r[i] + s[i + 1]
      <4> HIDE DEF n, t
      <4> QED BY <2>1, <2>2, <3>1
    <3>3. q[i] = r[i] /\ t[i + 1] = s[i + 1]
      BY <2>0, <2>3, <3>1
    <3> QED BY <3>1, <3>2, <3>3
  <2>4. 0 \in M
    BY <2>1, <2>2
  <2>5. 0 .. n \subseteq M
    <3>1. M \in SUBSET Nat
      OBVIOUS
    <3> HIDE DEF M, n
    <3> QED BY <2>0, <2>3, <2>4, <3>1, StepInduction
  <2>6. q[n] = r[n] /\ r[n] \in Nat
    <3>1. n \in 0 .. n /\ n <= n /\ n \in Nat
      BY <2>0
    <3>2. n \in M
      <4> HIDE DEF M, n
      <4> QED BY <2>5, <3>1
    <3> QED BY <2>1, <3>1, <3>2
  <2>7. q[n + 1] = q[n] + v
    <3>1. n + 1 \in 1 .. n + 1 /\ (n + 1) - 1 = n
      BY <2>0
    <3> HIDE DEF n, t
    <3> QED BY <2>0, <2>2, <3>1
  <2> QED BY <2>1, <2>2, <2>6, <2>7
<1>2. SumOfValues(<<v>>) = v
  <2> DEFINE t == <<v>>
  <2>1. t \in Seq(Nat) /\ Len(t) = 1 /\ t[1] = v /\ 1 \in 1 .. 1 /\ 1 - 1 = 0
    OBVIOUS
  <2>2. PICK q \in [0 .. 1 -> Nat] :
          q[0] = 0 /\ (\A i \in 1 .. 1 : q[i] = q[i - 1] + t[i]) /\ SumOfValues(t) = q[1]
    <3> HIDE DEF t
    <3> QED BY <2>1, SumsOfValues
  <2>3. q[1] = 0 + v
    <3> HIDE DEF t
    <3> QED BY <2>1, <2>2
  <2> QED BY <2>2, <2>3
<1> QED BY <1>1, <1>2

(* The rows of some of the values of the API: a row for each of their       *)
(* dates, with their number and their sum.                                  *)
RowType == [date : Nat, sum : Nat, count : Nat]
SumOfDate(data, S) == MapThenSumSet(LAMBDA k : data[k].value, S)
OfDate(data, P, date) == {k \in P : data[k].date = date}
Tells(rows, data, P) ==
  /\ rows \in Seq(RowType)
  /\ \A a, b \in DOMAIN rows : a < b => rows[a].date < rows[b].date
  /\ {rows[a].date : a \in DOMAIN rows} = {data[k].date : k \in P}
  /\ \A a \in DOMAIN rows :
       /\ rows[a].count = Cardinality(OfDate(data, P, rows[a].date))
       /\ rows[a].sum = SumOfDate(data, OfDate(data, P, rows[a].date))

AddsDate(it, data, S) ==
  it = [T \in SUBSET S |-> IF T = {} THEN 0 ELSE data[Chosen(T)].value + it[T \ {Chosen(T)}]]
LEMMA SumOfDateIs ==
  ASSUME NEW data, NEW S
  PROVE  SumOfDate(data, S) = (CHOOSE it : AddsDate(it, data, S))[S]
BY DEF SumOfDate, MapThenSumSet, MapThenFoldSet, AddsDate, Chosen

Measure == [date : Nat \ {0}, value : Nat]
Measures == Seq(Measure)
LEMMA MeasuresAre ==
  ASSUME NEW data \in Measures
  PROVE  /\ Len(data) \in Nat /\ DOMAIN data = 1 .. Len(data) /\ IsFiniteSet(DOMAIN data)
         /\ \A k \in DOMAIN data : data[k].date \in Nat \ {0} /\ data[k].value \in Nat
<1>1. Len(data) \in Nat /\ DOMAIN data = 1 .. Len(data)
  BY DEF Measures
<1>2. IsFiniteSet(1 .. Len(data))
  BY <1>1, FS_Interval
<1>3. \A k \in DOMAIN data : data[k] \in Measure
  BY DEF Measures
<1>4. \A k \in DOMAIN data : data[k].date \in Nat \ {0} /\ data[k].value \in Nat
  BY <1>3 DEF Measure
<1> QED BY <1>1, <1>2, <1>4

LEMMA DateSumIs ==
  ASSUME NEW data \in Measures, NEW S \in SUBSET (DOMAIN data), NEW f,
         f = [k \in DOMAIN data |-> data[k].value]
  PROVE  SumOfDate(data, S) = SumOf(f, S)
<1> DEFINE D == DOMAIN data
           g == [k \in S |-> data[k].value]
<1>0. /\ IsFiniteSet(D) /\ IsFiniteSet(S) /\ f \in [D -> Nat] /\ g \in [S -> Nat]
      /\ \A k \in D : f[k] = data[k].value
  <2>1. Len(data) \in Nat /\ D = 1 .. Len(data)
    BY MeasuresAre
  <2>2. IsFiniteSet(1 .. Len(data))
    BY <2>1, FS_Interval
  <2>3. IsFiniteSet(S)
    BY <2>1, <2>2, FS_Subset
  <2>4. \A k \in D : data[k].value \in Nat
    BY MeasuresAre
  <2> QED BY <2>1, <2>2, <2>3, <2>4
<1>1. ASSUME NEW it PROVE AddsDate(it, data, S) <=> Adds(f, it, S)
  <2>1. \A T \in SUBSET S : T # {} => f[Chosen(T)] = data[Chosen(T)].value
    <3> SUFFICES ASSUME NEW T \in SUBSET S, T # {} PROVE Chosen(T) \in D
      BY <1>0
    <3> QED BY DEF Chosen
  <2>2. [T \in SUBSET S |-> IF T = {} THEN 0 ELSE f[Chosen(T)] + it[T \ {Chosen(T)}]]
          = [T \in SUBSET S |-> IF T = {} THEN 0 ELSE data[Chosen(T)].value + it[T \ {Chosen(T)}]]
    BY <2>1
  <2> QED BY <2>2 DEF AddsDate, Adds
<1>2. (CHOOSE it : AddsDate(it, data, S)) = (CHOOSE it : Adds(f, it, S))
  BY <1>1
<1> QED BY <1>2, SumOfDateIs, SumIs

LEMMA DateAdded ==
  ASSUME NEW data \in Measures, NEW P \in SUBSET (DOMAIN data), NEW k \in (DOMAIN data) \ P, NEW date
  PROVE  /\ Cardinality(OfDate(data, P, date)) \in Nat
         /\ SumOfDate(data, OfDate(data, P, date)) \in Nat
         /\ data[k].date # date => OfDate(data, P \cup {k}, date) = OfDate(data, P, date)
         /\ data[k].date = date =>
              /\ Cardinality(OfDate(data, P \cup {k}, date)) = Cardinality(OfDate(data, P, date)) + 1
              /\ SumOfDate(data, OfDate(data, P \cup {k}, date))
                   = SumOfDate(data, OfDate(data, P, date)) + data[k].value
         /\ OfDate(data, P, date) = {} =>
              /\ Cardinality(OfDate(data, P, date)) = 0
              /\ SumOfDate(data, OfDate(data, P, date)) = 0
<1> DEFINE D == DOMAIN data
           S == OfDate(data, P, date)
           f == [i \in D |-> data[i].value]
<1>0. IsFiniteSet(D) /\ IsFiniteSet(S) /\ f \in [D -> Nat] /\ S \in SUBSET D /\ k \in D \ S
  <2>1. Len(data) \in Nat /\ D = 1 .. Len(data)
    BY MeasuresAre
  <2>2. IsFiniteSet(1 .. Len(data))
    BY <2>1, FS_Interval
  <2>3. S \in SUBSET D /\ k \in D \ S
    BY DEF OfDate
  <2>4. IsFiniteSet(S)
    <3> HIDE DEF S
    <3> QED BY <2>1, <2>2, <2>3, FS_Subset
  <2>5. \A i \in D : data[i].value \in Nat
    BY MeasuresAre
  <2> QED BY <2>1, <2>2, <2>3, <2>4, <2>5
<1>1. \A T \in SUBSET D : SumOfDate(data, T) = SumOf(f, T)
  BY DateSumIs
<1>2. /\ SumOf(f, {}) = 0 /\ SumOf(f, S) \in Nat
      /\ SumOf(f, S \cup {k}) = SumOf(f, S) + f[k]
  <2> HIDE DEF S, f, D
  <2> QED BY <1>0, SumOfMore
<1>3. Cardinality(S) \in Nat /\ Cardinality(S \cup {k}) = Cardinality(S) + 1
  <2> HIDE DEF S
  <2> QED BY <1>0, FS_CardinalityType, FS_AddElement
<1>4. data[k].date # date => OfDate(data, P \cup {k}, date) = OfDate(data, P, date)
  BY DEF OfDate
<1>5. data[k].date = date => OfDate(data, P \cup {k}, date) = S \cup {k}
  BY DEF OfDate
<1>6. S = {} => Cardinality(S) = 0 /\ SumOfDate(data, S) = 0
  <2> HIDE DEF S, f
  <2> QED BY <1>0, <1>1, <1>2, FS_EmptySet
<1>7. SumOfDate(data, S) \in Nat /\ SumOfDate(data, S \cup {k}) = SumOfDate(data, S) + data[k].value
  <2>1. S \cup {k} \in SUBSET D /\ f[k] = data[k].value
    BY <1>0
  <2> HIDE DEF S, f
  <2> QED BY <1>0, <1>1, <1>2, <2>1
<1> HIDE DEF S
<1> QED BY <1>3, <1>4, <1>5, <1>6, <1>7 DEF S

LEMMA NewDate ==
  ASSUME NEW data \in Measures, NEW P \in SUBSET (DOMAIN data), NEW k \in (DOMAIN data) \ P,
         \A p \in P : data[p].date < data[k].date, NEW rows, Tells(rows, data, P)
  PROVE  Tells(Append(rows, [date |-> data[k].date, sum |-> data[k].value, count |-> 1]), data, P \cup {k})
<1> DEFINE row == [date |-> data[k].date, sum |-> data[k].value, count |-> 1]
           n == Len(rows)
           t == Append(rows, row)
<1>0. /\ data[k].date \in Nat /\ data[k].value \in Nat /\ row \in RowType
      /\ row.date = data[k].date /\ row.sum = data[k].value /\ row.count = 1
  <2>1. data[k].date \in Nat /\ data[k].value \in Nat
    BY MeasuresAre
  <2> QED BY <2>1 DEF RowType
<1>1. rows \in Seq(RowType) /\ n \in Nat /\ DOMAIN rows = 1 .. n
  BY DEF Tells
<1>2. /\ t \in Seq(RowType) /\ DOMAIN t = 1 .. n + 1 /\ t[n + 1] = row
      /\ \A a \in 1 .. n : t[a] = rows[a]
  <2> HIDE DEF row
  <2> QED BY <1>0, <1>1
<1>3. \A a \in 1 .. n : rows[a].date < data[k].date /\ rows[a].date # data[k].date
  <2> SUFFICES ASSUME NEW a \in 1 .. n PROVE rows[a].date < data[k].date /\ rows[a].date # data[k].date
    OBVIOUS
  <2>1. rows[a].date \in {data[p].date : p \in P}
    <3> HIDE DEF n
    <3> QED BY <1>1 DEF Tells
  <2>2. PICK p \in P : rows[a].date = data[p].date
    BY <2>1
  <2>3. data[p].date \in Nat
    BY MeasuresAre
  <2> QED BY <1>0, <2>2, <2>3
<1>4. \A a \in 1 .. n + 1 : a \in 1 .. n \/ a = n + 1
  BY <1>1
<1>5. ASSUME NEW a \in DOMAIN t, NEW b \in DOMAIN t, a < b
      PROVE  t[a].date < t[b].date
  <2>1. a \in 1 .. n /\ (b \in 1 .. n \/ b = n + 1)
    <3>1. a \in 1 .. n + 1 /\ b \in 1 .. n + 1
      BY <1>2
    <3> HIDE DEF t, n
    <3> QED BY <1>1, <1>5, <3>1
  <2> HIDE DEF t, row, n
  <2> QED BY <1>0, <1>1, <1>2, <1>3, <1>5, <2>1 DEF Tells
<1>6. {t[a].date : a \in DOMAIN t} = {data[p].date : p \in P \cup {k}}
  <2>1. {t[a].date : a \in DOMAIN t} = {rows[a].date : a \in 1 .. n} \cup {row.date}
    <3>1. n + 1 \in 1 .. n + 1 /\ \A a \in 1 .. n : a \in 1 .. n + 1
      BY <1>1
    <3> HIDE DEF t, row, n
    <3> QED BY <1>2, <1>4, <3>1
  <2>2. {data[p].date : p \in P \cup {k}} = {data[p].date : p \in P} \cup {data[k].date}
    OBVIOUS
  <2> HIDE DEF t, row, n
  <2> QED BY <1>0, <1>1, <2>1, <2>2 DEF Tells
<1>7. ASSUME NEW a \in DOMAIN t
      PROVE  /\ t[a].count = Cardinality(OfDate(data, P \cup {k}, t[a].date))
             /\ t[a].sum = SumOfDate(data, OfDate(data, P \cup {k}, t[a].date))
  <2>1. CASE a \in 1 .. n
    <3>1. t[a] = rows[a] /\ data[k].date # rows[a].date
      <4> HIDE DEF t, row, n
      <4> QED BY <1>2, <1>3, <2>1
    <3>2. OfDate(data, P \cup {k}, rows[a].date) = OfDate(data, P, rows[a].date)
      BY <3>1, DateAdded
    <3> HIDE DEF t, n
    <3> QED BY <1>1, <2>1, <3>1, <3>2 DEF Tells
  <2>2. CASE a = n + 1
    <3> DEFINE d == data[k].date
    <3>1. OfDate(data, P, d) = {}
      <4> SUFFICES ASSUME NEW p \in P, data[p].date = d PROVE FALSE
        BY DEF OfDate
      <4> QED BY <1>0
    <3>2. /\ Cardinality(OfDate(data, P \cup {k}, d)) = 0 + 1
          /\ SumOfDate(data, OfDate(data, P \cup {k}, d)) = 0 + data[k].value
      BY <3>1, DateAdded
    <3>3. t[a] = row
      <4> HIDE DEF t, row, n
      <4> QED BY <1>2, <2>2
    <3> HIDE DEF t, row, n
    <3> QED BY <1>0, <3>2, <3>3
  <2>3. a \in 1 .. n + 1
    BY <1>2
  <2> QED BY <1>4, <2>1, <2>2, <2>3
<1>8. Tells(t, data, P \cup {k})
  <2> HIDE DEF t
  <2> QED BY <1>2, <1>5, <1>6, <1>7 DEF Tells
<1> QED BY <1>8

LEMMA SameDate ==
  ASSUME NEW data \in Measures, NEW P \in SUBSET (DOMAIN data), NEW k \in (DOMAIN data) \ P,
         NEW rows \in Seq(RowType), NEW row \in RowType, row.date = data[k].date,
         Tells(Append(rows, row), data, P)
  PROVE  Tells(Append(rows, [date |-> row.date, sum |-> row.sum + data[k].value, count |-> row.count + 1]),
               data, P \cup {k})
<1> DEFINE new == [date |-> row.date, sum |-> row.sum + data[k].value, count |-> row.count + 1]
           n == Len(rows)
           s == Append(rows, row)
           t == Append(rows, new)
<1>0. /\ data[k].date \in Nat /\ data[k].value \in Nat /\ new \in RowType
      /\ new.date = data[k].date /\ new.sum = row.sum + data[k].value /\ new.count = row.count + 1
  <2>1. data[k].date \in Nat /\ data[k].value \in Nat
    BY MeasuresAre
  <2> QED BY <2>1 DEF RowType
<1>1. n \in Nat /\ DOMAIN rows = 1 .. n
  OBVIOUS
<1>2. /\ t \in Seq(RowType) /\ DOMAIN t = 1 .. n + 1 /\ t[n + 1] = new
      /\ DOMAIN s = 1 .. n + 1 /\ s[n + 1] = row
      /\ \A a \in 1 .. n : t[a] = s[a]
  <2> HIDE DEF new
  <2> QED BY <1>0, <1>1
<1>4. \A a \in 1 .. n + 1 : a \in 1 .. n \/ a = n + 1
  BY <1>1
<1>3. \A a \in 1 .. n + 1 : t[a].date = s[a].date
  <2> HIDE DEF new, t, s, n
  <2> QED BY <1>0, <1>2, <1>4
<1>5. ASSUME NEW a \in DOMAIN t, NEW b \in DOMAIN t, a < b
      PROVE  t[a].date < t[b].date
  <2> HIDE DEF new, t, n
  <2> QED BY <1>2, <1>3, <1>5 DEF Tells
<1>6. {t[a].date : a \in DOMAIN t} = {data[p].date : p \in P \cup {k}}
  <2>1. {t[a].date : a \in DOMAIN t} = {s[a].date : a \in DOMAIN s}
    <3> HIDE DEF t, s, new, n
    <3> QED BY <1>2, <1>3
  <2>2. {data[p].date : p \in P \cup {k}} = {data[p].date : p \in P} \cup {data[k].date}
    OBVIOUS
  <2>3. data[k].date \in {s[a].date : a \in DOMAIN s}
    <3>1. n + 1 \in 1 .. n + 1
      BY <1>1
    <3> HIDE DEF t, s, new, n
    <3> QED BY <1>2, <3>1
  <2>4. {s[a].date : a \in DOMAIN s} = {data[p].date : p \in P}
    BY DEF Tells
  <2> HIDE DEF t, new, s, n
  <2> QED BY <2>1, <2>2, <2>3, <2>4
<1>7. ASSUME NEW a \in DOMAIN t
      PROVE  /\ t[a].count = Cardinality(OfDate(data, P \cup {k}, t[a].date))
             /\ t[a].sum = SumOfDate(data, OfDate(data, P \cup {k}, t[a].date))
  <2>1. CASE a \in 1 .. n
    <3>1. t[a] = s[a] /\ a \in DOMAIN s /\ s[a].date < data[k].date /\ s[a].date \in Nat
      <4>1. a < n + 1 /\ a \in 1 .. n + 1 /\ n + 1 \in 1 .. n + 1
        BY <1>1, <2>1
      <4>2. t[a] = s[a] /\ s[a].date < s[n + 1].date
        <5> HIDE DEF t, n, new
        <5> QED BY <1>2, <2>1, <4>1 DEF Tells
      <4>3. s[a] \in RowType
        <5> HIDE DEF t, n, new
        <5> QED BY <1>2, <4>1 DEF Tells
      <4>4. s[a].date \in Nat
        BY <4>3 DEF RowType
      <4> HIDE DEF t, s, n, new
      <4> QED BY <1>2, <4>1, <4>2, <4>4
    <3>2. data[k].date # s[a].date
      <4> HIDE DEF s
      <4> QED BY <1>0, <3>1
    <3>3. OfDate(data, P \cup {k}, s[a].date) = OfDate(data, P, s[a].date)
      BY <3>2, DateAdded
    <3> HIDE DEF t, n, new
    <3> QED BY <3>1, <3>3 DEF Tells
  <2>2. CASE a = n + 1
    <3> DEFINE d == data[k].date
    <3>1. row.count = Cardinality(OfDate(data, P, d)) /\ row.sum = SumOfDate(data, OfDate(data, P, d))
      <4>1. n + 1 \in 1 .. n + 1
        BY <1>1
      <4>2. s[n + 1].date = d /\ n + 1 \in DOMAIN s
        <5> HIDE DEF s, n
        <5> QED BY <1>2, <4>1
      <4>3. /\ s[n + 1].count = Cardinality(OfDate(data, P, s[n + 1].date))
            /\ s[n + 1].sum = SumOfDate(data, OfDate(data, P, s[n + 1].date))
        <5> HIDE DEF n
        <5> QED BY <4>2 DEF Tells
      <4> HIDE DEF s, n
      <4> QED BY <1>2, <4>2, <4>3
    <3>2. /\ Cardinality(OfDate(data, P \cup {k}, d)) = row.count + 1
          /\ SumOfDate(data, OfDate(data, P \cup {k}, d)) = row.sum + data[k].value
      BY <3>1, DateAdded
    <3>3. t[a] = new
      <4> HIDE DEF t, new, n
      <4> QED BY <1>2, <2>2
    <3> HIDE DEF t, new, n
    <3> QED BY <1>0, <3>2, <3>3
  <2>3. a \in 1 .. n + 1
    BY <1>2
  <2> QED BY <1>4, <2>1, <2>2, <2>3
<1>8. Tells(t, data, P \cup {k})
  <2> HIDE DEF t
  <2> QED BY <1>2, <1>5, <1>6, <1>7 DEF Tells
<1> QED BY <1>8

(* One value more: the row of its date has it.                              *)
Reading == [time : Nat, values : Seq(Nat), rows : Seq(RowType)]
LEMMA RowIs ==
  ASSUME NEW date \in Nat, NEW values \in Seq(Nat)
  PROVE  /\ Row(date, values) = [date |-> date, sum |-> SumOfValues(values), count |-> Len(values)]
         /\ Row(date, values) \in RowType
<1>1. Row(date, values) = [date |-> date, sum |-> SumOfValues(values), count |-> Len(values)]
  BY DEF Row, SumOfValues
<1>2. SumOfValues(values) \in Nat
  BY SumsOfValues
<1>3. Len(values) \in Nat
  OBVIOUS
<1> QED BY <1>1, <1>2, <1>3 DEF RowType

LEMMA ReadRowIs ==
  ASSUME NEW data \in Measures, NEW k \in DOMAIN data, NEW st \in Reading
  PROVE  /\ Rows(st) \in Seq(RowType)
         /\ ReadRow(st, data[k]) \in Reading
         /\ ReadRow(st, data[k]).time = data[k].date
         /\ data[k].date = st.time =>
              ReadRow(st, data[k])
                = [time |-> st.time, values |-> Append(st.values, data[k].value), rows |-> st.rows]
         /\ data[k].date # st.time =>
              ReadRow(st, data[k])
                = [time |-> data[k].date, values |-> <<data[k].value>>, rows |-> Rows(st)]
<1> DEFINE v == data[k].value
           d == data[k].date
           next == ReadRow(st, data[k])
           rows == Rows(st)
           more == Append(st.values, v)
           one == <<v>>
<1>0. /\ st = [time |-> st.time, values |-> st.values, rows |-> st.rows]
      /\ st.time \in Nat /\ st.values \in Seq(Nat) /\ st.rows \in Seq(RowType)
  BY DEF Reading
<1>1. v \in Nat /\ d \in Nat
  BY MeasuresAre
<1>2. rows \in Seq(RowType)
  <2> DEFINE row == Row(st.time, st.values)
  <2>1. row \in RowType
    BY <1>0, RowIs
  <2>2. Append(st.rows, row) \in Seq(RowType) /\ <<>> \in Seq(RowType)
    <3> HIDE DEF row
    <3> QED BY <1>0, <2>1
  <2>3. rows = IF st.time = 0 THEN <<>> ELSE Append(st.rows, row)
    BY DEF Rows
  <2> HIDE DEF rows, row
  <2> QED BY <2>2, <2>3
<1>3. more \in Seq(Nat) /\ one \in Seq(Nat)
  <2> HIDE DEF v
  <2> QED BY <1>0, <1>1
<1>4. CASE d = st.time
  <2>1. next = [st EXCEPT !.values = Append(st.values, v)]
    BY <1>4 DEF ReadRow
  <2>2. next = [time |-> st.time, values |-> more, rows |-> st.rows]
    <3> HIDE DEF next
    <3> QED BY <1>0, <2>1
  <2>3. next \in Reading /\ next.time = d
    <3> HIDE DEF next, more, d
    <3> QED BY <1>0, <1>3, <1>4, <2>2 DEF Reading
  <2> QED BY <1>2, <1>4, <2>2, <2>3
<1>5. CASE d # st.time
  <2>2. next = [time |-> d, values |-> one, rows |-> rows]
    BY <1>5 DEF ReadRow
  <2>3. next \in Reading /\ next.time = d
    <3> HIDE DEF next, one, d, rows
    <3> QED BY <1>0, <1>1, <1>2, <1>3, <1>5, <2>2 DEF Reading
  <2> QED BY <1>2, <1>5, <2>2, <2>3
<1> QED BY <1>4, <1>5

LEMMA ReadRowTells ==
  ASSUME NEW data \in Measures, NEW P \in SUBSET (DOMAIN data), NEW k \in (DOMAIN data) \ P,
         NEW st \in Reading, Tells(Rows(st), data, P),
         \A p \in P : data[p].date <= st.time, st.time <= data[k].date
  PROVE  Tells(Rows(ReadRow(st, data[k])), data, P \cup {k})
<1> DEFINE v == data[k].value
           d == data[k].date
           next == ReadRow(st, data[k])
           rows == Rows(st)
<1>0. /\ st.time \in Nat /\ st.values \in Seq(Nat) /\ st.rows \in Seq(RowType)
      /\ v \in Nat /\ d \in Nat /\ d # 0 /\ k \in DOMAIN data
      /\ \A p \in P : data[p].date \in Nat
  <2>1. st.time \in Nat /\ st.values \in Seq(Nat) /\ st.rows \in Seq(RowType)
    BY DEF Reading
  <2> QED BY <2>1, MeasuresAre
<1>1. rows \in Seq(RowType) /\ next \in Reading /\ next.time = d
  BY <1>0, ReadRowIs
<1>2. Rows(next) = Append(next.rows, Row(next.time, next.values))
  BY <1>0, <1>1 DEF Rows
<1>3. CASE d = st.time
  <2> DEFINE row == Row(st.time, st.values)
             new == [date |-> row.date, sum |-> row.sum + v, count |-> row.count + 1]
  <2>1. next = [time |-> st.time, values |-> Append(st.values, v), rows |-> st.rows]
    BY <1>0, <1>3, ReadRowIs
  <2>2. next.rows = st.rows /\ next.values = Append(st.values, v)
    <3> HIDE DEF next
    <3> QED BY <2>1
  <2>3. /\ row = [date |-> st.time, sum |-> SumOfValues(st.values), count |-> Len(st.values)]
        /\ row \in RowType
    BY <1>0, RowIs
  <2>4. row.date = d /\ row.sum = SumOfValues(st.values) /\ row.count = Len(st.values)
    <3> HIDE DEF row
    <3> QED BY <1>3, <2>3
  <2>5. /\ Append(st.values, v) \in Seq(Nat) /\ Len(Append(st.values, v)) = Len(st.values) + 1
        /\ SumOfValues(Append(st.values, v)) = SumOfValues(st.values) + v
    <3>1. Append(st.values, v) \in Seq(Nat) /\ Len(Append(st.values, v)) = Len(st.values) + 1
      <4> HIDE DEF v
      <4> QED BY <1>0
    <3>2. SumOfValues(Append(st.values, v)) = SumOfValues(st.values) + v
      <4> HIDE DEF v
      <4> QED BY <1>0, SumGrows
    <3> QED BY <3>1, <3>2
  <2>6. Row(next.time, next.values) = new
    <3>1. Row(next.time, next.values)
            = [date |-> next.time, sum |-> SumOfValues(next.values), count |-> Len(next.values)]
      <4> HIDE DEF next, v, d
      <4> QED BY <1>0, <1>1, <2>2, <2>5, RowIs
    <3> HIDE DEF next, row, v, d
    <3> QED BY <1>1, <2>2, <2>4, <2>5, <3>1
  <2>7. rows = Append(st.rows, row)
    BY <1>0, <1>3 DEF Rows
  <2>8. Tells(Append(st.rows, new), data, P \cup {k})
    <3>1. Tells(Append(st.rows, row), data, P)
      BY <2>7
    <3> HIDE DEF row
    <3> QED BY <1>0, <2>3, <2>4, <3>1, SameDate
  <2>9. Rows(next) = Append(st.rows, new)
    <3> HIDE DEF next, new
    <3> QED BY <1>2, <2>2, <2>6
  <2> QED BY <2>8, <2>9
<1>4. CASE d # st.time
  <2> DEFINE new == [date |-> d, sum |-> v, count |-> 1]
             one == <<v>>
  <2>1. next = [time |-> d, values |-> one, rows |-> rows]
    BY <1>0, <1>4, ReadRowIs
  <2>2. next.rows = rows /\ next.values = one
    <3> HIDE DEF next, rows, one
    <3> QED BY <2>1
  <2>3. one \in Seq(Nat) /\ Len(one) = 1 /\ SumOfValues(one) = v
    <3>1. one \in Seq(Nat) /\ Len(one) = 1
      <4> HIDE DEF v
      <4> QED BY <1>0
    <3>2. <<>> \in Seq(Nat)
      OBVIOUS
    <3> HIDE DEF v
    <3> QED BY <1>0, <3>1, <3>2, SumGrows
  <2>4. Row(next.time, next.values) = new
    <3>1. Row(next.time, next.values)
            = [date |-> next.time, sum |-> SumOfValues(next.values), count |-> Len(next.values)]
      <4> HIDE DEF next, v, d, one
      <4> QED BY <1>0, <1>1, <2>2, <2>3, RowIs
    <3> HIDE DEF next, one, v, d
    <3> QED BY <1>1, <2>2, <2>3, <3>1
  <2>5. \A p \in P : data[p].date < d
    BY <1>0, <1>4
  <2>6. Tells(Append(rows, new), data, P \cup {k})
    <3> HIDE DEF rows
    <3> QED BY <2>5, NewDate DEF rows
  <2>7. Rows(next) = Append(rows, new)
    <3> HIDE DEF next, new, rows
    <3> QED BY <1>2, <2>2, <2>4
  <2> QED BY <2>6, <2>7
<1> QED BY <1>3, <1>4

(* The order in which the values are read has each once, by date.           *)
LEMMA SortedIs ==
  ASSUME NEW data \in Measures
  PROVE  LET order == SortedByDate(data)
             D     == DOMAIN data
         IN /\ order \in [D -> D]
            /\ \A i, j \in D : i < j => data[order[i]].date <= data[order[j]].date
            /\ \A i, j \in D : order[i] = order[j] => i = j
            /\ \A k \in D : \E i \in D : order[i] = k
<1> DEFINE D == DOMAIN data
           n == Len(data)
           R == {p \in D \X D : Earlier(data, p[1], p[2])}
           order == SortedByDate(data)
<1>1. /\ n \in Nat /\ D = 1 .. n /\ IsFiniteSet(D) /\ Cardinality(D) = n /\ 1 .. Cardinality(D) = D
      /\ \A k \in D : k \in Nat /\ data[k].date \in Nat
  <2>1. n \in Nat /\ D = 1 .. n /\ IsFiniteSet(D) /\ \A k \in D : data[k].date \in Nat
    <3>1. n \in Nat /\ D = 1 .. n /\ IsFiniteSet(D) /\ \A k \in D : data[k].date \in Nat \ {0}
      BY MeasuresAre
    <3> HIDE DEF n, D
    <3> QED BY <3>1
  <2>2. Cardinality(1 .. n) = n
    BY <2>1, FS_Interval
  <2> QED BY <2>1, <2>2
<1>2. \A i, j \in D : <<i, j>> \in R <=> Earlier(data, i, j)
  OBVIOUS
<1>3. Orders(R, D)
  <2> HIDE DEF R, D
  <2>1. \A i, j \in D : i # j => Earlier(data, i, j) \/ Earlier(data, j, i)
    BY <1>1 DEF Earlier
  <2>2. \A i, j, k \in D : Earlier(data, i, j) /\ Earlier(data, j, k) => Earlier(data, i, k)
    BY <1>1 DEF Earlier
  <2>3. \A i \in D : ~ Earlier(data, i, i)
    BY <1>1 DEF Earlier
  <2> QED BY <1>2, <2>1, <2>2, <2>3 DEF Orders
<1>4. \E f \in [D -> D] : \A i, j \in D : i < j => Earlier(data, f[i], f[j])
  <2>1. PICK f : InOrder(f, R, D)
    <3> HIDE DEF R, D
    <3> QED BY <1>1, <1>3, ListExists
  <2>2. f \in [D -> D] /\ \A i, j \in D : i < j => <<f[i], f[j]>> \in R
    <3> HIDE DEF R, D
    <3> QED BY <1>1, <2>1 DEF InOrder
  <2>3. \A i, j \in D : i < j => Earlier(data, f[i], f[j])
    <3> HIDE DEF R, D
    <3> QED BY <1>2, <2>2
  <2> QED BY <2>2, <2>3
<1>5. order \in [D -> D] /\ \A i, j \in D : i < j => Earlier(data, order[i], order[j])
  <2>1. order = CHOOSE f \in [D -> D] : \A i, j \in D : i < j => Earlier(data, f[i], f[j])
    BY DEF SortedByDate
  <2> HIDE DEF order, D
  <2> QED BY <1>4, <2>1
<1>6. InOrder(order, R, D)
  <2> HIDE DEF order, R, D
  <2> QED BY <1>1, <1>2, <1>5 DEF InOrder
<1>7. (\A i, j \in D : order[i] = order[j] => i = j) /\ (\A k \in D : \E i \in D : order[i] = k)
  <2> HIDE DEF order, R, D
  <2>1. /\ \A i, j \in 1 .. Cardinality(D) : order[i] = order[j] => i = j
        /\ \A k \in D : \E i \in 1 .. Cardinality(D) : order[i] = k
    <3>1. IsFiniteSet(D)
      BY <1>1
    <3> QED BY <3>1, <1>3, <1>6, ListHasAll
  <2> QED BY <1>1, <2>1
<1>8. ASSUME NEW i \in D, NEW j \in D, i < j PROVE data[order[i]].date <= data[order[j]].date
  <2> HIDE DEF order, D
  <2>1. Earlier(data, order[i], order[j])
    BY <1>5, <1>8
  <2>2. data[order[i]].date \in Nat /\ data[order[j]].date \in Nat
    BY <1>1, <1>5
  <2> QED BY <2>1, <2>2 DEF Earlier
<1> HIDE DEF order, D
<1>9. /\ order \in [D -> D]
      /\ \A i, j \in D : i < j => data[order[i]].date <= data[order[j]].date
      /\ \A i, j \in D : order[i] = order[j] => i = j
      /\ \A k \in D : \E i \in D : order[i] = k
  BY <1>5, <1>7, <1>8
<1> QED BY <1>9 DEF order, D

BeforeReading == [time |-> 0, values |-> <<>>, rows |-> <<>>]
ReadsRows(it, data, order) ==
  it = [S \in SUBSET (DOMAIN order) |->
          IF S = {} THEN BeforeReading
          ELSE ReadRow(it[S \ {Max(S)}], data[order[Max(S)]])]
RowsRead(data, order) ==
  FoldLeft(LAMBDA state, i : ReadRow(state, data[i]), BeforeReading, order)
LEMMA RowsReadIs ==
  ASSUME NEW data, NEW order
  PROVE  RowsRead(data, order) = (CHOOSE it : ReadsRows(it, data, order))[DOMAIN order]
BY DEF RowsRead, BeforeReading, FoldLeft, MapThenFoldSet, Max, ReadsRows

LEMMA RowReadings ==
  ASSUME NEW data \in Measures, NEW order \in [DOMAIN data -> DOMAIN data]
  PROVE  \E r \in [0 .. Len(data) -> Reading] :
           /\ r[0] = BeforeReading
           /\ \A i \in 1 .. Len(data) : r[i] = ReadRow(r[i - 1], data[order[i]])
           /\ RowsRead(data, order) = r[Len(data)]
<1> DEFINE n == Len(data)
           F == [p \in (1 .. n) \X Reading |-> ReadRow(p[2], data[order[p[1]]])]
           it == CHOOSE h : ReadsRows(h, data, order)
           base == BeforeReading
<1>0. /\ n \in Nat /\ DOMAIN order = 1 .. n /\ base \in Reading
      /\ \A i \in 1 .. n : order[i] \in DOMAIN data
  <2>1. n \in Nat /\ DOMAIN data = 1 .. n
    BY MeasuresAre
  <2>2. <<>> \in Seq(Nat) /\ <<>> \in Seq(RowType) /\ 0 \in Nat
    OBVIOUS
  <2>3. base \in Reading
    BY <2>2 DEF BeforeReading, Reading
  <2> QED BY <2>1, <2>3
<1>1. ASSUME NEW i \in 1 .. n, NEW s \in Reading
      PROVE  /\ F[<<i, s>>] = ReadRow(s, data[order[i]])
             /\ ReadRow(s, data[order[i]]) \in Reading
  <2>1. order[i] \in DOMAIN data
    BY <1>0
  <2> QED BY <2>1, ReadRowIs
<1>2. F \in [(1 .. n) \X Reading -> Reading]
  <2>1. \A p \in (1 .. n) \X Reading : ReadRow(p[2], data[order[p[1]]]) \in Reading
    BY <1>1
  <2> QED BY <2>1
<1>3. ReadsRows(it, data, order)
  <2>1. PICK h : Computes(h, n, Reading, base, F)
    <3> HIDE DEF n, F, base
    <3> QED BY <1>0, <1>2, FoldIsDefined
  <2>2. ReadsRows(h, data, order)
    <3>1. \A S \in SUBSET (1 .. n) : S # {} => h[S] = ReadRow(h[S \ {Max(S)}], data[order[Max(S)]])
      <4> HIDE DEF F
      <4> QED BY <1>1, <2>1 DEF Computes
    <3>2. h = [S \in SUBSET (1 .. n) |->
                 IF S = {} THEN base ELSE ReadRow(h[S \ {Max(S)}], data[order[Max(S)]])]
      <4> HIDE DEF base
      <4> QED BY <2>1, <3>1 DEF Computes
    <3> QED BY <1>0, <3>2 DEF ReadsRows
  <2> QED BY <2>2
<1>4. Follows(it, n, Reading, base, F)
  <2> HIDE DEF it
  <2>1. it = [S \in SUBSET (1 .. n) |->
                IF S = {} THEN base ELSE ReadRow(it[S \ {Max(S)}], data[order[Max(S)]])]
    BY <1>0, <1>3 DEF ReadsRows
  <2>2. /\ it[{}] = base
        /\ \A S \in SUBSET (1 .. n) : S # {} => it[S] = ReadRow(it[S \ {Max(S)}], data[order[Max(S)]])
        /\ it = [S \in SUBSET (1 .. n) |-> it[S]]
    <3> HIDE DEF n, base
    <3> QED BY <2>1
  <2>3. \A S \in SUBSET (1 .. n) :
          S # {} /\ Max(S) \in 1 .. n /\ it[S \ {Max(S)}] \in Reading
            => it[S] = F[<<Max(S), it[S \ {Max(S)}]>>]
    <3> HIDE DEF F, n
    <3> QED BY <1>1, <2>2
  <2> QED BY <2>2, <2>3 DEF Follows
<1>5. PICK r : Leads(r, n, Reading, base, F, it[1 .. n])
  <2> HIDE DEF n, F, it, base
  <2> QED BY <1>0, <1>2, <1>4, FoldLeads
<1>6. ASSUME NEW i \in 1 .. n PROVE r[i] = ReadRow(r[i - 1], data[order[i]])
  <2>1. i - 1 \in 0 .. n
    BY <1>0
  <2>2. r[i - 1] \in Reading
    <3> HIDE DEF n
    <3> QED BY <1>5, <2>1 DEF Leads
  <2> HIDE DEF F
  <2> QED BY <1>1, <1>5, <2>2 DEF Leads
<1>7. RowsRead(data, order) = r[n]
  <2> HIDE DEF base
  <2> QED BY <1>0, <1>5, RowsReadIs DEF Leads
<1> QED BY <1>5, <1>6, <1>7 DEF Leads

(* download() gives each date one row, which is of all the values of the    *)
(* date, whatever the API has and in whatever order.                        *)
THEOREM DatesAreAveraged ==
  ASSUME NEW data \in Measures
  PROVE  DatesAveraged(data)
<1> DEFINE D == DOMAIN data
           n == Len(data)
           order == SortedByDate(data)
           read(i) == {order[j] : j \in 1 .. i}
<1>0. /\ n \in Nat /\ D = 1 .. n
      /\ \A k \in D : data[k].date \in Nat /\ data[k].date # 0
  BY MeasuresAre
<1>1. /\ order \in [D -> D]
      /\ \A i, j \in D : i < j => data[order[i]].date <= data[order[j]].date
      /\ \A i, j \in D : order[i] = order[j] => i = j
      /\ \A k \in D : \E i \in D : order[i] = k
  BY SortedIs
<1>2. PICK r \in [0 .. n -> Reading] :
        /\ r[0] = BeforeReading
        /\ \A i \in 1 .. n : r[i] = ReadRow(r[i - 1], data[order[i]])
        /\ RowsRead(data, order) = r[n]
  <2> HIDE DEF order
  <2> QED BY <1>1, RowReadings
<1> HIDE DEF order
<1> DEFINE Good(i) == /\ Tells(Rows(r[i]), data, read(i))
                      /\ \A p \in read(i) : data[p].date <= r[i].time
                      /\ i = 0 => r[i].time = 0
                      /\ i # 0 => r[i].time = data[order[i]].date
           M == {i \in Nat : i <= n => Good(i)}
<1>3. Good(0)
  <2>1. r[0].time = 0 /\ Rows(r[0]) = <<>> /\ read(0) = {}
    <3>1. 1 .. 0 = {}
      OBVIOUS
    <3> QED BY <1>2, <3>1 DEF BeforeReading, Rows
  <2>2. Tells(<<>>, data, {})
    <3>1. <<>> \in Seq(RowType) /\ DOMAIN <<>> = {}
      OBVIOUS
    <3> QED BY <3>1 DEF Tells
  <2> HIDE DEF read
  <2> QED BY <2>1, <2>2
<1>4. ASSUME NEW i \in 0 .. n - 1, Good(i) PROVE Good(i + 1)
  <2> DEFINE k == order[i + 1]
             st == r[i]
             P == read(i)
  <2>0. i \in Nat /\ i + 1 \in 1 .. n /\ i \in 0 .. n /\ (i + 1) - 1 = i /\ i + 1 \in D /\ i + 1 # 0
    BY <1>0
  <2>1. k \in D /\ st \in Reading /\ r[i + 1] = ReadRow(st, data[k])
    <3> HIDE DEF n, D
    <3> QED BY <1>1, <1>2, <2>0
  <2>2. P \in SUBSET D /\ k \notin P /\ read(i + 1) = P \cup {k}
    <3>1. \A j \in 1 .. i : j \in D /\ j # i + 1 /\ j < i + 1
      BY <1>0
    <3>2. 1 .. i + 1 = 1 .. i \cup {i + 1}
      BY <1>0
    <3>3. P \in SUBSET D /\ k \notin P
      <4> HIDE DEF D
      <4> QED BY <1>1, <2>0, <3>1
    <3>4. read(i + 1) = P \cup {k}
      BY <3>2
    <3> HIDE DEF P, k, read, D
    <3> QED BY <3>3, <3>4
  <2>3. st.time <= data[k].date /\ \A p \in P : data[p].date <= st.time
    <3>1. CASE i = 0
      <4>1. st.time = 0
        BY <1>4, <3>1
      <4> HIDE DEF k, st
      <4> QED BY <1>0, <1>4, <2>1, <4>1 DEF st
    <3>2. CASE i # 0
      <4>1. i \in D /\ i < i + 1
        BY <1>0, <3>2
      <4>2. data[order[i]].date <= data[order[i + 1]].date
        <5> HIDE DEF D
        <5> QED BY <1>1, <2>0, <4>1
      <4> QED BY <1>4, <3>2, <4>2
    <3> QED BY <3>1, <3>2
  <2>4. Tells(Rows(r[i + 1]), data, P \cup {k})
    <3>1. Tells(Rows(st), data, P)
      BY <1>4
    <3> HIDE DEF k, st, P, D
    <3> QED BY <2>1, <2>2, <2>3, <3>1, ReadRowTells DEF D
  <2>5. r[i + 1].time = data[k].date
    <3> HIDE DEF k, st
    <3> QED BY <2>1, ReadRowIs
  <2>6. \A p \in P \cup {k} : data[p].date <= data[k].date
    <3>1. st.time \in Nat
      <4> HIDE DEF st
      <4> QED BY <2>1 DEF Reading
    <3> HIDE DEF k, st, P, D
    <3> QED BY <1>0, <2>1, <2>2, <2>3, <3>1
  <2>7. /\ Tells(Rows(r[i + 1]), data, read(i + 1))
        /\ \A p \in read(i + 1) : data[p].date <= r[i + 1].time
    <3> HIDE DEF k, P, read
    <3> QED BY <2>2, <2>4, <2>5, <2>6
  <2> HIDE DEF read
  <2> QED BY <2>0, <2>5, <2>7
<1>5. Good(n)
  <2>1. \A i \in 0 .. n - 1 : i \in M => i + 1 \in M
    <3> HIDE DEF Good
    <3> QED BY <1>0, <1>4
  <2>2. M \in SUBSET Nat /\ 0 \in M
    <3> HIDE DEF Good
    <3> QED BY <1>3
  <2>3. 0 .. n \subseteq M
    <3> HIDE DEF M, n
    <3> QED BY <1>0, <2>1, <2>2, StepInduction
  <2>4. n \in 0 .. n /\ n <= n
    BY <1>0
  <2> HIDE DEF Good
  <2> QED BY <2>3, <2>4
<1>6. read(n) = D
  BY <1>0, <1>1
<1> DEFINE rows == Averages(data)
<1>7. rows = Rows(r[n])
  BY <1>2 DEF Averages, RowsRead, BeforeReading, order
<1>8. Tells(rows, data, D)
  <2> HIDE DEF rows, read, D, n
  <2> QED BY <1>5, <1>6, <1>7
<1>9. /\ \A i, j \in DOMAIN rows : i < j => rows[i].date < rows[j].date
      /\ {rows[i].date : i \in DOMAIN rows} = {data[i].date : i \in DOMAIN data}
      /\ \A i \in DOMAIN rows :
           /\ rows[i].count = Cardinality({k \in DOMAIN data : data[k].date = rows[i].date})
           /\ rows[i].sum = SumOfDate(data, {k \in DOMAIN data : data[k].date = rows[i].date})
  <2> HIDE DEF rows
  <2> QED BY <1>8 DEF Tells, OfDate
<1> HIDE DEF rows
<1> QED BY <1>9 DEF DatesAveraged, SumOfDate, rows

-----------------------------------------------------------------------------
(* A batch of addresses is split until the server accepts the pieces, or    *)
(* they are too short: they are the batch, cut in consecutive parts.        *)
PartOf(g, b, server, p) ==
  IF Refuses(server, SubSeq(b, p[1], p[2])) /\ Len(SubSeq(b, p[1], p[2])) >= MinSplit
  THEN g[<<p[1], (p[1] + Len(SubSeq(b, p[1], p[2])) \div 2) - 1>>]
         \o g[<<p[1] + Len(SubSeq(b, p[1], p[2])) \div 2, p[2]>>]
  ELSE <<SubSeq(b, p[1], p[2])>>
Parts(g, b, server) ==
  g = [p \in (1 .. Len(b)) \X (0 .. Len(b)) |-> PartOf(g, b, server, p)]
LEMMA PiecesIs ==
  ASSUME NEW b, NEW server
  PROVE  Pieces(b, server) = (CHOOSE g : Parts(g, b, server))[<<1, Len(b)>>]
BY DEF Pieces, Parts, PartOf

LEMMA HalfIs == \A n \in Nat : n >= 2 => n \div 2 \in Nat /\ 1 <= n \div 2 /\ n \div 2 < n
OBVIOUS

LEMMA PartIs ==
  ASSUME NEW E, NEW b \in Seq(E), NEW from \in 1 .. Len(b), NEW to \in 0 .. Len(b)
  PROVE  /\ SubSeq(b, from, to) \in Seq(E)
         /\ Len(SubSeq(b, from, to)) = IF from <= to THEN to - from + 1 ELSE 0
         /\ \A i \in 1 .. Len(SubSeq(b, from, to)) : SubSeq(b, from, to)[i] = b[from + i - 1]
<1>1. Len(b) \in Nat
  OBVIOUS
<1>2. from \in Int /\ to \in Int /\ \A i \in from .. to : b[i] \in E
  BY <1>1
<1> QED BY <1>2, SubSeqProperties

LEMMA PartSplits ==
  ASSUME NEW E, NEW b \in Seq(E), NEW server, NEW from \in 1 .. Len(b), NEW to \in 0 .. Len(b),
         MinSplit \in Nat, MinSplit >= 2, Len(SubSeq(b, from, to)) >= MinSplit
  PROVE  \E m \in 1 .. Len(b) :
           /\ from < m /\ m <= to /\ m - 1 \in 0 .. Len(b)
           /\ \A g : PartOf(g, b, server, <<from, to>>)
                       = IF Refuses(server, SubSeq(b, from, to))
                         THEN g[<<from, m - 1>>] \o g[<<m, to>>] ELSE <<SubSeq(b, from, to)>>
<1> DEFINE n == Len(SubSeq(b, from, to))
           h == n \div 2
<1>1. Len(b) \in Nat /\ n = to - from + 1 /\ n \in Nat /\ n >= 2
  <2>1. Len(b) \in Nat
    OBVIOUS
  <2>2. n = IF from <= to THEN to - from + 1 ELSE 0
    BY PartIs
  <2> HIDE DEF n
  <2> QED BY <2>1, <2>2 DEF n
<1>2. h \in Nat /\ 1 <= h /\ h < n
  <2> HIDE DEF n
  <2> QED BY <1>1, HalfIs
<1> DEFINE m == from + h
<1>3. m \in 1 .. Len(b) /\ from < m /\ m <= to /\ m - 1 \in 0 .. Len(b)
  <2> HIDE DEF n, h
  <2> QED BY <1>1, <1>2
<1>4. \A g : PartOf(g, b, server, <<from, to>>)
               = IF Refuses(server, SubSeq(b, from, to))
                 THEN g[<<from, m - 1>>] \o g[<<m, to>>] ELSE <<SubSeq(b, from, to)>>
  BY DEF PartOf
<1> HIDE DEF m
<1> QED BY <1>3, <1>4

(* There is one way to split: recursion on shorter parts.                   *)
LEMMA PartsExist ==
  ASSUME NEW E, NEW b \in Seq(E), NEW server, MinSplit \in Nat, MinSplit >= 2
  PROVE  \E g : Parts(g, b, server)
<1> DEFINE L == Len(b)
           D == (1 .. L) \X (0 .. L)
           Good(g, d) == /\ g = [p \in D |-> g[p]]
                         /\ \A p \in D : p[2] - p[1] <= d => g[p] = PartOf(g, b, server, p)
           M == {d \in Nat : \E g : Good(g, d)}
<1>0. L \in Nat
  OBVIOUS
<1>1. ASSUME NEW p \in D, NEW d \in Int, p[2] - p[1] <= d, NEW g, NEW h,
             \A q \in D : q[2] - q[1] <= d - 1 => g[q] = h[q]
      PROVE  PartOf(g, b, server, p) = PartOf(h, b, server, p)
  <2>0. p = <<p[1], p[2]>> /\ p[1] \in 1 .. L /\ p[2] \in 0 .. L
    OBVIOUS
  <2>1. CASE Len(SubSeq(b, p[1], p[2])) >= MinSplit
    <3>1. PICK m \in 1 .. L :
            /\ p[1] < m /\ m <= p[2] /\ m - 1 \in 0 .. L
            /\ \A f : PartOf(f, b, server, <<p[1], p[2]>>)
                        = IF Refuses(server, SubSeq(b, p[1], p[2]))
                          THEN f[<<p[1], m - 1>>] \o f[<<m, p[2]>>] ELSE <<SubSeq(b, p[1], p[2])>>
      <4> HIDE DEF D
      <4> QED BY <2>0, <2>1, PartSplits
    <3> DEFINE q == <<p[1], m - 1>>
               r == <<m, p[2]>>
    <3>2. q \in D /\ r \in D /\ q[2] - q[1] <= d - 1 /\ r[2] - r[1] <= d - 1
      BY <1>0, <1>1, <2>0, <3>1
    <3>3. g[q] = h[q] /\ g[r] = h[r]
      <4> HIDE DEF q, r, D
      <4> QED BY <1>1, <3>2
    <3> QED BY <2>0, <3>1, <3>3
  <2>2. CASE ~ (Len(SubSeq(b, p[1], p[2])) >= MinSplit)
    BY <2>2 DEF PartOf
  <2> QED BY <2>1, <2>2
<1>2. 0 \in M
  <2> DEFINE g == [p \in D |-> <<SubSeq(b, p[1], p[2])>>]
  <2>1. ASSUME NEW p \in D, p[2] - p[1] <= 0 PROVE g[p] = PartOf(g, b, server, p)
    <3>0. p[1] \in 1 .. L /\ p[2] \in 0 .. L
      OBVIOUS
    <3>1. Len(SubSeq(b, p[1], p[2])) = IF p[1] <= p[2] THEN p[2] - p[1] + 1 ELSE 0
      BY <3>0, PartIs
    <3>2. Len(SubSeq(b, p[1], p[2])) \in Nat /\ Len(SubSeq(b, p[1], p[2])) <= 1
      BY <1>0, <2>1, <3>0, <3>1
    <3>3. ~ (Len(SubSeq(b, p[1], p[2])) >= MinSplit)
      BY <3>2
    <3> QED BY <3>3 DEF PartOf
  <2>2. Good(g, 0)
    <3>1. g = [p \in D |-> g[p]]
      OBVIOUS
    <3> HIDE DEF g, D
    <3> QED BY <2>1, <3>1
  <2> HIDE DEF Good
  <2> QED BY <2>2
<1>3. ASSUME NEW d \in 0 .. L - 1, d \in M PROVE d + 1 \in M
  <2>0. d \in Nat /\ d + 1 \in Nat /\ d + 1 - 1 = d
    BY <1>0
  <2>1. PICK g : Good(g, d)
    <3> HIDE DEF Good
    <3> QED BY <1>3
  <2> DEFINE h == [p \in D |-> IF p[2] - p[1] <= d THEN g[p] ELSE PartOf(g, b, server, p)]
  <2>2. \A q \in D : q[2] - q[1] <= d => g[q] = h[q]
    OBVIOUS
  <2>3. ASSUME NEW p \in D, p[2] - p[1] <= d + 1 PROVE h[p] = PartOf(h, b, server, p)
    <3>1. PartOf(g, b, server, p) = PartOf(h, b, server, p)
      <4>1. \A q \in D : q[2] - q[1] <= d + 1 - 1 => g[q] = h[q]
        <5> HIDE DEF h, D
        <5> QED BY <2>0, <2>2
      <4>2. d + 1 \in Int
        BY <2>0
      <4> HIDE DEF h, D
      <4> QED BY <1>1, <2>3, <4>1, <4>2
    <3>2. h[p] = IF p[2] - p[1] <= d THEN g[p] ELSE PartOf(g, b, server, p)
      OBVIOUS
    <3>3. p[2] - p[1] <= d => g[p] = PartOf(g, b, server, p)
      BY <2>1
    <3> HIDE DEF h
    <3> QED BY <3>1, <3>2, <3>3
  <2>4. Good(h, d + 1)
    <3>1. h = [p \in D |-> h[p]]
      OBVIOUS
    <3> HIDE DEF h, D
    <3> QED BY <2>3, <3>1
  <2> HIDE DEF Good
  <2> QED BY <2>0, <2>4
<1>4. L \in M
  <2>1. M \in SUBSET Nat
    OBVIOUS
  <2>2. 0 .. L \subseteq M
    <3> HIDE DEF M, L
    <3> QED BY <1>0, <1>2, <1>3, <2>1, StepInduction
  <2>3. L \in 0 .. L
    BY <1>0
  <2> HIDE DEF M
  <2> QED BY <2>2, <2>3
<1>5. PICK g : Good(g, L)
  <2> HIDE DEF Good
  <2> QED BY <1>4
<1>6. \A p \in D : g[p] = PartOf(g, b, server, p)
  <2>1. \A p \in D : p[2] - p[1] <= L
    BY <1>0
  <2> QED BY <1>5, <2>1
<1>7. g = [p \in D |-> PartOf(g, b, server, p)]
  <2>1. g = [p \in D |-> g[p]]
    BY <1>5
  <2> HIDE DEF D
  <2> QED BY <1>6, <2>1
<1> QED BY <1>7 DEF Parts

-----------------------------------------------------------------------------
CutAt(c, ps, b, server, from, to) ==
  /\ c \in [0 .. Len(ps) -> (from - 1) .. to]
  /\ c[0] = from - 1 /\ c[Len(ps)] = to
  /\ \A i \in 1 .. Len(ps) : /\ c[i - 1] < c[i] /\ ps[i] = SubSeq(b, c[i - 1] + 1, c[i])
                             /\ Refuses(server, ps[i]) => Len(ps[i]) < MinSplit
CutInto(ps, E, b, server, from, to) ==
  ps \in Seq(Seq(E)) /\ \E c : CutAt(c, ps, b, server, from, to)

LEMMA CutsJoin ==
  ASSUME NEW E, NEW b, NEW server, NEW from \in Int, NEW m \in Int, NEW to \in Int,
         from <= m, m <= to + 1, NEW ps, NEW qs,
         CutInto(ps, E, b, server, from, m - 1), CutInto(qs, E, b, server, m, to)
  PROVE  CutInto(ps \o qs, E, b, server, from, to)
<1> DEFINE k == Len(ps)
           n == Len(qs)
           rs == ps \o qs
<1>0. /\ ps \in Seq(Seq(E)) /\ qs \in Seq(Seq(E)) /\ k \in Nat /\ n \in Nat
      /\ rs \in Seq(Seq(E)) /\ Len(rs) = k + n
      /\ \A i \in 1 .. k : rs[i] = ps[i]
      /\ \A i \in (k + 1) .. (k + n) : rs[i] = qs[i - k]
  <2>1. ps \in Seq(Seq(E)) /\ qs \in Seq(Seq(E))
    BY DEF CutInto
  <2>2. k \in Nat /\ n \in Nat
    BY <2>1
  <2>3. /\ rs \in Seq(Seq(E)) /\ Len(rs) = k + n
        /\ \A i \in 1 .. (k + n) : rs[i] = IF i <= k THEN ps[i] ELSE qs[i - k]
    BY <2>1, ConcatProperties
  <2>4. \A i \in 1 .. k : i \in 1 .. (k + n) /\ i <= k
    BY <2>2
  <2>5. \A i \in (k + 1) .. (k + n) : i \in 1 .. (k + n) /\ ~ (i <= k)
    BY <2>2
  <2> HIDE DEF rs, k, n
  <2> QED BY <2>1, <2>2, <2>3, <2>4, <2>5
<1>1. PICK c : CutAt(c, ps, b, server, from, m - 1)
  BY DEF CutInto
<1>2. PICK d : CutAt(d, qs, b, server, m, to)
  BY DEF CutInto
<1> DEFINE e == [i \in 0 .. k + n |-> IF i <= k THEN c[i] ELSE d[i - k]]
<1>3. /\ c \in [0 .. k -> (from - 1) .. (m - 1)] /\ c[0] = from - 1 /\ c[k] = m - 1
      /\ d \in [0 .. n -> (m - 1) .. to] /\ d[0] = m - 1 /\ d[n] = to
  BY <1>1, <1>2 DEF CutAt
<1>4. /\ e \in [0 .. k + n -> (from - 1) .. to]
      /\ \A i \in 0 .. k : e[i] = c[i]
      /\ \A i \in k .. k + n : e[i] = d[i - k]
  <2>1. \A i \in 0 .. k : i \in 0 .. k + n /\ i <= k /\ c[i] \in (from - 1) .. to
    <3>1. \A x \in (from - 1) .. (m - 1) : x \in (from - 1) .. to
      OBVIOUS
    <3> HIDE DEF k, n
    <3>2. \A i \in 0 .. k : c[i] \in (from - 1) .. (m - 1)
      BY <1>3
    <3>3. \A i \in 0 .. k : i \in 0 .. k + n /\ i <= k
      BY <1>0
    <3> QED BY <3>1, <3>2, <3>3
  <2>2. \A i \in k .. k + n : /\ i \in 0 .. k + n /\ i - k \in 0 .. n /\ d[i - k] \in (from - 1) .. to
                              /\ i <= k => i = k /\ i - k = 0
    <3>1. \A x \in (m - 1) .. to : x \in (from - 1) .. to
      OBVIOUS
    <3> HIDE DEF k, n
    <3>2. \A j \in 0 .. n : d[j] \in (m - 1) .. to
      BY <1>3
    <3>3. \A i \in k .. k + n : i \in 0 .. k + n /\ i - k \in 0 .. n /\ (i <= k => i = k /\ i - k = 0)
      BY <1>0
    <3> QED BY <3>1, <3>2, <3>3
  <2>3. \A i \in 0 .. k + n : i \in 0 .. k \/ (i \in k .. k + n /\ ~ (i <= k))
    <3> HIDE DEF k, n
    <3> QED BY <1>0
  <2>4. \A i \in 0 .. k + n : e[i] = IF i <= k THEN c[i] ELSE d[i - k]
    OBVIOUS
  <2>5. \A i \in 0 .. k : e[i] = c[i]
    <3> HIDE DEF e, k, n
    <3> QED BY <2>1, <2>4
  <2>6. \A i \in k .. k + n : e[i] = d[i - k]
    <3> HIDE DEF e, k, n
    <3> QED BY <1>3, <2>2, <2>4
  <2>7. \A i \in 0 .. k + n : e[i] \in (from - 1) .. to
    <3> HIDE DEF e, k, n
    <3> QED BY <2>1, <2>2, <2>3, <2>5, <2>6
  <2>8. e = [i \in 0 .. k + n |-> e[i]]
    OBVIOUS
  <2> HIDE DEF e, k, n
  <2> QED BY <2>5, <2>6, <2>7, <2>8
<1>5. e[0] = from - 1 /\ e[k + n] = to
  <2>1. 0 \in 0 .. k /\ k + n \in k .. k + n /\ (k + n) - k = n
    <3> HIDE DEF k, n
    <3> QED BY <1>0
  <2> HIDE DEF e, k, n
  <2> QED BY <1>3, <1>4, <2>1
<1>6. ASSUME NEW i \in 1 .. k + n
      PROVE  /\ e[i - 1] < e[i] /\ rs[i] = SubSeq(b, e[i - 1] + 1, e[i])
             /\ Refuses(server, rs[i]) => Len(rs[i]) < MinSplit
  <2>1. CASE i <= k
    <3>1. i \in 1 .. k /\ i \in 0 .. k /\ i - 1 \in 0 .. k
      <4> HIDE DEF k, n
      <4> QED BY <1>0, <2>1
    <3>2. rs[i] = ps[i] /\ e[i] = c[i] /\ e[i - 1] = c[i - 1]
      <4> HIDE DEF k, n, e, rs
      <4> QED BY <1>0, <1>4, <3>1
    <3> HIDE DEF e, rs
    <3> QED BY <1>1, <3>1, <3>2 DEF CutAt
  <2>2. CASE ~ (i <= k)
    <3> DEFINE j == i - k
    <3>1. /\ i \in (k + 1) .. (k + n) /\ i \in k .. k + n /\ i - 1 \in k .. k + n
          /\ j \in 1 .. n /\ i - 1 - k = j - 1
      <4> HIDE DEF k, n
      <4> QED BY <1>0, <2>2
    <3>2. rs[i] = qs[j] /\ e[i] = d[j] /\ e[i - 1] = d[j - 1]
      <4>1. e[i - 1] = d[i - 1 - k]
        <5> HIDE DEF k, n, e, rs
        <5> QED BY <1>4, <3>1
      <4> HIDE DEF k, n, e, rs
      <4> QED BY <1>0, <1>4, <3>1, <4>1
    <3> HIDE DEF e, rs, j
    <3> QED BY <1>2, <3>1, <3>2 DEF CutAt
  <2> QED BY <2>1, <2>2
<1>7. CutAt(e, rs, b, server, from, to)
  <2>1. \A i \in 1 .. Len(rs) : /\ e[i - 1] < e[i] /\ rs[i] = SubSeq(b, e[i - 1] + 1, e[i])
                                /\ Refuses(server, rs[i]) => Len(rs[i]) < MinSplit
    <3> HIDE DEF e, rs, k, n
    <3> QED BY <1>0, <1>6
  <2> HIDE DEF e, rs, k, n
  <2> QED BY <1>0, <1>4, <1>5, <2>1 DEF CutAt
<1> HIDE DEF e, rs
<1>8. rs \in Seq(Seq(E))
  BY <1>0
<1>9. CutInto(rs, E, b, server, from, to)
  BY <1>7, <1>8 DEF CutInto
<1> QED BY <1>9 DEF rs

(* A batch that is not split.                                               *)
LEMMA CutOnce ==
  ASSUME NEW E, NEW b, NEW server, NEW from \in Int, NEW to \in Int, from <= to,
         SubSeq(b, from, to) \in Seq(E),
         Refuses(server, SubSeq(b, from, to)) => Len(SubSeq(b, from, to)) < MinSplit
  PROVE  CutInto(<<SubSeq(b, from, to)>>, E, b, server, from, to)
<1> DEFINE s == SubSeq(b, from, to)
           ps == <<s>>
           c == [i \in 0 .. 1 |-> IF i = 0 THEN from - 1 ELSE to]
<1>1. ps \in Seq(Seq(E)) /\ Len(ps) = 1 /\ ps[1] = s
  <2> HIDE DEF s
  <2> QED BY DEF s
<1>2. /\ c \in [0 .. 1 -> (from - 1) .. to] /\ c[0] = from - 1 /\ c[1] = to
  OBVIOUS
<1>3. \A i \in 1 .. 1 : i = 1 /\ i - 1 = 0
  OBVIOUS
<1>4. from - 1 + 1 = from /\ from - 1 < to
  OBVIOUS
<1>5. CutAt(c, ps, b, server, from, to)
  <2> HIDE DEF c, ps
  <2> QED BY <1>1, <1>2, <1>3, <1>4 DEF CutAt
<1> HIDE DEF c, ps
<1>6. CutInto(ps, E, b, server, from, to)
  BY <1>1, <1>5 DEF CutInto
<1> QED BY <1>6 DEF ps

LEMMA PiecesCut ==
  ASSUME NEW E, NEW b \in Seq(E), NEW server, MinSplit \in Nat, MinSplit >= 2, b # <<>>
  PROVE  CutInto(Pieces(b, server), E, b, server, 1, Len(b))
<1> DEFINE L == Len(b)
           D == (1 .. L) \X (0 .. L)
           g == CHOOSE h : Parts(h, b, server)
           Cut(d) == \A p \in D : p[1] <= p[2] /\ p[2] - p[1] <= d
                                    => CutInto(g[p], E, b, server, p[1], p[2])
           M == {d \in Nat : Cut(d)}
<1>0. L \in Nat /\ L >= 1
  OBVIOUS
<1>1. \A p \in D : g[p] = PartOf(g, b, server, p)
  <2>1. Parts(g, b, server)
    BY PartsExist
  <2> HIDE DEF g
  <2> QED BY <2>1 DEF Parts
<1> HIDE DEF g
<1>2. ASSUME NEW p \in D, p[1] <= p[2],
             ~ (Refuses(server, SubSeq(b, p[1], p[2])) /\ Len(SubSeq(b, p[1], p[2])) >= MinSplit)
      PROVE  CutInto(g[p], E, b, server, p[1], p[2])
  <2> DEFINE s == SubSeq(b, p[1], p[2])
  <2>1. s \in Seq(E) /\ p[1] \in Int /\ p[2] \in Int
    <3>1. p[1] \in 1 .. L /\ p[2] \in 0 .. L
      OBVIOUS
    <3> QED BY <1>0, <3>1, PartIs
  <2>2. Len(s) \in Nat
    <3> HIDE DEF s
    <3> QED BY <2>1
  <2>3. Refuses(server, s) => Len(s) < MinSplit
    <3>1. ~ (Refuses(server, s) /\ Len(s) >= MinSplit)
      BY <1>2
    <3> HIDE DEF s
    <3> QED BY <2>2, <3>1
  <2>4. g[p] = <<s>>
    <3>1. g[p] = PartOf(g, b, server, p)
      <4> HIDE DEF D
      <4> QED BY <1>1
    <3> QED BY <1>2, <3>1 DEF PartOf
  <2>5. CutInto(<<s>>, E, b, server, p[1], p[2])
    BY <1>2, <2>1, <2>3, CutOnce
  <2> QED BY <2>4, <2>5
<1>3. 0 \in M
  <2>1. ASSUME NEW p \in D, p[1] <= p[2], p[2] - p[1] <= 0
        PROVE  CutInto(g[p], E, b, server, p[1], p[2])
    <3>0. p[1] \in 1 .. L /\ p[2] \in 0 .. L
      OBVIOUS
    <3>1. Len(SubSeq(b, p[1], p[2])) = IF p[1] <= p[2] THEN p[2] - p[1] + 1 ELSE 0
      BY <3>0, PartIs
    <3>2. Len(SubSeq(b, p[1], p[2])) \in Nat /\ Len(SubSeq(b, p[1], p[2])) <= 1
      BY <1>0, <2>1, <3>0, <3>1
    <3>3. ~ (Len(SubSeq(b, p[1], p[2])) >= MinSplit)
      BY <3>2
    <3> HIDE DEF D
    <3> QED BY <1>2, <2>1, <3>3
  <2> QED BY <2>1
<1>4. ASSUME NEW d \in 0 .. L - 1, d \in M PROVE d + 1 \in M
  <2>0. d \in Nat /\ d + 1 \in Nat
    BY <1>0
  <2>1. ASSUME NEW p \in D, p[1] <= p[2], p[2] - p[1] <= d + 1
        PROVE  CutInto(g[p], E, b, server, p[1], p[2])
    <3>0. p = <<p[1], p[2]>> /\ p[1] \in 1 .. L /\ p[2] \in 0 .. L
      OBVIOUS
    <3>1. CASE Refuses(server, SubSeq(b, p[1], p[2])) /\ Len(SubSeq(b, p[1], p[2])) >= MinSplit
      <4>1. PICK m \in 1 .. L :
              /\ p[1] < m /\ m <= p[2] /\ m - 1 \in 0 .. L
              /\ \A f : PartOf(f, b, server, <<p[1], p[2]>>)
                          = IF Refuses(server, SubSeq(b, p[1], p[2]))
                            THEN f[<<p[1], m - 1>>] \o f[<<m, p[2]>>] ELSE <<SubSeq(b, p[1], p[2])>>
        <5> HIDE DEF D
        <5> QED BY <3>0, <3>1, PartSplits
      <4> DEFINE q == <<p[1], m - 1>>
                 r == <<m, p[2]>>
      <4>2. /\ q \in D /\ r \in D /\ q[2] - q[1] <= d /\ r[2] - r[1] <= d
            /\ q[1] <= q[2] /\ r[1] <= r[2]
            /\ q[1] = p[1] /\ q[2] = m - 1 /\ r[1] = m /\ r[2] = p[2]
        BY <1>0, <2>0, <2>1, <3>0, <4>1
      <4>3. CutInto(g[q], E, b, server, p[1], m - 1) /\ CutInto(g[r], E, b, server, m, p[2])
        <5>1. Cut(d)
          BY <1>4
        <5> HIDE DEF q, r, D
        <5> QED BY <4>2, <5>1
      <4>4. g[p] = g[q] \o g[r]
        <5>1. g[p] = PartOf(g, b, server, p)
          <6> HIDE DEF D
          <6> QED BY <1>1
        <5> QED BY <3>0, <3>1, <4>1, <5>1
      <4>5. CutInto(g[q] \o g[r], E, b, server, p[1], p[2])
        <5>1. p[1] \in Int /\ m \in Int /\ p[2] \in Int /\ p[1] <= m /\ m <= p[2] + 1
          BY <1>0, <3>0, <4>1
        <5> HIDE DEF q, r
        <5> QED BY <4>3, <5>1, CutsJoin
      <4> QED BY <4>4, <4>5
    <3>2. CASE ~ (Refuses(server, SubSeq(b, p[1], p[2])) /\ Len(SubSeq(b, p[1], p[2])) >= MinSplit)
      <4> HIDE DEF D
      <4> QED BY <1>2, <2>1, <3>2
    <3> QED BY <3>1, <3>2
  <2> HIDE DEF D
  <2> QED BY <2>0, <2>1
<1>5. L \in M
  <2>1. M \in SUBSET Nat
    OBVIOUS
  <2>2. 0 .. L \subseteq M
    <3> HIDE DEF M, L
    <3> QED BY <1>0, <1>3, <1>4, <2>1, StepInduction
  <2>3. L \in 0 .. L
    BY <1>0
  <2> HIDE DEF M
  <2> QED BY <2>2, <2>3
<1>6. CutInto(g[<<1, L>>], E, b, server, 1, L)
  <2> DEFINE p == <<1, L>>
  <2>1. p \in D /\ p[1] <= p[2] /\ p[2] - p[1] <= L /\ p[1] = 1 /\ p[2] = L
    BY <1>0
  <2>2. Cut(L)
    BY <1>5
  <2>3. CutInto(g[p], E, b, server, 1, L)
    <3> HIDE DEF D, p
    <3> QED BY <2>1, <2>2
  <2> QED BY <2>3
<1> QED BY <1>6, PiecesIs DEF g

-----------------------------------------------------------------------------
(* The state of the resolution of the addresses V, and what an answer       *)
(* changes.                                                                 *)
Caches(V) == UNION {[C -> {0, 1}] : C \in SUBSET V}
Counted(V) == Seq(V \X Nat)
Resolving(V) ==
  [cache : Caches(V), locations : [V -> Nat], nonEmpty : Nat, batch : Counted(V),
   resent : BOOLEAN, status : {"reading", "raised", "stopped"}]
Servers == [known : SUBSET STRING, broken : SUBSET STRING, limit : Nat]
Knows(server, v) == IF v \in server.known THEN 1 ELSE 0
Found(server, e) == IF e[1] \in server.known THEN e[2] ELSE 0
Distinct(b) == \A i, j \in DOMAIN b : b[i][1] = b[j][1] => i = j

LEMMA CacheIs ==
  ASSUME NEW V, NEW f \in Caches(V)
  PROVE  /\ DOMAIN f \in SUBSET V /\ f = [v \in DOMAIN f |-> f[v]]
         /\ \A v \in DOMAIN f : f[v] \in {0, 1}
<1>1. PICK C \in SUBSET V : f \in [C -> {0, 1}]
  BY DEF Caches
<1> QED BY <1>1

LEMMA IsCache ==
  ASSUME NEW V, NEW C \in SUBSET V, NEW f \in [C -> {0, 1}]
  PROVE  f \in Caches(V)
BY DEF Caches

LEMMA CountedIs ==
  ASSUME NEW V, NEW b \in Counted(V)
  PROVE  /\ Len(b) \in Nat /\ DOMAIN b = 1 .. Len(b)
         /\ \A i \in DOMAIN b : /\ b[i][1] \in V /\ b[i][2] \in Nat
                                /\ b[i] = <<b[i][1], b[i][2]>>
         /\ Values(b) \in SUBSET V
<1> DEFINE E == V \X Nat
<1>1. \A e \in E : e[1] \in V /\ e[2] \in Nat /\ e = <<e[1], e[2]>>
  OBVIOUS
<1>2. b \in Seq(E)
  BY DEF Counted
<1>3. Len(b) \in Nat /\ DOMAIN b = 1 .. Len(b) /\ \A i \in DOMAIN b : b[i] \in E
  <2> HIDE DEF E
  <2> QED BY <1>2
<1>4. \A i \in DOMAIN b : b[i][1] \in V /\ b[i][2] \in Nat /\ b[i] = <<b[i][1], b[i][2]>>
  <2> HIDE DEF E
  <2> QED BY <1>1, <1>3
<1>5. Values(b) \in SUBSET V
  BY <1>4 DEF Values
<1> QED BY <1>3, <1>4, <1>5

LEMMA ResolvingIs ==
  ASSUME NEW V, NEW st \in Resolving(V)
  PROVE  /\ st.cache \in Caches(V) /\ st.locations \in [V -> Nat] /\ st.nonEmpty \in Nat
         /\ st.batch \in Counted(V) /\ st.resent \in BOOLEAN
         /\ st.status \in {"reading", "raised", "stopped"}
         /\ st = [cache |-> st.cache, locations |-> st.locations, nonEmpty |-> st.nonEmpty,
                  batch |-> st.batch, resent |-> st.resent, status |-> st.status]
BY DEF Resolving

LEMMA IsResolving ==
  ASSUME NEW V, NEW cache \in Caches(V), NEW locations \in [V -> Nat], NEW nonEmpty \in Nat,
         NEW batch \in Counted(V), NEW resent \in BOOLEAN,
         NEW status \in {"reading", "raised", "stopped"}
  PROVE  LET st == [cache |-> cache, locations |-> locations, nonEmpty |-> nonEmpty,
                    batch |-> batch, resent |-> resent, status |-> status]
         IN /\ st \in Resolving(V)
            /\ st.cache = cache /\ st.locations = locations /\ st.nonEmpty = nonEmpty
            /\ st.batch = batch /\ st.resent = resent /\ st.status = status
BY DEF Resolving

NewCache(t, piece, server) ==
  [v \in (DOMAIN t.cache) \cup Values(piece) |->
     IF v \notin Values(piece) THEN t.cache[v]
     ELSE IF v \in Values(piece) \cap server.known THEN 1 ELSE 0]
CountIn(piece, v) == CHOOSE i \in DOMAIN piece : piece[i][1] = v
NewLocations(t, piece, server) ==
  [v \in DOMAIN t.locations |->
     IF v \in Values(piece) \cap server.known
     THEN t.locations[v] + piece[CountIn(piece, v)][2] ELSE t.locations[v]]

LEMMA AnswerPieceIs ==
  ASSUME NEW V, NEW t \in Resolving(V), NEW piece, NEW server
  PROVE  AnswerPiece(t, piece, server)
           = IF t.status = "raised" THEN t
             ELSE IF Refuses(server, piece)
             THEN [cache |-> t.cache, locations |-> t.locations, nonEmpty |-> t.nonEmpty,
                   batch |-> t.batch, resent |-> t.resent, status |-> "raised"]
             ELSE [cache |-> NewCache(t, piece, server), locations |-> NewLocations(t, piece, server),
                   nonEmpty |-> t.nonEmpty, batch |-> t.batch, resent |-> t.resent,
                   status |-> t.status]
<1>1. t = [cache |-> t.cache, locations |-> t.locations, nonEmpty |-> t.nonEmpty,
           batch |-> t.batch, resent |-> t.resent, status |-> t.status]
  BY ResolvingIs
<1>2. CASE t.status = "raised"
  BY <1>2 DEF AnswerPiece
<1>3. CASE t.status # "raised" /\ Refuses(server, piece)
  <2>1. AnswerPiece(t, piece, server) = [t EXCEPT !.status = "raised"]
    BY <1>3 DEF AnswerPiece
  <2>2. [t EXCEPT !.status = "raised"]
          = [cache |-> t.cache, locations |-> t.locations, nonEmpty |-> t.nonEmpty,
             batch |-> t.batch, resent |-> t.resent, status |-> "raised"]
    BY <1>1
  <2> QED BY <1>3, <2>1, <2>2
<1>4. CASE t.status # "raised" /\ ~ Refuses(server, piece)
  <2> DEFINE x == NewCache(t, piece, server)
             y == NewLocations(t, piece, server)
  <2>1. AnswerPiece(t, piece, server) = [t EXCEPT !.cache = x, !.locations = y]
    BY <1>4 DEF AnswerPiece, NewCache, NewLocations, CountIn
  <2>2. [t EXCEPT !.cache = x, !.locations = y]
          = [cache |-> x, locations |-> y, nonEmpty |-> t.nonEmpty, batch |-> t.batch,
             resent |-> t.resent, status |-> t.status]
    <3> DEFINE u == [cache |-> x, locations |-> t.locations, nonEmpty |-> t.nonEmpty,
                     batch |-> t.batch, resent |-> t.resent, status |-> t.status]
    <3>1. [t EXCEPT !.cache = x] = u
      <4> HIDE DEF x
      <4> QED BY <1>1
    <3>2. [u EXCEPT !.locations = y]
            = [cache |-> x, locations |-> y, nonEmpty |-> t.nonEmpty, batch |-> t.batch,
               resent |-> t.resent, status |-> t.status]
      <4> HIDE DEF x, y
      <4> QED OBVIOUS
    <3> HIDE DEF x, y, u
    <3> QED BY <3>1, <3>2
  <2> QED BY <1>4, <2>1, <2>2
<1> QED BY <1>2, <1>3, <1>4

LEMMA CountInIs ==
  ASSUME NEW piece, NEW v \in Values(piece)
  PROVE  CountIn(piece, v) \in DOMAIN piece /\ piece[CountIn(piece, v)][1] = v
<1>1. \E i \in DOMAIN piece : piece[i][1] = v
  BY DEF Values
<1> QED BY <1>1 DEF CountIn

LEMMA AnswerTyped ==
  ASSUME NEW V, NEW t \in Resolving(V), NEW piece \in Counted(V), NEW server
  PROVE  AnswerPiece(t, piece, server) \in Resolving(V)
<1> DEFINE cache == NewCache(t, piece, server)
           locations == NewLocations(t, piece, server)
<1>0. /\ t.cache \in Caches(V) /\ t.locations \in [V -> Nat] /\ t.nonEmpty \in Nat
      /\ t.batch \in Counted(V) /\ t.resent \in BOOLEAN
      /\ t.status \in {"reading", "raised", "stopped"}
  BY ResolvingIs
<1>1. cache \in Caches(V)
  <2> DEFINE C == (DOMAIN t.cache) \cup Values(piece)
  <2>1. C \in SUBSET V
    BY <1>0, CacheIs, CountedIs
  <2>2. \A v \in C : v \notin Values(piece) => t.cache[v] \in {0, 1}
    BY <1>0, CacheIs
  <2>3. cache \in [C -> {0, 1}]
    BY <2>2 DEF NewCache
  <2> HIDE DEF C, cache
  <2> QED BY <2>1, <2>3, IsCache
<1>2. locations \in [V -> Nat]
  <2>1. \A v \in Values(piece) : piece[CountIn(piece, v)][2] \in Nat
    BY CountInIs, CountedIs
  <2>2. DOMAIN t.locations = V /\ \A v \in V : t.locations[v] \in Nat
    BY <1>0
  <2>3. \A v \in V : (IF v \in Values(piece) \cap server.known
                      THEN t.locations[v] + piece[CountIn(piece, v)][2] ELSE t.locations[v]) \in Nat
    <3>1. \A x, y \in Nat : x + y \in Nat
      OBVIOUS
    <3> QED BY <2>1, <2>2, <3>1
  <2> QED BY <2>2, <2>3 DEF NewLocations
<1>3. "raised" \in {"reading", "raised", "stopped"}
  OBVIOUS
<1>4. CASE t.status = "raised"
  BY <1>4, AnswerPieceIs
<1>5. CASE t.status # "raised" /\ Refuses(server, piece)
  <2>1. AnswerPiece(t, piece, server)
          = [cache |-> t.cache, locations |-> t.locations, nonEmpty |-> t.nonEmpty,
             batch |-> t.batch, resent |-> t.resent, status |-> "raised"]
    BY <1>5, AnswerPieceIs
  <2>2. AnswerPiece(t, piece, server) \in Resolving(V)
    BY <1>0, <1>3, <2>1 DEF Resolving
  <2> QED BY <2>2
<1>6. CASE t.status # "raised" /\ ~ Refuses(server, piece)
  <2>1. AnswerPiece(t, piece, server)
          = [cache |-> cache, locations |-> locations, nonEmpty |-> t.nonEmpty, batch |-> t.batch,
             resent |-> t.resent, status |-> t.status]
    BY <1>6, AnswerPieceIs
  <2>2. AnswerPiece(t, piece, server) \in Resolving(V)
    <3> HIDE DEF cache, locations
    <3> QED BY <1>0, <1>1, <1>2, <2>1 DEF Resolving
  <2> QED BY <2>2
<1> QED BY <1>4, <1>5, <1>6

(* What is known after the first k values of the batch are answered.        *)
FirstValues(b, k) == {b[i][1] : i \in 1 .. k}
PlacedUpTo(t, st, b, server, k) ==
  /\ DOMAIN t.cache = (DOMAIN st.cache) \cup FirstValues(b, k)
  /\ \A v \in DOMAIN t.cache :
       t.cache[v] = IF v \in FirstValues(b, k) THEN Knows(server, v) ELSE st.cache[v]
  /\ \A i \in 1 .. k : t.locations[b[i][1]] = st.locations[b[i][1]] + Found(server, b[i])
  /\ \A v \in (DOMAIN st.locations) \ FirstValues(b, k) : t.locations[v] = st.locations[v]
Placed(t, st, b, server, k) ==
  /\ t.nonEmpty = st.nonEmpty /\ t.batch = st.batch /\ t.resent = st.resent
  /\ t.status \in {st.status, "raised"}
  /\ t.status # "raised" => PlacedUpTo(t, st, b, server, k)
Excused(t, server) == t.status = "raised" => server.broken # {} \/ server.limit < MinSplit

LEMMA PieceValues ==
  ASSUME NEW V, NEW b \in Counted(V), NEW from \in 1 .. Len(b), NEW to \in 0 .. Len(b), from <= to
  PROVE  LET piece == SubSeq(b, from, to)
         IN /\ piece \in Counted(V) /\ Len(piece) = to - from + 1
            /\ DOMAIN piece = 1 .. to - from + 1
            /\ \A i \in 1 .. to - from + 1 : piece[i] = b[from + i - 1]
            /\ Values(piece) = {b[i][1] : i \in from .. to}
<1> DEFINE piece == SubSeq(b, from, to)
           n == to - from + 1
<1>0. b \in Seq(V \X Nat) /\ Len(b) \in Nat
  BY CountedIs DEF Counted
<1>1. /\ piece \in Seq(V \X Nat) /\ Len(piece) = n
      /\ \A i \in 1 .. Len(piece) : piece[i] = b[from + i - 1]
  BY <1>0, PartIs
<1>2. piece \in Counted(V) /\ DOMAIN piece = 1 .. n
  <2>1. piece \in Counted(V)
    BY <1>1 DEF Counted
  <2> HIDE DEF piece
  <2> QED BY <1>1, <2>1, CountedIs
<1>3. \A i \in 1 .. n : from + i - 1 \in from .. to
  BY <1>0
<1>4. \A j \in from .. to : j - from + 1 \in 1 .. n /\ from + (j - from + 1) - 1 = j
  BY <1>0
<1>5. \A i \in 1 .. n : piece[i] = b[from + i - 1]
  <2> HIDE DEF piece, n
  <2> QED BY <1>1
<1>6. Values(piece) = {b[i][1] : i \in from .. to}
  <2> HIDE DEF piece, n
  <2>1. ASSUME NEW v \in Values(piece) PROVE v \in {b[i][1] : i \in from .. to}
    <3>1. PICK i \in 1 .. n : v = piece[i][1]
      BY <1>2 DEF Values
    <3>2. from + i - 1 \in from .. to /\ v = b[from + i - 1][1]
      BY <1>3, <1>5, <3>1
    <3> QED BY <3>2
  <2>2. ASSUME NEW j \in from .. to PROVE b[j][1] \in Values(piece)
    <3> DEFINE i == j - from + 1
    <3>1. i \in 1 .. n /\ from + i - 1 = j
      BY <1>4
    <3> HIDE DEF i
    <3>2. piece[i] = b[j] /\ i \in DOMAIN piece
      BY <1>2, <1>5, <3>1
    <3> QED BY <3>2 DEF Values
  <2> QED BY <2>1, <2>2
<1> QED BY <1>1, <1>2, <1>5, <1>6

-----------------------------------------------------------------------------
LEMMA RefusedIs ==
  ASSUME NEW V, NEW piece \in Counted(V), NEW server, server.limit \in Nat, MinSplit \in Nat,
         Refuses(server, piece), Len(piece) < MinSplit
  PROVE  server.broken # {} \/ server.limit < MinSplit
<1>1. Len(piece) \in Nat
  BY CountedIs
<1> QED BY <1>1 DEF Refuses

LEMMA PlacedNext ==
  ASSUME NEW V, NEW st \in Resolving(V), NEW b \in Counted(V), Distinct(b), NEW server,
         server.limit \in Nat, MinSplit \in Nat,
         NEW lo \in 0 .. Len(b), NEW hi \in 0 .. Len(b), lo < hi,
         NEW t \in Resolving(V), Placed(t, st, b, server, lo), Excused(t, server),
         Refuses(server, SubSeq(b, lo + 1, hi)) => Len(SubSeq(b, lo + 1, hi)) < MinSplit
  PROVE  /\ Placed(AnswerPiece(t, SubSeq(b, lo + 1, hi), server), st, b, server, hi)
         /\ Excused(AnswerPiece(t, SubSeq(b, lo + 1, hi), server), server)
<1> DEFINE from == lo + 1
           n == hi - lo
           piece == SubSeq(b, from, hi)
           next == AnswerPiece(t, piece, server)
<1>0. /\ Len(b) \in Nat /\ from \in 1 .. Len(b) /\ from <= hi /\ hi - from + 1 = n
      /\ lo \in Nat /\ hi \in Nat
      /\ DOMAIN b = 1 .. Len(b) /\ \A i \in 1 .. hi : i \in DOMAIN b
      /\ \A i \in 1 .. n : from + i - 1 = lo + i
      /\ DOMAIN t.locations = V /\ DOMAIN st.locations = V
  <2>1. Len(b) \in Nat /\ DOMAIN b = 1 .. Len(b)
    BY CountedIs
  <2>2. DOMAIN t.locations = V /\ DOMAIN st.locations = V
    BY ResolvingIs
  <2> QED BY <2>1, <2>2
<1>1. /\ piece \in Counted(V) /\ DOMAIN piece = 1 .. n
      /\ \A i \in 1 .. n : piece[i] = b[lo + i]
      /\ Values(piece) = {b[i][1] : i \in from .. hi}
  <2>1. /\ piece \in Counted(V) /\ DOMAIN piece = 1 .. hi - from + 1
        /\ \A i \in 1 .. hi - from + 1 : piece[i] = b[from + i - 1]
        /\ Values(piece) = {b[i][1] : i \in from .. hi}
    <3> HIDE DEF from, n
    <3> QED BY <1>0, PieceValues
  <2> HIDE DEF from, n, piece
  <2> QED BY <1>0, <2>1
<1> HIDE DEF piece
<1>2. CASE t.status = "raised"
  <2>1. next = t
    BY <1>2, AnswerPieceIs
  <2> HIDE DEF next
  <2>2. Placed(next, st, b, server, hi) /\ Excused(next, server)
    BY <1>2, <2>1 DEF Placed
  <2> QED BY <2>2 DEF next, piece
<1>3. CASE t.status # "raised" /\ Refuses(server, piece)
  <2>1. next = [cache |-> t.cache, locations |-> t.locations, nonEmpty |-> t.nonEmpty,
                batch |-> t.batch, resent |-> t.resent, status |-> "raised"]
    BY <1>3, AnswerPieceIs
  <2>2. /\ next.nonEmpty = t.nonEmpty /\ next.batch = t.batch /\ next.resent = t.resent
        /\ next.status = "raised"
    <3> HIDE DEF next
    <3> QED BY <2>1
  <2>3. server.broken # {} \/ server.limit < MinSplit
    <3>1. Len(piece) < MinSplit
      BY <1>3 DEF piece
    <3> QED BY <1>1, <1>3, <3>1, RefusedIs
  <2> HIDE DEF next
  <2>4. Placed(next, st, b, server, hi) /\ Excused(next, server)
    BY <2>2, <2>3 DEF Placed, Excused
  <2> QED BY <2>4 DEF next, piece
<1>4. CASE t.status # "raised" /\ ~ Refuses(server, piece)
  <2>1. next = [cache |-> NewCache(t, piece, server), locations |-> NewLocations(t, piece, server),
                nonEmpty |-> t.nonEmpty, batch |-> t.batch, resent |-> t.resent,
                status |-> t.status]
    BY <1>4, AnswerPieceIs
  <2>2. /\ next.nonEmpty = t.nonEmpty /\ next.batch = t.batch /\ next.resent = t.resent
        /\ next.status = t.status /\ next.cache = NewCache(t, piece, server)
        /\ next.locations = NewLocations(t, piece, server)
    <3> HIDE DEF next
    <3> QED BY <2>1
  <2> HIDE DEF next
  <2>3. /\ t.nonEmpty = st.nonEmpty /\ t.batch = st.batch /\ t.resent = st.resent
        /\ t.status = st.status
        /\ DOMAIN t.cache = (DOMAIN st.cache) \cup FirstValues(b, lo)
        /\ \A v \in DOMAIN t.cache :
             t.cache[v] = IF v \in FirstValues(b, lo) THEN Knows(server, v) ELSE st.cache[v]
        /\ \A i \in 1 .. lo : t.locations[b[i][1]]
                               = st.locations[b[i][1]] + Found(server, b[i])
        /\ \A v \in (DOMAIN st.locations) \ FirstValues(b, lo) : t.locations[v] = st.locations[v]
    BY <1>4 DEF Placed, PlacedUpTo
  <2>4. FirstValues(b, hi) = FirstValues(b, lo) \cup Values(piece)
    <3>1. 1 .. hi = (1 .. lo) \cup (from .. hi)
      BY <1>0
    <3> HIDE DEF from
    <3> QED BY <1>1, <3>1 DEF FirstValues
  <2>5. \A i \in 1 .. lo : b[i][1] \in FirstValues(b, lo) /\ b[i][1] \notin Values(piece)
    <3>1. \A i \in 1 .. lo : i \in DOMAIN b /\ \A j \in from .. hi : j \in DOMAIN b /\ i # j
      BY <1>0
    <3> HIDE DEF from
    <3> QED BY <1>1, <3>1 DEF FirstValues, Distinct
  <2>6. DOMAIN next.cache = (DOMAIN st.cache) \cup FirstValues(b, hi)
    BY <2>2, <2>3, <2>4 DEF NewCache
  <2>7. ASSUME NEW v \in DOMAIN next.cache
        PROVE  next.cache[v] = IF v \in FirstValues(b, hi) THEN Knows(server, v) ELSE st.cache[v]
    <3>1. next.cache[v] = IF v \notin Values(piece) THEN t.cache[v]
                          ELSE IF v \in Values(piece) \cap server.known THEN 1 ELSE 0
      BY <2>2, <2>7 DEF NewCache
    <3>2. CASE v \in Values(piece)
      BY <2>4, <3>1, <3>2 DEF Knows
    <3>3. CASE v \notin Values(piece)
      <4>1. v \in DOMAIN t.cache
        BY <2>2, <2>7, <3>3 DEF NewCache
      <4> QED BY <2>3, <2>4, <3>1, <3>3, <4>1
    <3> QED BY <3>2, <3>3
  <2>8. \A v \in V : next.locations[v]
                       = IF v \in Values(piece) \cap server.known
                         THEN t.locations[v] + piece[CountIn(piece, v)][2] ELSE t.locations[v]
    BY <1>0, <2>2 DEF NewLocations
  <2>9. ASSUME NEW i \in 1 .. hi
        PROVE  next.locations[b[i][1]] = st.locations[b[i][1]] + Found(server, b[i])
    <3>0. i \in DOMAIN b /\ b[i][1] \in V
      BY <1>0, CountedIs
    <3>1. CASE i <= lo
      <4>1. i \in 1 .. lo
        BY <3>1
      <4> QED BY <2>3, <2>5, <2>8, <3>0, <4>1
    <3>2. CASE ~ (i <= lo)
      <4> DEFINE v == b[i][1]
                 j == CountIn(piece, v)
      <4>1. i \in from .. hi
        BY <1>0, <3>2
      <4>2. v \in Values(piece)
        <5> HIDE DEF from
        <5> QED BY <1>1, <4>1
      <4>3. v \notin FirstValues(b, lo)
        <5>1. \A k \in 1 .. lo : b[k][1] # v
          BY <2>5, <4>2
        <5> QED BY <5>1 DEF FirstValues
      <4>4. t.locations[v] = st.locations[v]
        BY <1>0, <2>3, <3>0, <4>3
      <4>5. j \in 1 .. n /\ piece[j][1] = v
        <5> HIDE DEF v
        <5> QED BY <1>1, <4>2, CountInIs
      <4>6. lo + j \in DOMAIN b /\ piece[j] = b[lo + j]
        <5>1. lo + j \in 1 .. hi
          <6> HIDE DEF j
          <6> QED BY <1>0, <4>5
        <5> HIDE DEF n, j
        <5> QED BY <1>0, <1>1, <4>5, <5>1
      <4>7. piece[j] = b[i]
        <5> HIDE DEF j
        <5> QED BY <3>0, <4>5, <4>6 DEF Distinct
      <4>8. next.locations[v]
              = IF v \in server.known THEN st.locations[v] + b[i][2] ELSE st.locations[v]
        <5> HIDE DEF j
        <5> QED BY <2>8, <3>0, <4>2, <4>4, <4>7 DEF j
      <4>9. st.locations[v] \in Nat
        BY <3>0, ResolvingIs
      <4> HIDE DEF v
      <4>10. st.locations[v] + 0 = st.locations[v]
        BY <4>9
      <4>11. next.locations[v] = st.locations[v] + Found(server, b[i])
        BY <4>8, <4>10 DEF Found, v
      <4> QED BY <4>11 DEF v
    <3> QED BY <3>1, <3>2
  <2>10. ASSUME NEW v \in (DOMAIN st.locations) \ FirstValues(b, hi)
         PROVE  next.locations[v] = st.locations[v]
    BY <1>0, <2>3, <2>4, <2>8
  <2>11. Placed(next, st, b, server, hi)
    BY <2>2, <2>3, <2>6, <2>7, <2>9, <2>10 DEF Placed, PlacedUpTo
  <2>12. Excused(next, server)
    BY <1>4, <2>2 DEF Excused
  <2> QED BY <2>11, <2>12 DEF next, piece
<1> QED BY <1>2, <1>3, <1>4

(* The pieces of a batch are answered one after the other.                  *)
AnswersPieces(it, st, pieces, server) ==
  it = [S \in SUBSET (DOMAIN pieces) |->
          IF S = {} THEN st ELSE AnswerPiece(it[S \ {Max(S)}], pieces[Max(S)], server)]
AnsweredPieces(st, pieces, server) ==
  FoldLeft(LAMBDA s, piece : AnswerPiece(s, piece, server), st, pieces)
LEMMA AnsweredIs ==
  ASSUME NEW st, NEW pieces, NEW server
  PROVE  AnsweredPieces(st, pieces, server)
           = (CHOOSE it : AnswersPieces(it, st, pieces, server))[DOMAIN pieces]
BY DEF AnsweredPieces, FoldLeft, MapThenFoldSet, Max, AnswersPieces

LEMMA PieceAnswers ==
  ASSUME NEW V, NEW st \in Resolving(V), NEW pieces \in Seq(Counted(V)), NEW server
  PROVE  \E r \in [0 .. Len(pieces) -> Resolving(V)] :
           /\ r[0] = st
           /\ \A i \in 1 .. Len(pieces) : r[i] = AnswerPiece(r[i - 1], pieces[i], server)
           /\ AnsweredPieces(st, pieces, server) = r[Len(pieces)]
<1> DEFINE n == Len(pieces)
           S0 == Resolving(V)
           F == [p \in (1 .. n) \X S0 |-> AnswerPiece(p[2], pieces[p[1]], server)]
           it == CHOOSE h : AnswersPieces(h, st, pieces, server)
<1>0. /\ n \in Nat /\ DOMAIN pieces = 1 .. n /\ \A i \in 1 .. n : pieces[i] \in Counted(V)
  OBVIOUS
<1>1. ASSUME NEW i \in 1 .. n, NEW s \in S0
      PROVE  F[<<i, s>>] = AnswerPiece(s, pieces[i], server) /\ AnswerPiece(s, pieces[i], server) \in S0
  <2>1. pieces[i] \in Counted(V)
    BY <1>0
  <2> QED BY <2>1, AnswerTyped
<1>2. F \in [(1 .. n) \X S0 -> S0]
  <2>1. \A p \in (1 .. n) \X S0 : AnswerPiece(p[2], pieces[p[1]], server) \in S0
    <3> HIDE DEF S0, n, F
    <3> QED BY <1>1
  <2> QED BY <2>1
<1>3. AnswersPieces(it, st, pieces, server)
  <2>1. PICK h : Computes(h, n, S0, st, F)
    <3> HIDE DEF n, F
    <3> QED BY <1>0, <1>2, FoldIsDefined
  <2>2. AnswersPieces(h, st, pieces, server)
    <3>1. \A S \in SUBSET (1 .. n) : S # {} => h[S] = AnswerPiece(h[S \ {Max(S)}], pieces[Max(S)], server)
      <4> HIDE DEF F, S0
      <4> QED BY <1>1, <2>1 DEF Computes
    <3>2. h = [S \in SUBSET (1 .. n) |->
                 IF S = {} THEN st ELSE AnswerPiece(h[S \ {Max(S)}], pieces[Max(S)], server)]
      <4> HIDE DEF S0
      <4> QED BY <2>1, <3>1 DEF Computes
    <3> QED BY <1>0, <3>2 DEF AnswersPieces
  <2> QED BY <2>2
<1>4. Follows(it, n, S0, st, F)
  <2> HIDE DEF it
  <2>1. it = [S \in SUBSET (1 .. n) |->
                IF S = {} THEN st ELSE AnswerPiece(it[S \ {Max(S)}], pieces[Max(S)], server)]
    BY <1>0, <1>3 DEF AnswersPieces
  <2>2. /\ it[{}] = st
        /\ \A S \in SUBSET (1 .. n) : S # {} => it[S] = AnswerPiece(it[S \ {Max(S)}], pieces[Max(S)], server)
        /\ it = [S \in SUBSET (1 .. n) |-> it[S]]
    <3> HIDE DEF n
    <3> QED BY <2>1
  <2>3. \A S \in SUBSET (1 .. n) :
          S # {} /\ Max(S) \in 1 .. n /\ it[S \ {Max(S)}] \in S0
            => it[S] = F[<<Max(S), it[S \ {Max(S)}]>>]
    <3> HIDE DEF F, n, S0
    <3> QED BY <1>1, <2>2
  <2> QED BY <2>2, <2>3 DEF Follows
<1>5. PICK r : Leads(r, n, S0, st, F, it[1 .. n])
  <2> HIDE DEF n, F, it
  <2> QED BY <1>0, <1>2, <1>4, FoldLeads
<1>6. ASSUME NEW i \in 1 .. n PROVE r[i] = AnswerPiece(r[i - 1], pieces[i], server)
  <2>1. i - 1 \in 0 .. n
    BY <1>0
  <2>2. r[i - 1] \in S0
    <3> HIDE DEF n, S0
    <3> QED BY <1>5, <2>1 DEF Leads
  <2> HIDE DEF F, S0
  <2> QED BY <1>1, <1>5, <2>2 DEF Leads
<1>7. AnsweredPieces(st, pieces, server) = r[n]
  BY <1>0, <1>5, AnsweredIs DEF Leads
<1> QED BY <1>5, <1>6, <1>7 DEF Leads

-----------------------------------------------------------------------------
Sends(t, st, server) ==
  /\ t.nonEmpty = st.nonEmpty /\ t.resent = st.resent
  /\ t.batch \in {<<>>, st.batch}
  /\ t.status \in {st.status, "raised"}
  /\ Excused(t, server)
  /\ t.status # "raised" => PlacedUpTo(t, st, st.batch, server, Len(st.batch))

LEMMA BatchAnswers ==
  ASSUME NEW V, NEW st \in Resolving(V), st.status # "raised", st.batch # <<>>, Distinct(st.batch),
         NEW server, server.limit \in Nat, MinSplit \in Nat, MinSplit >= 2
  PROVE  \E u \in Resolving(V) :
           /\ u = AnsweredPieces(st, Pieces(st.batch, server), server)
           /\ Placed(u, st, st.batch, server, Len(st.batch)) /\ Excused(u, server)
<1> DEFINE b == st.batch
           L == Len(b)
           ps == Pieces(b, server)
           n == Len(ps)
<1>0. b \in Counted(V) /\ b \in Seq(V \X Nat) /\ L \in Nat
  <2>1. b \in Counted(V)
    BY ResolvingIs
  <2> QED BY <2>1, CountedIs DEF Counted
<1>1. CutInto(ps, V \X Nat, b, server, 1, L)
  BY <1>0, PiecesCut
<1> HIDE DEF ps
<1>2. ps \in Seq(Counted(V)) /\ n \in Nat
  BY <1>1 DEF CutInto, Counted
<1>3. PICK c : CutAt(c, ps, b, server, 1, L)
  BY <1>1 DEF CutInto
<1>4. /\ c \in [0 .. n -> 0 .. L] /\ c[0] = 0 /\ c[n] = L
      /\ \A i \in 1 .. n : /\ c[i - 1] < c[i] /\ ps[i] = SubSeq(b, c[i - 1] + 1, c[i])
                           /\ Refuses(server, ps[i]) => Len(ps[i]) < MinSplit
  <2>1. 1 - 1 = 0
    OBVIOUS
  <2> QED BY <1>3, <2>1 DEF CutAt
<1>5. PICK r \in [0 .. n -> Resolving(V)] :
        /\ r[0] = st
        /\ \A i \in 1 .. n : r[i] = AnswerPiece(r[i - 1], ps[i], server)
        /\ AnsweredPieces(st, ps, server) = r[n]
  <2> HIDE DEF b
  <2> QED BY <1>2, PieceAnswers
<1> DEFINE Good(i) == Placed(r[i], st, b, server, c[i]) /\ Excused(r[i], server)
           M == {i \in Nat : i <= n => Good(i)}
<1>6. Good(0)
  <2>1. FirstValues(b, 0) = {} /\ 1 .. 0 = {}
    BY DEF FirstValues
  <2>2. PlacedUpTo(st, st, b, server, 0)
    <3> HIDE DEF b
    <3> QED BY <2>1 DEF PlacedUpTo
  <2> HIDE DEF b
  <2> QED BY <1>4, <1>5, <2>2 DEF Placed, Excused, b
<1>7. ASSUME NEW i \in 0 .. n - 1, Good(i) PROVE Good(i + 1)
  <2> DEFINE k == i + 1
             lo == c[i]
             hi == c[k]
  <2>1. k \in 1 .. n /\ k \in 0 .. n /\ i \in 0 .. n /\ k - 1 = i
    <3> HIDE DEF n
    <3> QED BY <1>2
  <2>2. lo \in 0 .. L /\ hi \in 0 .. L
    <3> HIDE DEF n, L, k
    <3> QED BY <1>4, <2>1
  <2>3. /\ lo < hi /\ ps[k] = SubSeq(b, lo + 1, hi)
        /\ Refuses(server, ps[k]) => Len(ps[k]) < MinSplit
    <3> HIDE DEF n, L, k, b
    <3> QED BY <1>4, <2>1
  <2>4. r[i] \in Resolving(V) /\ r[k] = AnswerPiece(r[i], ps[k], server)
    <3> HIDE DEF n, k
    <3> QED BY <1>5, <2>1
  <2>5. Placed(r[i], st, b, server, lo) /\ Excused(r[i], server)
    BY <1>7
  <2>6. Placed(r[k], st, b, server, hi) /\ Excused(r[k], server)
    <3> HIDE DEF b, k, lo, hi
    <3> QED BY <1>0, <2>2, <2>3, <2>4, <2>5, PlacedNext DEF b
  <2> QED BY <2>6
<1>8. Good(n)
  <2>1. M \in SUBSET Nat /\ 0 \in M
    BY <1>6
  <2>2. \A i \in 0 .. n - 1 : i \in M => i + 1 \in M
    <3> SUFFICES ASSUME NEW i \in 0 .. n - 1, i \in M PROVE i + 1 \in M
      OBVIOUS
    <3>1. i \in Nat /\ i <= n /\ i + 1 \in Nat
      BY <1>2
    <3>2. Good(i)
      <4> HIDE DEF Good
      <4> QED BY <3>1
    <3>3. Good(i + 1)
      <4> HIDE DEF Good
      <4> QED BY <1>7, <3>2
    <3> HIDE DEF Good
    <3> QED BY <3>1, <3>3
  <2>3. 0 .. n \subseteq M
    <3> HIDE DEF M, n
    <3> QED BY <1>2, <2>1, <2>2, StepInduction
  <2>4. n \in 0 .. n /\ n <= n
    BY <1>2
  <2>5. n \in M
    <3> HIDE DEF M
    <3> QED BY <2>3, <2>4
  <2> HIDE DEF Good
  <2> QED BY <2>4, <2>5
<1>9. r[n] \in Resolving(V) /\ Placed(r[n], st, b, server, L) /\ Excused(r[n], server)
  <2>1. n \in 0 .. n
    BY <1>2
  <2> QED BY <1>4, <1>5, <1>8, <2>1
<1> QED BY <1>5, <1>9 DEF ps

LEMMA BatchIs ==
  ASSUME NEW V, NEW st \in Resolving(V), st.status # "raised", st.batch # <<>>, Distinct(st.batch),
         NEW server, server.limit \in Nat, MinSplit \in Nat, MinSplit >= 2
  PROVE  Batch(st, server) \in Resolving(V) /\ Sends(Batch(st, server), st, server)
<1> DEFINE ps == Pieces(st.batch, server)
           t == Batch(st, server)
<1>1. PICK u \in Resolving(V) : /\ u = AnsweredPieces(st, ps, server)
                                /\ Placed(u, st, st.batch, server, Len(st.batch)) /\ Excused(u, server)
  BY BatchAnswers
<1> DEFINE batch == IF Len(ps) = 1 THEN <<>> ELSE u.batch
<1>2. t = [u EXCEPT !.batch = batch]
  BY <1>1 DEF Batch, AnsweredPieces
<1> HIDE DEF t
<1>3. /\ u.cache \in Caches(V) /\ u.locations \in [V -> Nat] /\ u.nonEmpty \in Nat
      /\ u.batch \in Counted(V) /\ u.resent \in BOOLEAN
      /\ u.status \in {"reading", "raised", "stopped"}
  BY ResolvingIs
<1>4. batch \in Counted(V) /\ batch \in {<<>>, st.batch}
  <2>1. <<>> \in Counted(V)
    BY DEF Counted
  <2>2. u.batch = st.batch
    BY <1>1 DEF Placed
  <2> QED BY <1>3, <2>1, <2>2
<1> HIDE DEF batch
<1>5. t = [cache |-> u.cache, locations |-> u.locations, nonEmpty |-> u.nonEmpty,
           batch |-> batch, resent |-> u.resent, status |-> u.status]
  BY <1>2 DEF Resolving
<1>6. /\ t.cache = u.cache /\ t.locations = u.locations /\ t.nonEmpty = u.nonEmpty
      /\ t.batch = batch /\ t.resent = u.resent /\ t.status = u.status
  BY <1>5
<1>7. t \in Resolving(V)
  BY <1>3, <1>4, <1>5 DEF Resolving
<1>8. Sends(t, st, server)
  BY <1>1, <1>4, <1>6 DEF Sends, Placed, PlacedUpTo, Excused
<1> QED BY <1>7, <1>8 DEF t

-----------------------------------------------------------------------------
(* m is how often each value was read.  What the loop knows of them: those  *)
(* in the cache have all their locations, those in the batch their count.   *)
Skipped == {Empty, TooLong}
Due(server, v, n) == IF v \in server.known /\ v \notin Skipped THEN n ELSE 0
Tallied(st, m, server) ==
  /\ Distinct(st.batch)
  /\ \A j \in DOMAIN st.batch :
       /\ st.batch[j][1] \notin Skipped
       /\ st.batch[j][2] <= m[st.batch[j][1]]
       /\ st.batch[j][1] \notin DOMAIN st.cache => st.batch[j][2] = m[st.batch[j][1]]
  /\ \A v \in DOMAIN st.cache : /\ v \notin Skipped /\ st.cache[v] = Knows(server, v)
                                /\ st.locations[v] = Due(server, v, m[v])
  /\ \A v \in (DOMAIN m) \ DOMAIN st.cache :
       st.locations[v] = 0 /\ (v \in Values(st.batch) \/ v \in Skipped \/ m[v] = 0)
  /\ ~ st.resent => Values(st.batch) \cap DOMAIN st.cache = {}
  /\ st.resent => Len(st.batch) >= BatchSize
AtMostDue(st, m, server) == \A v \in DOMAIN m : st.locations[v] <= Due(server, v, m[v])
Going(st, m, server) ==
  /\ Excused(st, server)
  /\ st.status # "raised" => AtMostDue(st, m, server)
  /\ st.status = "reading" => Tallied(st, m, server)

LEMMA DueIs ==
  ASSUME NEW server, NEW v, NEW n \in Nat
  PROVE  /\ Due(server, v, n) \in Nat /\ 0 <= Due(server, v, n)
         /\ Due(server, v, n) <= Due(server, v, n + 1)
         /\ v \notin Skipped => Due(server, v, n + 1) = Due(server, v, n) + Knows(server, v)
         /\ v \notin Skipped /\ n = 0 => Due(server, v, n) = 0
BY DEF Due, Knows

LEMMA TalliedWithin ==
  ASSUME NEW V, NEW st, NEW m \in [V -> Nat], NEW server, Tallied(st, m, server)
  PROVE  AtMostDue(st, m, server)
<1> SUFFICES ASSUME NEW v \in V PROVE st.locations[v] <= Due(server, v, m[v])
  BY DEF AtMostDue
<1>1. m[v] \in Nat /\ v \in DOMAIN m
  OBVIOUS
<1>2. Due(server, v, m[v]) \in Nat
  BY <1>1, DueIs
<1>3. v \in DOMAIN st.cache => st.locations[v] = Due(server, v, m[v])
  BY DEF Tallied
<1>4. v \notin DOMAIN st.cache => st.locations[v] = 0
  BY <1>1 DEF Tallied
<1> QED BY <1>2, <1>3, <1>4

(* One value more was read.                                                 *)
OneMore(m2, m, V, w) ==
  /\ m \in [V -> Nat] /\ m2 \in [V -> Nat] /\ w \in V
  /\ m2[w] = m[w] + 1 /\ \A v \in V \ {w} : m2[v] = m[v]

LEMMA WithinMore ==
  ASSUME NEW V, NEW m, NEW m2, NEW w, OneMore(m2, m, V, w), NEW st \in Resolving(V), NEW server,
         AtMostDue(st, m, server)
  PROVE  AtMostDue(st, m2, server)
<1> SUFFICES ASSUME NEW v \in V PROVE st.locations[v] <= Due(server, v, m2[v])
  BY DEF AtMostDue, OneMore
<1>1. m[v] \in Nat /\ m2[v] \in Nat /\ (m2[v] = m[v] \/ m2[v] = m[v] + 1) /\ v \in DOMAIN m
  BY DEF OneMore
<1>2. st.locations[v] \in Nat /\ st.locations[v] <= Due(server, v, m[v])
  BY <1>1, ResolvingIs DEF AtMostDue
<1>3. /\ Due(server, v, m[v]) \in Nat /\ Due(server, v, m[v] + 1) \in Nat
      /\ Due(server, v, m[v]) <= Due(server, v, m[v] + 1)
  BY <1>1, DueIs
<1> QED BY <1>1, <1>2, <1>3

(* A value that is skipped.                                                 *)
LEMMA ReadSkips ==
  ASSUME NEW V, NEW m, NEW m2, NEW w, OneMore(m2, m, V, w), w \in Skipped,
         NEW st \in Resolving(V), NEW t, NEW server, Tallied(st, m, server),
         t.cache = st.cache, t.locations = st.locations, t.batch = st.batch, t.resent = st.resent
  PROVE  Tallied(t, m2, server)
<1>1. \A v \in V : v \notin Skipped => m2[v] = m[v]
  BY DEF OneMore
<1>2. \A j \in DOMAIN st.batch : st.batch[j][1] \in V
  BY ResolvingIs, CountedIs
<1>3. \A v \in DOMAIN st.cache : v \in V
  BY ResolvingIs, CacheIs
<1>4. DOMAIN m = V /\ DOMAIN m2 = V
  BY DEF OneMore
<1> QED BY <1>1, <1>2, <1>3, <1>4 DEF Tallied

(* A value whose locations are known.                                       *)
LEMMA ReadKnown ==
  ASSUME NEW V, NEW m, NEW m2, NEW w, OneMore(m2, m, V, w),
         NEW st \in Resolving(V), NEW t, NEW server, Tallied(st, m, server), w \in DOMAIN st.cache,
         t.cache = st.cache, t.locations = [st.locations EXCEPT ![w] = @ + st.cache[w]],
         t.batch = st.batch, t.resent = st.resent
  PROVE  Tallied(t, m2, server)
<1>0. /\ DOMAIN m = V /\ DOMAIN m2 = V /\ w \in V /\ w \notin Skipped
      /\ m2[w] = m[w] + 1 /\ \A v \in V \ {w} : m2[v] = m[v]
      /\ \A v \in V : m[v] \in Nat /\ m2[v] \in Nat
      /\ DOMAIN st.locations = V /\ \A v \in V : st.locations[v] \in Nat
  <2>1. w \notin Skipped
    BY DEF Tallied
  <2>2. DOMAIN st.locations = V /\ \A v \in V : st.locations[v] \in Nat
    BY ResolvingIs
  <2> QED BY <2>1, <2>2 DEF OneMore
<1>1. \A j \in DOMAIN st.batch : st.batch[j][1] \in V /\ st.batch[j][2] \in Nat
  BY ResolvingIs, CountedIs
<1>2. \A v \in DOMAIN st.cache : v \in V
  BY ResolvingIs, CacheIs
<1>3. /\ t.locations[w] = st.locations[w] + st.cache[w]
      /\ \A v \in V \ {w} : t.locations[v] = st.locations[v]
  BY <1>0
<1>4. ASSUME NEW j \in DOMAIN st.batch
      PROVE  /\ st.batch[j][1] \notin Skipped
             /\ st.batch[j][2] <= m2[st.batch[j][1]]
             /\ st.batch[j][1] \notin DOMAIN st.cache => st.batch[j][2] = m2[st.batch[j][1]]
  <2> DEFINE v == st.batch[j][1]
             k == st.batch[j][2]
  <2>1. v \in V /\ k \in Nat /\ v \notin Skipped /\ k <= m[v] /\ (v \notin DOMAIN st.cache => k = m[v])
    BY <1>1 DEF Tallied
  <2>2. m[v] \in Nat /\ m2[v] \in Nat /\ (v # w => m2[v] = m[v]) /\ (v = w => m2[v] = m[v] + 1)
    <3> HIDE DEF v
    <3> QED BY <1>0, <2>1
  <2> HIDE DEF v, k
  <2>3. v \notin Skipped /\ k <= m2[v] /\ (v \notin DOMAIN st.cache => k = m2[v])
    BY <2>1, <2>2
  <2> QED BY <2>3 DEF v, k
<1>5. ASSUME NEW v \in DOMAIN st.cache
      PROVE  v \notin Skipped /\ st.cache[v] = Knows(server, v) /\ t.locations[v] = Due(server, v, m2[v])
  <2>1. /\ v \in V /\ v \notin Skipped /\ st.cache[v] = Knows(server, v)
        /\ st.locations[v] = Due(server, v, m[v])
    BY <1>2 DEF Tallied
  <2>2. CASE v = w
    <3>1. Due(server, w, m[w] + 1) = Due(server, w, m[w]) + Knows(server, w)
      BY <1>0, DueIs
    <3> QED BY <1>0, <1>3, <2>1, <2>2, <3>1
  <2>3. CASE v # w
    BY <1>0, <1>3, <2>1, <2>3
  <2> QED BY <2>1, <2>2, <2>3
<1>6. ASSUME NEW v \in (DOMAIN m2) \ DOMAIN st.cache
      PROVE  t.locations[v] = 0 /\ (v \in Values(st.batch) \/ v \in Skipped \/ m2[v] = 0)
  <2>1. v # w /\ v \in (DOMAIN m) \ DOMAIN st.cache /\ v \in V
    BY <1>0
  <2>2. st.locations[v] = 0 /\ (v \in Values(st.batch) \/ v \in Skipped \/ m[v] = 0)
    BY <2>1 DEF Tallied
  <2> QED BY <1>0, <1>3, <2>1, <2>2
<1>7. /\ Distinct(st.batch)
      /\ ~ st.resent => Values(st.batch) \cap DOMAIN st.cache = {}
      /\ st.resent => Len(st.batch) >= BatchSize
  BY DEF Tallied
<1>8. t.cache = st.cache /\ t.batch = st.batch /\ t.resent = st.resent
  OBVIOUS
<1> QED BY <1>4, <1>5, <1>6, <1>7, <1>8 DEF Tallied

(* A value that is in the batch.                                            *)
CountOneMore(b, w) == [i \in DOMAIN b |-> IF b[i][1] = w THEN <<w, b[i][2] + 1>> ELSE b[i]]
LEMMA CountedMore ==
  ASSUME NEW V, NEW b \in Counted(V), NEW w \in V
  PROVE  /\ CountOneMore(b, w) \in Counted(V)
         /\ DOMAIN CountOneMore(b, w) = DOMAIN b /\ Len(CountOneMore(b, w)) = Len(b)
         /\ Values(CountOneMore(b, w)) = Values(b)
         /\ \A i \in DOMAIN b :
              /\ CountOneMore(b, w)[i][1] = b[i][1]
              /\ CountOneMore(b, w)[i][2] = IF b[i][1] = w THEN b[i][2] + 1 ELSE b[i][2]
<1> DEFINE c == CountOneMore(b, w)
<1>0. /\ Len(b) \in Nat /\ DOMAIN b = 1 .. Len(b)
      /\ \A i \in DOMAIN b : b[i][1] \in V /\ b[i][2] \in Nat /\ b[i] = <<b[i][1], b[i][2]>>
  BY CountedIs
<1>1. DOMAIN c = DOMAIN b /\ \A i \in DOMAIN b : c[i] = IF b[i][1] = w THEN <<w, b[i][2] + 1>> ELSE b[i]
  BY DEF CountOneMore
<1>2. \A i \in DOMAIN b : /\ c[i][1] = b[i][1]
                          /\ c[i][2] = IF b[i][1] = w THEN b[i][2] + 1 ELSE b[i][2]
  <2> HIDE DEF c
  <2> QED BY <1>1
<1>3. \A i \in DOMAIN b : c[i] \in V \X Nat
  <2> HIDE DEF c
  <2>1. \A i \in DOMAIN b : b[i] \in V \X Nat
    <3> DEFINE E == V \X Nat
    <3>1. b \in Seq(E)
      BY DEF Counted
    <3>2. \A i \in DOMAIN b : b[i] \in E
      <4> HIDE DEF E
      <4> QED BY <3>1
    <3> QED BY <3>2
  <2>2. \A i \in DOMAIN b : <<w, b[i][2] + 1>> \in V \X Nat
    <3>1. \A x \in Nat : <<w, x + 1>> \in V \X Nat
      OBVIOUS
    <3>2. \A i \in DOMAIN b : b[i][2] \in Nat
      BY <1>0
    <3> QED BY <3>1, <3>2
  <2> QED BY <1>1, <2>1, <2>2
<1>4. c \in [1 .. Len(b) -> V \X Nat]
  <2>1. c = [i \in DOMAIN b |-> c[i]]
    BY DEF CountOneMore
  <2> HIDE DEF c
  <2> QED BY <1>0, <1>3, <2>1
<1>5. c \in Counted(V) /\ Len(c) = Len(b)
  <2> DEFINE E == V \X Nat
  <2>1. c \in Seq(E) /\ Len(c) = Len(b)
    <3>1. c \in [1 .. Len(b) -> E]
      BY <1>4
    <3> HIDE DEF c, E
    <3> QED BY <1>0, <3>1
  <2> QED BY <2>1 DEF Counted
<1>6. Values(c) = Values(b)
  <2> HIDE DEF c
  <2> QED BY <1>1, <1>2 DEF Values
<1> QED BY <1>1, <1>2, <1>5, <1>6

LEMMA ReadBatched ==
  ASSUME NEW V, NEW m, NEW m2, NEW w, OneMore(m2, m, V, w),
         NEW st \in Resolving(V), NEW t, NEW server, Tallied(st, m, server),
         w \notin DOMAIN st.cache, w \in Values(st.batch),
         t.cache = st.cache, t.locations = st.locations,
         t.batch = CountOneMore(st.batch, w), t.resent = st.resent
  PROVE  Tallied(t, m2, server)
<1> DEFINE b == st.batch
           c == CountOneMore(b, w)
<1>0. /\ DOMAIN m = V /\ DOMAIN m2 = V /\ w \in V
      /\ m2[w] = m[w] + 1 /\ \A v \in V \ {w} : m2[v] = m[v]
      /\ \A v \in V : m[v] \in Nat /\ m2[v] \in Nat
  BY DEF OneMore
<1>1. b \in Counted(V) /\ \A j \in DOMAIN b : b[j][1] \in V /\ b[j][2] \in Nat
  BY ResolvingIs, CountedIs
<1>2. \A v \in DOMAIN st.cache : v \in V
  BY ResolvingIs, CacheIs
<1>3. /\ DOMAIN c = DOMAIN b /\ Len(c) = Len(b) /\ Values(c) = Values(b)
      /\ \A j \in DOMAIN b : c[j][1] = b[j][1] /\ c[j][2] = IF b[j][1] = w THEN b[j][2] + 1 ELSE b[j][2]
  BY <1>0, <1>1, CountedMore
<1> HIDE DEF c
<1>4. ASSUME NEW j \in DOMAIN c
      PROVE  /\ c[j][1] \notin Skipped
             /\ c[j][2] <= m2[c[j][1]]
             /\ c[j][1] \notin DOMAIN st.cache => c[j][2] = m2[c[j][1]]
  <2> DEFINE v == b[j][1]
             k == b[j][2]
  <2>1. v \in V /\ k \in Nat /\ v \notin Skipped /\ k <= m[v] /\ (v \notin DOMAIN st.cache => k = m[v])
    BY <1>1, <1>3 DEF Tallied
  <2>2. m[v] \in Nat /\ m2[v] \in Nat /\ (v # w => m2[v] = m[v]) /\ (v = w => m2[v] = m[v] + 1)
    <3> HIDE DEF v
    <3> QED BY <1>0, <2>1
  <2>3. c[j][1] = v /\ c[j][2] = IF v = w THEN k + 1 ELSE k
    BY <1>3
  <2> HIDE DEF v, k
  <2> QED BY <2>1, <2>2, <2>3
<1>5. \A v \in DOMAIN st.cache : /\ v \notin Skipped /\ st.cache[v] = Knows(server, v)
                                 /\ st.locations[v] = Due(server, v, m2[v])
  BY <1>0, <1>2 DEF Tallied
<1>6. \A v \in (DOMAIN m2) \ DOMAIN st.cache :
        st.locations[v] = 0 /\ (v \in Values(c) \/ v \in Skipped \/ m2[v] = 0)
  BY <1>0, <1>3 DEF Tallied
<1>7. /\ Distinct(c)
      /\ ~ st.resent => Values(c) \cap DOMAIN st.cache = {}
      /\ st.resent => Len(c) >= BatchSize
  BY <1>3 DEF Tallied, Distinct
<1>8. t.cache = st.cache /\ t.locations = st.locations /\ t.batch = c /\ t.resent = st.resent
  BY DEF c
<1> QED BY <1>4, <1>5, <1>6, <1>7, <1>8 DEF Tallied

-----------------------------------------------------------------------------
(* A value that is new.                                                     *)
Grown(c, b, w) ==
  /\ Len(c) = Len(b) + 1 /\ DOMAIN c = (DOMAIN b) \cup {Len(b) + 1}
  /\ Len(b) + 1 \notin DOMAIN b
  /\ \A i \in DOMAIN b : c[i] = b[i]
  /\ c[Len(b) + 1] = <<w, 1>>
  /\ Values(c) = Values(b) \cup {w}
LEMMA BatchGrows ==
  ASSUME NEW V, NEW b \in Counted(V), NEW w \in V
  PROVE  Append(b, <<w, 1>>) \in Counted(V) /\ Grown(Append(b, <<w, 1>>), b, w)
<1> DEFINE E == V \X Nat
           e == <<w, 1>>
           c == Append(b, e)
           n == Len(b)
<1>0. e \in E /\ b \in Seq(E)
  BY DEF Counted
<1>1. /\ c \in Seq(E) /\ n \in Nat /\ Len(c) = n + 1 /\ DOMAIN c = 1 .. n + 1 /\ DOMAIN b = 1 .. n
      /\ \A i \in 1 .. n : c[i] = b[i]
      /\ c[n + 1] = e
  <2> HIDE DEF E, e
  <2> QED BY <1>0
<1>2. DOMAIN c = (DOMAIN b) \cup {n + 1} /\ n + 1 \notin DOMAIN b
  <2> HIDE DEF c, n
  <2>1. 1 .. n + 1 = (1 .. n) \cup {n + 1} /\ n + 1 \notin 1 .. n
    BY <1>1
  <2> QED BY <1>1, <2>1
<1>3. Values(c) = Values(b) \cup {w}
  <2>1. e[1] = w
    OBVIOUS
  <2> HIDE DEF c, n, e
  <2>2. \A i \in DOMAIN b : c[i][1] = b[i][1]
    BY <1>1
  <2>3. c[n + 1][1] = w
    BY <1>1, <2>1
  <2>4. Values(c) \subseteq Values(b) \cup {w}
    BY <1>2, <2>2, <2>3 DEF Values
  <2>5. w \in Values(c)
    BY <1>2, <2>3 DEF Values
  <2>6. Values(b) \subseteq Values(c)
    BY <1>2, <2>2 DEF Values
  <2> QED BY <2>4, <2>5, <2>6
<1>4. c \in Counted(V) /\ Len(c) = n + 1 /\ \A i \in DOMAIN b : c[i] = b[i]
  <2> HIDE DEF c, n
  <2> QED BY <1>1 DEF Counted
<1> HIDE DEF n, c
<1>5. Grown(c, b, w)
  BY <1>1, <1>2, <1>3, <1>4 DEF Grown, n
<1> QED BY <1>4, <1>5 DEF c

LEMMA ReadNew ==
  ASSUME NEW V, NEW m, NEW m2, NEW w, OneMore(m2, m, V, w), w \notin Skipped,
         NEW st \in Resolving(V), NEW t, NEW server, Tallied(st, m, server),
         BatchSize \in Nat,
         w \notin DOMAIN st.cache, w \notin Values(st.batch),
         t.cache = st.cache, t.locations = st.locations,
         t.batch = Append(st.batch, <<w, 1>>), t.resent = st.resent
  PROVE  /\ Tallied(t, m2, server)
         /\ t.resent => Len(t.batch) # BatchSize
<1> DEFINE b == st.batch
           n == Len(b)
           c == Append(b, <<w, 1>>)
<1>0. /\ DOMAIN m = V /\ DOMAIN m2 = V /\ w \in V
      /\ m2[w] = m[w] + 1 /\ \A v \in V \ {w} : m2[v] = m[v]
      /\ \A v \in V : m[v] \in Nat /\ m2[v] \in Nat
  BY DEF OneMore
<1>1. b \in Counted(V) /\ n \in Nat /\ \A j \in DOMAIN b : b[j][1] \in V /\ b[j][2] \in Nat
  BY ResolvingIs, CountedIs
<1>2. \A v \in DOMAIN st.cache : v \in V
  BY ResolvingIs, CacheIs
<1>3. /\ Len(c) = n + 1 /\ DOMAIN c = (DOMAIN b) \cup {n + 1} /\ n + 1 \notin DOMAIN b
      /\ \A i \in DOMAIN b : c[i] = b[i]
      /\ c[n + 1] = <<w, 1>> /\ Values(c) = Values(b) \cup {w}
  <2>1. b \in Counted(V) /\ w \in V
    BY <1>0, <1>1
  <2>2. Grown(c, b, w)
    <3> HIDE DEF b
    <3> QED BY <2>1, BatchGrows
  <2> HIDE DEF b, c
  <2> QED BY <2>2 DEF Grown
<1>4. c[n + 1][1] = w /\ c[n + 1][2] = 1
  <2> HIDE DEF c, n
  <2> QED BY <1>3
<1>5. t.cache = st.cache /\ t.locations = st.locations /\ t.batch = c /\ t.resent = st.resent
  OBVIOUS
<1> HIDE DEF c, n
<1>6. m[w] = 0 /\ m2[w] = 1
  <2>1. m[w] = 0
    BY <1>0 DEF Tallied
  <2> QED BY <1>0, <2>1
<1>7. ASSUME NEW j \in DOMAIN c
      PROVE  /\ c[j][1] \notin Skipped
             /\ c[j][2] <= m2[c[j][1]]
             /\ c[j][1] \notin DOMAIN st.cache => c[j][2] = m2[c[j][1]]
  <2>1. CASE j = n + 1
    BY <1>4, <1>6, <2>1
  <2>2. CASE j # n + 1
    <3>1. j \in DOMAIN b /\ c[j] = b[j]
      BY <1>3, <2>2
    <3>2. b[j][1] # w /\ b[j][1] \in V
      BY <1>1, <3>1 DEF Values
    <3>3. m2[b[j][1]] = m[b[j][1]]
      BY <1>0, <3>2
    <3> QED BY <3>1, <3>3 DEF Tallied
  <2> QED BY <2>1, <2>2
<1>8. \A v \in DOMAIN st.cache : /\ v \notin Skipped /\ st.cache[v] = Knows(server, v)
                                 /\ st.locations[v] = Due(server, v, m2[v])
  BY <1>0, <1>2 DEF Tallied
<1>9. \A v \in (DOMAIN m2) \ DOMAIN st.cache :
        st.locations[v] = 0 /\ (v \in Values(c) \/ v \in Skipped \/ m2[v] = 0)
  BY <1>0, <1>3 DEF Tallied
<1>10. Distinct(c)
  <2> SUFFICES ASSUME NEW i \in DOMAIN c, NEW j \in DOMAIN c, c[i][1] = c[j][1] PROVE i = j
    BY DEF Distinct
  <2>1. \A k \in DOMAIN b : c[k] = b[k] /\ b[k][1] # w
    BY <1>3 DEF Values
  <2> QED BY <1>3, <1>4, <2>1 DEF Tallied, Distinct
<1>11. ~ st.resent => Values(c) \cap DOMAIN st.cache = {}
  BY <1>3 DEF Tallied
<1>12. st.resent => Len(c) >= BatchSize /\ Len(c) # BatchSize
  <2>1. st.resent => n >= BatchSize
    BY DEF Tallied, n
  <2> QED BY <1>1, <1>3, <2>1
<1> QED BY <1>5, <1>7, <1>8, <1>9, <1>10, <1>11, <1>12 DEF Tallied

(* The batch is sent: what it counts has its locations.                     *)
LEMMA SentTallied ==
  ASSUME NEW V, NEW m \in [V -> Nat], NEW st \in Resolving(V), NEW t, NEW server,
         Tallied(st, m, server), ~ st.resent, Len(st.batch) = BatchSize,
         PlacedUpTo(t, st, st.batch, server, Len(st.batch)),
         t.batch \in {<<>>, st.batch},
         NEW s, s.cache = t.cache, s.locations = t.locations, s.batch = t.batch,
         s.resent = (t.batch # <<>>)
  PROVE  Tallied(s, m, server)
<1> DEFINE b == st.batch
           n == Len(b)
           c == t.batch
<1>1. /\ b \in Counted(V) /\ DOMAIN b = 1 .. n
      /\ \A j \in DOMAIN b : b[j][1] \in V /\ b[j][2] \in Nat
  BY ResolvingIs, CountedIs
<1>2. \A v \in DOMAIN st.cache : v \in V
  BY ResolvingIs, CacheIs
<1>3. FirstValues(b, n) = Values(b)
  BY <1>1 DEF FirstValues, Values
<1>4. /\ DOMAIN t.cache = (DOMAIN st.cache) \cup Values(b)
      /\ \A v \in DOMAIN t.cache : t.cache[v] = IF v \in Values(b) THEN Knows(server, v) ELSE st.cache[v]
      /\ \A i \in DOMAIN b : t.locations[b[i][1]] = st.locations[b[i][1]] + Found(server, b[i])
      /\ \A v \in V \ Values(b) : t.locations[v] = st.locations[v]
  <2>1. DOMAIN st.locations = V
    BY ResolvingIs
  <2> QED BY <1>1, <1>3, <2>1 DEF PlacedUpTo
<1>5. Values(b) \cap DOMAIN st.cache = {} /\ \A v \in Values(b) : v \in V /\ v \notin Skipped
  BY <1>1 DEF Tallied, Values
<1>6. DOMAIN c \in SUBSET DOMAIN b /\ \A j \in DOMAIN c : c[j] = b[j]
  <2>1. c = <<>> => DOMAIN c = {}
    OBVIOUS
  <2>2. c = <<>> \/ c = b
    OBVIOUS
  <2> HIDE DEF c, b
  <2> QED BY <2>1, <2>2
<1>7. ASSUME NEW j \in DOMAIN c
      PROVE  /\ c[j][1] \notin Skipped
             /\ c[j][2] <= m[c[j][1]]
             /\ c[j][1] \notin DOMAIN t.cache => c[j][2] = m[c[j][1]]
  <2> HIDE DEF c
  <2>1. j \in DOMAIN b /\ c[j] = b[j]
    BY <1>6
  <2>2. b[j][1] \in DOMAIN t.cache
    BY <1>4, <2>1 DEF Values
  <2> QED BY <2>1, <2>2 DEF Tallied
<1>8. ASSUME NEW v \in DOMAIN t.cache
      PROVE  v \notin Skipped /\ t.cache[v] = Knows(server, v) /\ t.locations[v] = Due(server, v, m[v])
  <2>1. CASE v \in Values(b)
    <3>1. PICK j \in DOMAIN b : v = b[j][1]
      BY <2>1 DEF Values
    <3>2. v \in V /\ v \notin Skipped /\ v \notin DOMAIN st.cache
      BY <1>5, <2>1
    <3>3. b[j][2] = m[v] /\ st.locations[v] = 0
      BY <3>1, <3>2 DEF Tallied
    <3>4. t.locations[v] = st.locations[v] + Found(server, b[j])
      BY <1>4, <3>1
    <3>5. Found(server, b[j]) = Due(server, v, m[v]) /\ Due(server, v, m[v]) \in Nat
      BY <3>1, <3>2, <3>3 DEF Found, Due
    <3> QED BY <1>4, <2>1, <3>2, <3>3, <3>4, <3>5
  <2>2. CASE v \notin Values(b)
    <3>1. v \in DOMAIN st.cache /\ v \in V
      BY <1>2, <1>4, <2>2
    <3> QED BY <1>4, <2>2, <3>1 DEF Tallied
  <2> QED BY <2>1, <2>2
<1>9. ASSUME NEW v \in (DOMAIN m) \ DOMAIN t.cache
      PROVE  t.locations[v] = 0 /\ (v \in Values(c) \/ v \in Skipped \/ m[v] = 0)
  <2>1. v \in V /\ v \notin Values(b) /\ v \notin DOMAIN st.cache
    BY <1>4
  <2> QED BY <1>4, <2>1 DEF Tallied
<1>10. Distinct(c)
  <2> HIDE DEF c
  <2> QED BY <1>6 DEF Distinct, Tallied
<1>11. c # <<>> => Len(c) >= BatchSize
  <2>1. c # <<>> => c = b
    OBVIOUS
  <2>2. n \in Nat
    BY <1>1, CountedIs
  <2> QED BY <2>1, <2>2
<1>12. c = <<>> => Values(c) = {}
  BY DEF Values
<1> QED BY <1>7, <1>8, <1>9, <1>10, <1>11, <1>12 DEF Tallied

-----------------------------------------------------------------------------
LEMMA BatchTyped ==
  ASSUME NEW V, NEW st \in Resolving(V), st.batch # <<>>, NEW server, MinSplit \in Nat, MinSplit >= 2
  PROVE  Batch(st, server) \in Resolving(V)
<1> DEFINE b == st.batch
           ps == Pieces(b, server)
           u == AnsweredPieces(st, ps, server)
<1>0. b \in Counted(V) /\ b \in Seq(V \X Nat) /\ Len(b) \in Nat
  <2>1. b \in Counted(V)
    BY ResolvingIs
  <2> QED BY <2>1, CountedIs DEF Counted
<1>1. ps \in Seq(Counted(V)) /\ Len(ps) \in Nat
  <2>1. CutInto(ps, V \X Nat, b, server, 1, Len(b))
    BY <1>0, PiecesCut
  <2> HIDE DEF ps
  <2> QED BY <2>1 DEF CutInto, Counted
<1>2. u \in Resolving(V)
  <2> HIDE DEF ps, u
  <2>1. \E r \in [0 .. Len(ps) -> Resolving(V)] : u = r[Len(ps)]
    BY <1>1, PieceAnswers DEF u
  <2>2. Len(ps) \in 0 .. Len(ps)
    BY <1>1
  <2> QED BY <2>1, <2>2
<1> DEFINE batch == IF Len(ps) = 1 THEN <<>> ELSE u.batch
<1>3. Batch(st, server) = [u EXCEPT !.batch = batch]
  BY DEF Batch, AnsweredPieces
<1> HIDE DEF u
<1>4. batch \in Counted(V)
  <2>1. u.batch \in Counted(V) /\ <<>> \in Counted(V)
    BY <1>2, ResolvingIs DEF Counted
  <2> QED BY <2>1
<1> HIDE DEF batch
<1> QED BY <1>2, <1>3, <1>4 DEF Resolving

Ends(t, u) ==
  /\ t.cache = u.cache /\ t.locations = u.locations /\ t.batch = u.batch
  /\ t.resent = (u.resent \/ u.batch # <<>>)
  /\ t.status \in {u.status, "stopped"} /\ (u.status = "raised" => t.status = "raised")
LEMMA SendIfFullIs ==
  ASSUME NEW V, NEW st \in Resolving(V), st.batch # <<>>, NEW server, MinSplit \in Nat, MinSplit >= 2
  PROVE  /\ SendIfFull(st, server) \in Resolving(V)
         /\ Len(st.batch) # BatchSize => SendIfFull(st, server) = st
         /\ Len(st.batch) = BatchSize => Ends(SendIfFull(st, server), Batch(st, server))
<1> DEFINE u == Batch(st, server)
           full == Cardinality(DOMAIN u.cache) >= MaxRequests
           resent == u.resent \/ u.batch # <<>>
           status == IF full /\ u.status = "reading" THEN "stopped" ELSE u.status
           s == Sent(u)
           t == StopAtLimit(s)
<1>1. u \in Resolving(V)
  BY BatchTyped
<1>2. SendIfFull(st, server) = IF Len(st.batch) # BatchSize THEN st ELSE t
  BY DEF SendIfFull
<1> HIDE DEF u
<1>3. /\ u.cache \in Caches(V) /\ u.locations \in [V -> Nat] /\ u.nonEmpty \in Nat
      /\ u.batch \in Counted(V) /\ u.resent \in BOOLEAN
      /\ u.status \in {"reading", "raised", "stopped"}
  BY <1>1, ResolvingIs
<1>4. s = [cache |-> u.cache, locations |-> u.locations, nonEmpty |-> u.nonEmpty,
           batch |-> u.batch, resent |-> resent, status |-> u.status]
  BY <1>1 DEF Sent, Resolving
<1>5. resent \in BOOLEAN
  OBVIOUS
<1> HIDE DEF resent
<1>6. s.cache = u.cache /\ s.status = u.status
  <2> HIDE DEF s
  <2> QED BY <1>4
<1>7. t = [s EXCEPT !.status = status]
  <2> HIDE DEF s
  <2> QED BY <1>6 DEF StopAtLimit
<1>8. status \in {"reading", "raised", "stopped"}
  <2> HIDE DEF full
  <2> QED BY <1>3
<1>9. status \in {u.status, "stopped"} /\ (u.status = "raised" => status = "raised")
  <2> HIDE DEF full
  <2> QED OBVIOUS
<1> HIDE DEF status
<1>10. t = [cache |-> u.cache, locations |-> u.locations, nonEmpty |-> u.nonEmpty,
            batch |-> u.batch, resent |-> resent, status |-> status]
  <2> HIDE DEF s, t
  <2> QED BY <1>4, <1>7
<1> HIDE DEF t
<1>11. t \in Resolving(V)
  BY <1>3, <1>5, <1>8, <1>10 DEF Resolving
<1>12. Ends(t, u)
  BY <1>9, <1>10 DEF Ends, resent
<1>13. CASE Len(st.batch) # BatchSize
  BY <1>2, <1>13
<1>14. CASE Len(st.batch) = BatchSize
  BY <1>2, <1>11, <1>12, <1>14 DEF u
<1> QED BY <1>13, <1>14

(* One turn of the loop.                                                    *)
SkipsTo(t, st) ==
  t.cache = st.cache /\ t.locations = st.locations /\ t.batch = st.batch /\ t.resent = st.resent
CountsTo(t, st, w) ==
  /\ t.cache = st.cache /\ t.locations = [st.locations EXCEPT ![w] = @ + st.cache[w]]
  /\ t.batch = st.batch /\ t.resent = st.resent
BatchesTo(t, st, w) ==
  /\ t.cache = st.cache /\ t.locations = st.locations
  /\ t.batch = CountOneMore(st.batch, w) /\ t.resent = st.resent
AddsTo(s, st, w) ==
  /\ s.cache = st.cache /\ s.locations = st.locations
  /\ s.batch = Append(st.batch, <<w, 1>>) /\ s.resent = st.resent
ReadsTo(t, st, V, w, server) ==
  \/ (st.status # "reading" \/ w = Empty) /\ t = st
  \/ st.status = "reading" /\ t.status = "reading" /\ w = TooLong /\ SkipsTo(t, st)
  \/ st.status = "reading" /\ t.status = "reading" /\ w \in DOMAIN st.cache /\ CountsTo(t, st, w)
  \/ /\ st.status = "reading" /\ t.status = "reading"
     /\ w \notin DOMAIN st.cache /\ w \in Values(st.batch) /\ BatchesTo(t, st, w)
  \/ /\ st.status = "reading" /\ w \notin Skipped
     /\ w \notin DOMAIN st.cache /\ w \notin Values(st.batch)
     /\ \E s \in Resolving(V) : /\ s.status = "reading" /\ s.batch # <<>> /\ AddsTo(s, st, w)
                                /\ t = SendIfFull(s, server)

LEMMA ReadIs ==
  ASSUME NEW V, NEW st \in Resolving(V), NEW w \in V, NEW server, MinSplit \in Nat, MinSplit >= 2
  PROVE  /\ Read(st, w, server) \in Resolving(V)
         /\ ReadsTo(Read(st, w, server), st, V, w, server)
<1> DEFINE s1 == [cache |-> st.cache, locations |-> st.locations, nonEmpty |-> st.nonEmpty + 1,
                  batch |-> st.batch, resent |-> st.resent, status |-> st.status]
           t == Read(st, w, server)
<1>1. /\ st.cache \in Caches(V) /\ st.locations \in [V -> Nat] /\ st.nonEmpty \in Nat
      /\ st.batch \in Counted(V) /\ st.resent \in BOOLEAN
      /\ st.status \in {"reading", "raised", "stopped"}
  BY ResolvingIs
<1>2. [st EXCEPT !.nonEmpty = @ + 1] = s1
  BY DEF Resolving
<1>3. /\ s1.cache = st.cache /\ s1.locations = st.locations /\ s1.batch = st.batch
      /\ s1.resent = st.resent /\ s1.status = st.status /\ s1.nonEmpty \in Nat
  BY <1>1
<1>4. s1 \in Resolving(V)
  BY <1>1, <1>3 DEF Resolving
<1>5. t = IF st.status # "reading" \/ w = Empty THEN st ELSE Locate(s1, w, server)
  <2> HIDE DEF s1
  <2> QED BY <1>2 DEF Read
<1> HIDE DEF s1, t
<1>6. CASE st.status # "reading" \/ w = Empty
  <2>1. t = st
    BY <1>5, <1>6
  <2>2. ReadsTo(t, st, V, w, server)
    BY <1>6, <2>1 DEF ReadsTo
  <2> QED BY <2>1, <2>2 DEF t
<1>7. CASE st.status = "reading" /\ w # Empty
  <2>0. t = Locate(s1, w, server)
    BY <1>5, <1>7
  <2>1. CASE w = TooLong
    <3>1. t = s1
      BY <2>0, <2>1 DEF Locate
    <3>2. SkipsTo(t, st) /\ t.status = "reading"
      BY <1>3, <1>7, <3>1 DEF SkipsTo
    <3>3. ReadsTo(t, st, V, w, server)
      BY <1>7, <2>1, <3>2 DEF ReadsTo
    <3> QED BY <1>4, <3>1, <3>3 DEF t
  <2>2. CASE w # TooLong /\ w \in DOMAIN st.cache
    <3> DEFINE locations == [st.locations EXCEPT ![w] = @ + st.cache[w]]
    <3>1. t = [s1 EXCEPT !.locations[w] = @ + s1.cache[w]]
      BY <1>3, <2>0, <2>2 DEF Locate
    <3>2. t = [cache |-> st.cache, locations |-> locations, nonEmpty |-> s1.nonEmpty,
               batch |-> st.batch, resent |-> st.resent, status |-> st.status]
      BY <1>3, <1>4, <3>1 DEF Resolving
    <3>3. locations \in [V -> Nat]
      <4>1. st.cache[w] \in Nat
        BY <1>1, <2>2, CacheIs
      <4>2. st.locations[w] + st.cache[w] \in Nat
        BY <1>1, <4>1
      <4> QED BY <1>1, <4>2
    <3> HIDE DEF locations
    <3>4. t \in Resolving(V)
      BY <1>1, <1>3, <3>2, <3>3 DEF Resolving
    <3>5. CountsTo(t, st, w) /\ t.status = "reading"
      BY <1>7, <3>2 DEF CountsTo, locations
    <3>6. ReadsTo(t, st, V, w, server)
      BY <1>7, <2>2, <3>5 DEF ReadsTo
    <3> QED BY <3>4, <3>6 DEF t
  <2>3. CASE w # TooLong /\ w \notin DOMAIN st.cache /\ w \in Values(st.batch)
    <3> DEFINE batch == CountOneMore(st.batch, w)
    <3>1. t = [s1 EXCEPT !.batch = CountOneMore(s1.batch, w)]
      BY <1>3, <2>0, <2>3 DEF Locate, CountOneMore
    <3>2. t = [cache |-> st.cache, locations |-> st.locations, nonEmpty |-> s1.nonEmpty,
               batch |-> batch, resent |-> st.resent, status |-> st.status]
      BY <1>3, <1>4, <3>1 DEF Resolving
    <3>3. batch \in Counted(V)
      BY <1>1, CountedMore
    <3> HIDE DEF batch
    <3>4. t \in Resolving(V)
      BY <1>1, <1>3, <3>2, <3>3 DEF Resolving
    <3>5. BatchesTo(t, st, w) /\ t.status = "reading"
      BY <1>7, <3>2 DEF BatchesTo, batch
    <3>6. ReadsTo(t, st, V, w, server)
      BY <1>7, <2>3, <3>5 DEF ReadsTo
    <3> QED BY <3>4, <3>6 DEF t
  <2>4. CASE w # TooLong /\ w \notin DOMAIN st.cache /\ w \notin Values(st.batch)
    <3> DEFINE batch == Append(st.batch, <<w, 1>>)
               s == [cache |-> st.cache, locations |-> st.locations, nonEmpty |-> s1.nonEmpty,
                     batch |-> batch, resent |-> st.resent, status |-> st.status]
    <3>1. t = SendIfFull([s1 EXCEPT !.batch = Append(s1.batch, <<w, 1>>)], server)
      BY <1>3, <2>0, <2>4 DEF Locate, AddToBatch
    <3>2. [s1 EXCEPT !.batch = Append(s1.batch, <<w, 1>>)] = s
      <4>1. Append(s1.batch, <<w, 1>>) = batch
        BY <1>3
      <4>2. [s1 EXCEPT !.batch = batch] = s
        <5> HIDE DEF batch
        <5> QED BY <1>3, <1>4 DEF Resolving
      <4> HIDE DEF batch, s
      <4> QED BY <4>1, <4>2
    <3>3. batch \in Counted(V) /\ batch # <<>>
      <4>1. batch \in Counted(V) /\ Grown(batch, st.batch, w)
        BY <1>1, BatchGrows
      <4>2. Len(st.batch) \in Nat
        BY <1>1, CountedIs
      <4>3. Len(batch) # 0
        <5> HIDE DEF batch
        <5> QED BY <4>1, <4>2 DEF Grown
      <4> HIDE DEF batch
      <4> QED BY <4>1, <4>3
    <3> HIDE DEF batch
    <3>4. /\ s.cache = st.cache /\ s.locations = st.locations /\ s.batch = batch
          /\ s.resent = st.resent /\ s.status = st.status
      OBVIOUS
    <3>5. s \in Resolving(V)
      BY <1>1, <1>3, <3>3 DEF Resolving
    <3> HIDE DEF s
    <3>6. t = SendIfFull(s, server)
      BY <3>1, <3>2
    <3>7. t \in Resolving(V)
      BY <3>3, <3>4, <3>5, <3>6, SendIfFullIs
    <3>8. AddsTo(s, st, w)
      BY <3>4 DEF AddsTo, batch
    <3>9. w \notin Skipped
      BY <1>7, <2>4 DEF Skipped
    <3>10. ReadsTo(t, st, V, w, server)
      BY <1>7, <2>4, <3>3, <3>4, <3>5, <3>6, <3>8, <3>9 DEF ReadsTo
    <3> QED BY <3>7, <3>10 DEF t
  <2> QED BY <2>1, <2>2, <2>3, <2>4
<1> QED BY <1>1, <1>6, <1>7

-----------------------------------------------------------------------------
LEMMA ReadGoes ==
  ASSUME NEW V, NEW m, NEW m2, NEW w, OneMore(m2, m, V, w),
         NEW st \in Resolving(V), NEW server, server.limit \in Nat,
         MinSplit \in Nat, MinSplit >= 2, BatchSize \in Nat, Going(st, m, server)
  PROVE  Going(Read(st, w, server), m2, server)
<1> DEFINE t == Read(st, w, server)
<1>0. w \in V /\ m \in [V -> Nat] /\ m2 \in [V -> Nat]
  BY DEF OneMore
<1>1. t \in Resolving(V) /\ ReadsTo(t, st, V, w, server)
  BY <1>0, ReadIs
<1> HIDE DEF t
<1>2. CASE (st.status # "reading" \/ w = Empty) /\ t = st
  <2>1. st.status # "raised" => AtMostDue(st, m2, server)
    BY WithinMore DEF Going
  <2>2. st.status = "reading" => Tallied(st, m2, server)
    <3> SUFFICES ASSUME st.status = "reading" PROVE Tallied(st, m2, server)
      OBVIOUS
    <3>1. Tallied(st, m, server) /\ w \in Skipped
      BY <1>2 DEF Going, Skipped
    <3> QED BY <3>1, ReadSkips
  <2> QED BY <1>2, <2>1, <2>2 DEF Going, t
<1>3. ASSUME Tallied(t, m2, server), t.status = "reading" PROVE Going(t, m2, server)
  <2>1. AtMostDue(t, m2, server)
    BY <1>0, <1>3, TalliedWithin
  <2> QED BY <1>3, <2>1 DEF Going, Excused
<1>4. CASE st.status = "reading" /\ t.status = "reading" /\ w = TooLong /\ SkipsTo(t, st)
  <2>1. Tallied(st, m, server) /\ w \in Skipped
    BY <1>4 DEF Going, Skipped
  <2>2. Tallied(t, m2, server)
    BY <1>4, <2>1, ReadSkips DEF SkipsTo
  <2> QED BY <1>3, <1>4, <2>2 DEF t
<1>5. CASE st.status = "reading" /\ t.status = "reading" /\ w \in DOMAIN st.cache /\ CountsTo(t, st, w)
  <2>1. Tallied(st, m, server)
    BY <1>5 DEF Going
  <2>2. Tallied(t, m2, server)
    BY <1>5, <2>1, ReadKnown DEF CountsTo
  <2> QED BY <1>3, <1>5, <2>2 DEF t
<1>6. CASE /\ st.status = "reading" /\ t.status = "reading"
           /\ w \notin DOMAIN st.cache /\ w \in Values(st.batch) /\ BatchesTo(t, st, w)
  <2>1. Tallied(st, m, server)
    BY <1>6 DEF Going
  <2>2. Tallied(t, m2, server)
    BY <1>6, <2>1, ReadBatched DEF BatchesTo
  <2> QED BY <1>3, <1>6, <2>2 DEF t
<1>7. CASE /\ st.status = "reading" /\ w \notin Skipped
           /\ w \notin DOMAIN st.cache /\ w \notin Values(st.batch)
           /\ \E s \in Resolving(V) : /\ s.status = "reading" /\ s.batch # <<>> /\ AddsTo(s, st, w)
                                      /\ t = SendIfFull(s, server)
  <2>1. PICK s \in Resolving(V) : /\ s.status = "reading" /\ s.batch # <<>> /\ AddsTo(s, st, w)
                                  /\ t = SendIfFull(s, server)
    BY <1>7
  <2>2. Tallied(st, m, server)
    BY <1>7 DEF Going
  <2>3. Tallied(s, m2, server) /\ (s.resent => Len(s.batch) # BatchSize)
    BY <1>7, <2>1, <2>2, ReadNew DEF AddsTo
  <2>4. CASE Len(s.batch) # BatchSize
    <3>1. t = s
      BY <2>1, <2>4, SendIfFullIs
    <3> QED BY <1>3, <2>1, <2>3, <3>1 DEF t
  <2>5. CASE Len(s.batch) = BatchSize
    <3> DEFINE u == Batch(s, server)
    <3>1. ~ s.resent /\ Distinct(s.batch)
      BY <2>3, <2>5 DEF Tallied
    <3>2. u \in Resolving(V) /\ Sends(u, s, server)
      BY <2>1, <3>1, BatchIs
    <3>3. Ends(t, u)
      BY <2>1, <2>5, SendIfFullIs
    <3> HIDE DEF u
    <3>4. CASE u.status = "raised"
      <4>1. Excused(u, server) /\ t.status = "raised"
        BY <3>2, <3>3, <3>4 DEF Sends, Ends
      <4> QED BY <3>4, <4>1 DEF Going, Excused, t
    <3>5. CASE u.status # "raised"
      <4>1. /\ PlacedUpTo(u, s, s.batch, server, Len(s.batch))
            /\ u.batch \in {<<>>, s.batch} /\ u.resent = s.resent
        BY <3>2, <3>5 DEF Sends
      <4>2. /\ t.cache = u.cache /\ t.locations = u.locations /\ t.batch = u.batch
            /\ t.resent = (u.batch # <<>>)
        <5>1. u.resent = FALSE
          BY <3>1, <4>1, <2>1, ResolvingIs
        <5> QED BY <3>3, <5>1 DEF Ends
      <4>3. Tallied(t, m2, server)
        BY <1>0, <2>1, <2>3, <2>5, <3>1, <4>1, <4>2, SentTallied
      <4>4. t.status # "raised"
        BY <3>3, <3>5 DEF Ends
      <4>5. AtMostDue(t, m2, server)
        BY <1>0, <4>3, TalliedWithin
      <4> QED BY <4>3, <4>4, <4>5 DEF Going, Excused, t
    <3> QED BY <3>4, <3>5
  <2> QED BY <2>4, <2>5
<1> QED BY <1>1, <1>2, <1>4, <1>5, <1>6, <1>7 DEF ReadsTo

(* How often a value is among the first i of the column.                    *)
Occurs(array, v, i) == Cardinality({j \in 1 .. i : array[j] = v})
LEMMA OccursNext ==
  ASSUME NEW array, NEW v, NEW i \in Nat
  PROVE  /\ Occurs(array, v, i) \in Nat
         /\ Occurs(array, v, 0) = 0
         /\ Occurs(array, v, i + 1) = IF array[i + 1] = v THEN Occurs(array, v, i) + 1
                                      ELSE Occurs(array, v, i)
<1> DEFINE S == {j \in 1 .. i : array[j] = v}
           T == {j \in 1 .. i + 1 : array[j] = v}
           E == {j \in 1 .. 0 : array[j] = v}
<1>1. IsFiniteSet(S)
  <2>1. IsFiniteSet(1 .. i) /\ S \in SUBSET (1 .. i)
    <3>1. IsFiniteSet(1 .. i)
      BY FS_Interval
    <3> QED BY <3>1
  <2> HIDE DEF S
  <2> QED BY <2>1, FS_Subset
<1>2. Cardinality(S) \in Nat
  <2> HIDE DEF S
  <2> QED BY <1>1, FS_CardinalityType
<1>3. E = {}
  OBVIOUS
<1>4. Cardinality(E) = 0
  <2> HIDE DEF E
  <2> QED BY <1>3, FS_EmptySet
<1>5. CASE array[i + 1] = v
  <2>1. T = S \cup {i + 1} /\ i + 1 \notin S
    BY <1>5
  <2>2. Cardinality(T) = Cardinality(S) + 1
    <3> HIDE DEF S, T
    <3> QED BY <1>1, <2>1, FS_AddElement
  <2> QED BY <1>2, <1>4, <1>5, <2>2 DEF Occurs
<1>6. CASE array[i + 1] # v
  <2>1. T = S
    BY <1>6
  <2> HIDE DEF S, T
  <2> QED BY <1>2, <1>4, <1>6, <2>1 DEF Occurs, S, T, E
<1> QED BY <1>5, <1>6

Addresses(array) == ToSet(array)
Begins(array) ==
  [cache |-> <<>>, locations |-> [v \in Addresses(array) |-> 0], nonEmpty |-> 0,
   batch |-> <<>>, resent |-> FALSE, status |-> "reading"]
LocatesAll(it, array, server) ==
  it = [S \in SUBSET (DOMAIN array) |->
          IF S = {} THEN Begins(array) ELSE Read(it[S \ {Max(S)}], array[Max(S)], server)]
LocatedIn(array, server) ==
  FoldLeft(LAMBDA s, v : Read(s, v, server), Start(ToSet(array)), array)
LEMMA LocatedIs ==
  ASSUME NEW array, NEW server
  PROVE  LocatedIn(array, server) = (CHOOSE it : LocatesAll(it, array, server))[DOMAIN array]
BY DEF LocatedIn, FoldLeft, MapThenFoldSet, Max, LocatesAll, Begins, Start, Addresses

LEMMA ResolvedIs ==
  ASSUME NEW array, NEW server
  PROVE  ResolveAll(array, server) = SendRest(LocatedIn(array, server), server)
BY DEF ResolveAll, LocatedIn

LEMMA BeginsIs ==
  ASSUME NEW array
  PROVE  Begins(array) \in Resolving(Addresses(array))
<1> DEFINE V == Addresses(array)
           b == Begins(array)
           none == [v \in V |-> 0]
<1>1. <<>> \in Counted(V)
  BY DEF Counted
<1>2. <<>> \in Caches(V)
  <2>1. <<>> \in [{} -> {0, 1}] /\ {} \in SUBSET V
    OBVIOUS
  <2> QED BY <2>1, IsCache
<1>3. none \in [V -> Nat]
  OBVIOUS
<1>4. b = [cache |-> <<>>, locations |-> none, nonEmpty |-> 0,
           batch |-> <<>>, resent |-> FALSE, status |-> "reading"]
  BY DEF Begins
<1> HIDE DEF V, b, none
<1>5. b \in Resolving(V)
  BY <1>1, <1>2, <1>3, <1>4 DEF Resolving
<1> QED BY <1>5 DEF V, b

-----------------------------------------------------------------------------
LEMMA AddressReadings ==
  ASSUME NEW A, NEW array \in Seq(A), NEW server, MinSplit \in Nat, MinSplit >= 2
  PROVE  \E r \in [0 .. Len(array) -> Resolving(Addresses(array))] :
           /\ r[0] = Begins(array)
           /\ \A i \in 1 .. Len(array) : r[i] = Read(r[i - 1], array[i], server)
           /\ LocatedIn(array, server) = r[Len(array)]
<1> DEFINE n == Len(array)
           S0 == Resolving(Addresses(array))
           base == Begins(array)
           F == [p \in (1 .. n) \X S0 |-> Read(p[2], array[p[1]], server)]
           it == CHOOSE h : LocatesAll(h, array, server)
<1>0. /\ n \in Nat /\ DOMAIN array = 1 .. n /\ base \in S0
      /\ \A i \in 1 .. n : array[i] \in Addresses(array)
  <2>1. n \in Nat /\ DOMAIN array = 1 .. n
    OBVIOUS
  <2> QED BY <2>1, BeginsIs DEF Addresses, ToSet
<1>1. ASSUME NEW i \in 1 .. n, NEW s \in S0
      PROVE  F[<<i, s>>] = Read(s, array[i], server) /\ Read(s, array[i], server) \in S0
  <2>1. array[i] \in Addresses(array)
    BY <1>0
  <2> QED BY <2>1, ReadIs
<1>2. F \in [(1 .. n) \X S0 -> S0]
  <2>1. \A p \in (1 .. n) \X S0 : Read(p[2], array[p[1]], server) \in S0
    <3> HIDE DEF S0, n, F
    <3> QED BY <1>1
  <2> QED BY <2>1
<1>3. LocatesAll(it, array, server)
  <2>1. PICK h : Computes(h, n, S0, base, F)
    <3> HIDE DEF n, F, base
    <3> QED BY <1>0, <1>2, FoldIsDefined
  <2>2. LocatesAll(h, array, server)
    <3>1. \A S \in SUBSET (1 .. n) : S # {} => h[S] = Read(h[S \ {Max(S)}], array[Max(S)], server)
      <4> HIDE DEF F, S0
      <4> QED BY <1>1, <2>1 DEF Computes
    <3>2. h = [S \in SUBSET (1 .. n) |->
                 IF S = {} THEN base ELSE Read(h[S \ {Max(S)}], array[Max(S)], server)]
      <4> HIDE DEF S0, base
      <4> QED BY <2>1, <3>1 DEF Computes
    <3> QED BY <1>0, <3>2 DEF LocatesAll
  <2> QED BY <2>2
<1>4. Follows(it, n, S0, base, F)
  <2> HIDE DEF it
  <2>1. it = [S \in SUBSET (1 .. n) |->
                IF S = {} THEN base ELSE Read(it[S \ {Max(S)}], array[Max(S)], server)]
    BY <1>0, <1>3 DEF LocatesAll
  <2>2. /\ it[{}] = base
        /\ \A S \in SUBSET (1 .. n) : S # {} => it[S] = Read(it[S \ {Max(S)}], array[Max(S)], server)
        /\ it = [S \in SUBSET (1 .. n) |-> it[S]]
    <3> HIDE DEF n, base
    <3> QED BY <2>1
  <2>3. \A S \in SUBSET (1 .. n) :
          S # {} /\ Max(S) \in 1 .. n /\ it[S \ {Max(S)}] \in S0
            => it[S] = F[<<Max(S), it[S \ {Max(S)}]>>]
    <3> HIDE DEF F, n, S0
    <3> QED BY <1>1, <2>2
  <2> QED BY <2>2, <2>3 DEF Follows
<1>5. PICK r : Leads(r, n, S0, base, F, it[1 .. n])
  <2> HIDE DEF n, F, it, base
  <2> QED BY <1>0, <1>2, <1>4, FoldLeads
<1>6. ASSUME NEW i \in 1 .. n PROVE r[i] = Read(r[i - 1], array[i], server)
  <2>1. i - 1 \in 0 .. n
    BY <1>0
  <2>2. r[i - 1] \in S0
    <3> HIDE DEF n, S0
    <3> QED BY <1>5, <2>1 DEF Leads
  <2> HIDE DEF F, S0
  <2> QED BY <1>1, <1>5, <2>2 DEF Leads
<1>7. LocatedIn(array, server) = r[n]
  <2> HIDE DEF base
  <2> QED BY <1>0, <1>5, LocatedIs DEF Leads
<1> QED BY <1>5, <1>6, <1>7 DEF Leads

Tally(array, i) == [v \in Addresses(array) |-> Occurs(array, v, i)]
LEMMA TallyNext ==
  ASSUME NEW A, NEW array \in Seq(A), NEW i \in 0 .. Len(array) - 1
  PROVE  /\ Tally(array, i) \in [Addresses(array) -> Nat]
         /\ OneMore(Tally(array, i + 1), Tally(array, i), Addresses(array), array[i + 1])
<1> DEFINE V == Addresses(array)
           w == array[i + 1]
<1>1. i \in Nat /\ i + 1 \in Nat /\ i + 1 \in DOMAIN array
  <2>1. Len(array) \in Nat /\ DOMAIN array = 1 .. Len(array)
    OBVIOUS
  <2> QED BY <2>1
<1>2. w \in V
  BY <1>1 DEF Addresses, ToSet
<1>3. \A v \in V : Occurs(array, v, i) \in Nat /\ Occurs(array, v, i + 1) \in Nat
  BY <1>1, OccursNext
<1>4. /\ Occurs(array, w, i + 1) = Occurs(array, w, i) + 1
      /\ \A v \in V \ {w} : Occurs(array, v, i + 1) = Occurs(array, v, i)
  BY <1>1, OccursNext
<1>5. /\ Tally(array, i) \in [V -> Nat] /\ Tally(array, i + 1) \in [V -> Nat]
      /\ \A v \in V : Tally(array, i)[v] = Occurs(array, v, i)
      /\ \A v \in V : Tally(array, i + 1)[v] = Occurs(array, v, i + 1)
  <2> HIDE DEF V
  <2> QED BY <1>3 DEF Tally, V
<1> HIDE DEF V, w
<1>6. OneMore(Tally(array, i + 1), Tally(array, i), V, w)
  BY <1>2, <1>4, <1>5 DEF OneMore
<1> QED BY <1>5, <1>6 DEF V, w

LEMMA BeginsTallied ==
  ASSUME NEW array, NEW server
  PROVE  Going(Begins(array), Tally(array, 0), server)
<1> DEFINE b == Begins(array)
           V == Addresses(array)
           m == Tally(array, 0)
<1>1. /\ b.cache = <<>> /\ b.batch = <<>> /\ b.resent = FALSE /\ b.status = "reading"
      /\ b.locations = [v \in V |-> 0]
  BY DEF Begins
<1>2. DOMAIN b.cache = {} /\ DOMAIN b.batch = {} /\ Values(b.batch) = {}
  BY <1>1 DEF Values
<1>3. DOMAIN m = V /\ \A v \in V : m[v] = 0 /\ b.locations[v] = 0
  <2>1. \A v : Occurs(array, v, 0) = 0
    BY OccursNext
  <2> QED BY <1>1, <2>1 DEF Tally
<1>4. m \in [V -> Nat]
  <2>1. m = [v \in V |-> m[v]]
    BY DEF Tally
  <2> HIDE DEF m, V
  <2> QED BY <1>3, <2>1
<1> HIDE DEF b, V, m
<1>5. Tallied(b, m, server)
  BY <1>1, <1>2, <1>3 DEF Tallied, Distinct
<1>6. AtMostDue(b, m, server)
  BY <1>4, <1>5, TalliedWithin
<1>7. Going(b, m, server)
  BY <1>1, <1>5, <1>6 DEF Going, Excused
<1> QED BY <1>7 DEF b, m

LEMMA ReadingEnds ==
  ASSUME NEW A, NEW array \in Seq(A), NEW server, server.limit \in Nat,
         MinSplit \in Nat, MinSplit >= 2, BatchSize \in Nat
  PROVE  /\ LocatedIn(array, server) \in Resolving(Addresses(array))
         /\ Going(LocatedIn(array, server), Tally(array, Len(array)), server)
<1> DEFINE n == Len(array)
           V == Addresses(array)
<1>0. n \in Nat
  OBVIOUS
<1>1. PICK r \in [0 .. n -> Resolving(V)] :
        /\ r[0] = Begins(array)
        /\ \A i \in 1 .. n : r[i] = Read(r[i - 1], array[i], server)
        /\ LocatedIn(array, server) = r[n]
  BY AddressReadings
<1> HIDE DEF V
<1> DEFINE Good(i) == Going(r[i], Tally(array, i), server)
           M == {i \in Nat : i <= n => Good(i)}
<1>2. Good(0)
  BY <1>1, BeginsTallied
<1>3. ASSUME NEW i \in 0 .. n - 1, Good(i) PROVE Good(i + 1)
  <2> DEFINE k == i + 1
  <2>1. k \in 1 .. n /\ i \in 0 .. n /\ k - 1 = i
    BY <1>0
  <2>2. r[i] \in Resolving(V) /\ r[k] = Read(r[i], array[k], server)
    <3> HIDE DEF n, k
    <3> QED BY <1>1, <2>1
  <2>3. OneMore(Tally(array, k), Tally(array, i), V, array[k])
    BY TallyNext DEF V
  <2>4. Going(r[i], Tally(array, i), server)
    BY <1>3
  <2>5. Going(r[k], Tally(array, k), server)
    <3> HIDE DEF k
    <3> QED BY <2>2, <2>3, <2>4, ReadGoes
  <2> QED BY <2>5
<1>4. Good(n)
  <2>1. M \in SUBSET Nat /\ 0 \in M
    BY <1>2
  <2>2. \A i \in 0 .. n - 1 : i \in M => i + 1 \in M
    <3> SUFFICES ASSUME NEW i \in 0 .. n - 1, i \in M PROVE i + 1 \in M
      OBVIOUS
    <3>1. i \in Nat /\ i <= n /\ i + 1 \in Nat
      BY <1>0
    <3>2. Good(i)
      <4> HIDE DEF Good
      <4> QED BY <3>1
    <3>3. Good(i + 1)
      <4> HIDE DEF Good
      <4> QED BY <1>3, <3>2
    <3> HIDE DEF Good
    <3> QED BY <3>1, <3>3
  <2>3. 0 .. n \subseteq M
    <3> HIDE DEF M, n
    <3> QED BY <1>0, <2>1, <2>2, StepInduction
  <2>4. n \in 0 .. n /\ n <= n
    BY <1>0
  <2>5. n \in M
    <3> HIDE DEF M
    <3> QED BY <2>3, <2>4
  <2> HIDE DEF Good
  <2> QED BY <2>4, <2>5
<1>5. n \in 0 .. n
  BY <1>0
<1>6. r[n] \in Resolving(V)
  BY <1>1, <1>5
<1> QED BY <1>1, <1>4, <1>6 DEF V

(* What is left in the batch when the column was read.                      *)
Sums(t, m, server, complete) ==
  IF t.status = "raised" THEN server.broken # {} \/ server.limit < MinSplit
  ELSE \A v \in DOMAIN m :
         /\ t.locations[v] <= IF t.resent THEN 2 * Due(server, v, m[v]) ELSE Due(server, v, m[v])
         /\ t.status = "reading" /\ complete => t.locations[v] >= Due(server, v, m[v])

LEMMA RestIsSent ==
  ASSUME NEW V, NEW m \in [V -> Nat], NEW st \in Resolving(V), NEW server, server.limit \in Nat,
         MinSplit \in Nat, MinSplit >= 2, Going(st, m, server), st.status = "reading", st.batch # <<>>
  PROVE  Sums(Batch(st, server), m, server, TRUE)
<1> DEFINE t == Batch(st, server)
           b == st.batch
<1>1. Tallied(st, m, server)
  BY DEF Going
<1>2. t \in Resolving(V) /\ Sends(t, st, server)
  <2>1. Distinct(st.batch)
    BY <1>1 DEF Tallied
  <2> QED BY <2>1, BatchIs
<1> HIDE DEF t
<1>3. CASE t.status = "raised"
  BY <1>2, <1>3 DEF Sends, Excused, Sums, t
<1>4. CASE t.status # "raised"
  <2>1. b \in Counted(V) /\ DOMAIN b = 1 .. Len(b) /\ \A j \in DOMAIN b : b[j][1] \in V /\ b[j][2] \in Nat
    BY ResolvingIs, CountedIs
  <2>2. t.resent = st.resent /\ PlacedUpTo(t, st, b, server, Len(b))
    BY <1>2, <1>4 DEF Sends
  <2>3. FirstValues(b, Len(b)) = Values(b)
    BY <2>1 DEF FirstValues, Values
  <2>4. DOMAIN st.locations = V
    BY ResolvingIs
  <2>5. ASSUME NEW v \in V
        PROVE  /\ t.locations[v] <= IF t.resent THEN 2 * Due(server, v, m[v]) ELSE Due(server, v, m[v])
               /\ t.locations[v] >= Due(server, v, m[v])
    <3> DEFINE d == Due(server, v, m[v])
    <3>0. m[v] \in Nat /\ d \in Nat
      BY DueIs
    <3>1. st.locations[v] = d \/ (v \notin DOMAIN st.cache /\ st.locations[v] = 0)
      BY <1>1 DEF Tallied
    <3>2. CASE v \in Values(b)
      <4>1. PICK j \in DOMAIN b : v = b[j][1]
        BY <3>2 DEF Values
      <4>2. t.locations[v] = st.locations[v] + Found(server, b[j])
        BY <2>1, <2>2, <4>1 DEF PlacedUpTo
      <4>3. v \notin Skipped /\ b[j][2] <= m[v] /\ b[j][2] \in Nat /\ (v \notin DOMAIN st.cache => b[j][2] = m[v])
        BY <1>1, <2>1, <4>1 DEF Tallied
      <4>4. /\ Found(server, b[j]) \in Nat /\ Found(server, b[j]) <= d
            /\ v \notin DOMAIN st.cache => Found(server, b[j]) = d
        BY <3>0, <4>1, <4>3 DEF Found, Due
      <4>5. CASE v \in DOMAIN st.cache
        <5>1. st.locations[v] = d /\ t.resent
          BY <1>1, <2>2, <3>1, <3>2, <4>5 DEF Tallied
        <5> HIDE DEF d
        <5>2. t.locations[v] <= 2 * d /\ t.locations[v] >= d
          BY <3>0, <4>2, <4>4, <5>1
        <5> QED BY <5>1, <5>2 DEF d
      <4>6. CASE v \notin DOMAIN st.cache
        <5>1. st.locations[v] = 0
          BY <1>1, <4>6 DEF Tallied
        <5> HIDE DEF d
        <5>2. t.locations[v] = d
          BY <3>0, <4>2, <4>4, <4>6, <5>1
        <5>3. t.locations[v] <= 2 * d /\ t.locations[v] >= d /\ t.locations[v] <= d
          BY <3>0, <5>2
        <5> QED BY <5>3 DEF d
      <4> QED BY <4>5, <4>6
    <3>3. CASE v \notin Values(b)
      <4>1. t.locations[v] = st.locations[v]
        BY <2>2, <2>3, <2>4, <3>3 DEF PlacedUpTo
      <4>2. v \notin DOMAIN st.cache => d = 0
        BY <1>1, <3>3 DEF Tallied, Due
      <4>3. t.locations[v] = d
        BY <3>1, <4>1, <4>2
      <4> HIDE DEF d
      <4>4. t.locations[v] <= 2 * d /\ t.locations[v] >= d /\ t.locations[v] <= d
        BY <3>0, <4>3
      <4> QED BY <4>4 DEF d
    <3> QED BY <3>2, <3>3
  <2>6. Sums(t, m, server, TRUE)
    BY <1>4, <2>5 DEF Sums
  <2> QED BY <2>6 DEF t
<1> QED BY <1>3, <1>4

LEMMA RestIsKept ==
  ASSUME NEW V, NEW m \in [V -> Nat], NEW st \in Resolving(V), NEW server,
         Going(st, m, server), NEW complete \in BOOLEAN,
         st.status = "reading" /\ complete => st.batch = <<>>
  PROVE  Sums(st, m, server, complete)
<1>1. CASE st.status = "raised"
  BY <1>1 DEF Going, Excused, Sums
<1>2. CASE st.status # "raised"
  <2>1. ASSUME NEW v \in V
        PROVE  /\ st.locations[v] <= IF st.resent THEN 2 * Due(server, v, m[v]) ELSE Due(server, v, m[v])
               /\ st.status = "reading" /\ complete => st.locations[v] >= Due(server, v, m[v])
    <3> DEFINE d == Due(server, v, m[v])
    <3>0. d \in Nat
      BY DueIs
    <3>1. st.locations[v] <= d /\ st.locations[v] \in Nat
      BY <1>2, ResolvingIs DEF Going, AtMostDue
    <3>2. ASSUME st.status = "reading", complete PROVE st.locations[v] >= d
      <4>1. st.batch = <<>> /\ Tallied(st, m, server)
        BY <3>2 DEF Going
      <4>2. Values(st.batch) = {}
        BY <4>1 DEF Values
      <4>3. v \in DOMAIN st.cache => st.locations[v] = d
        BY <4>1 DEF Tallied
      <4>4. v \notin DOMAIN st.cache => d = 0
        BY <4>1, <4>2 DEF Tallied, Due
      <4> HIDE DEF d
      <4> QED BY <3>0, <3>1, <4>3, <4>4
    <3> HIDE DEF d
    <3>3. st.locations[v] <= 2 * d
      BY <3>0, <3>1
    <3> QED BY <3>1, <3>2, <3>3 DEF d
  <2> QED BY <1>2, <2>1 DEF Sums
<1> QED BY <1>1, <1>2

(* nominatim_resolve_all() gives each address of a column, whatever is in   *)
(* it, as many locations as it is there, for any batch that the server      *)
(* refuses and however the batches are split; those that were sent again at *)
(* the end may have twice as many.                                          *)
THEOREM LocationsAreCounted ==
  ASSUME NEW A, NEW array \in Seq(A), NEW server, server.limit \in Nat,
         MinSplit \in Nat, MinSplit >= 2, BatchSize \in Nat
  PROVE  LocationsCounted(array, server)
<1> DEFINE V == Addresses(array)
           m == Tally(array, Len(array))
           read == LocatedIn(array, server)
           result == ResolveAll(array, server)
           complete == Cardinality(DOMAIN result.cache) < MaxRequests \/ result.batch = <<>>
<1>0. Len(array) \in Nat /\ DOMAIN array = 1 .. Len(array)
  OBVIOUS
<1>1. /\ m \in [V -> Nat]
      /\ \A v \in V : m[v] = Cardinality({i \in DOMAIN array : array[i] = v})
  <2>1. \A v \in V : Occurs(array, v, Len(array)) \in Nat
    BY <1>0, OccursNext
  <2> QED BY <1>0, <2>1 DEF Tally, Occurs
<1>2. read \in Resolving(V) /\ Going(read, m, server)
  BY ReadingEnds
<1>3. result = SendRest(read, server)
  BY ResolvedIs
<1> HIDE DEF V, m, read, result
<1>4. Sums(result, m, server, complete)
  <2>1. CASE read.batch # <<>> /\ Cardinality(DOMAIN read.cache) < MaxRequests /\ read.status = "reading"
    <3>1. result = Batch(read, server)
      BY <1>3, <2>1 DEF SendRest
    <3>2. Sums(result, m, server, TRUE)
      BY <1>1, <1>2, <2>1, <3>1, RestIsSent
    <3> HIDE DEF complete
    <3> QED BY <3>2 DEF Sums
  <2>2. CASE ~ (read.batch # <<>> /\ Cardinality(DOMAIN read.cache) < MaxRequests /\ read.status = "reading")
    <3>1. result = read
      BY <1>3, <2>2 DEF SendRest
    <3>2. read.status = "reading" /\ complete => read.batch = <<>>
      BY <2>2, <3>1
    <3>3. complete \in BOOLEAN
      OBVIOUS
    <3> HIDE DEF complete
    <3> QED BY <1>1, <1>2, <3>1, <3>2, <3>3, RestIsKept
  <2> QED BY <2>1, <2>2
<1>5. \A v \in V : Due(server, v, m[v])
                     = IF v \in server.known \ {Empty, TooLong}
                       THEN Cardinality({i \in DOMAIN array : array[i] = v}) ELSE 0
  BY <1>1 DEF Due, Skipped
<1> HIDE DEF complete
<1>6. IF result.status = "raised" THEN server.broken # {} \/ server.limit < MinSplit
      ELSE \A v \in V :
             /\ result.locations[v]
                  <= IF result.resent
                     THEN 2 * (IF v \in server.known \ {Empty, TooLong}
                               THEN Cardinality({i \in DOMAIN array : array[i] = v}) ELSE 0)
                     ELSE (IF v \in server.known \ {Empty, TooLong}
                           THEN Cardinality({i \in DOMAIN array : array[i] = v}) ELSE 0)
             /\ result.status = "reading" /\ complete
                  => result.locations[v] >= IF v \in server.known \ {Empty, TooLong}
                                            THEN Cardinality({i \in DOMAIN array : array[i] = v}) ELSE 0
  <2>1. DOMAIN m = V
    BY <1>1
  <2> QED BY <1>4, <1>5, <2>1 DEF Sums
<1> QED BY <1>6 DEF LocationsCounted, Addresses, V, complete, result

-----------------------------------------------------------------------------
(* The order of names: a name is before those that it begins, and those     *)
(* with a greater code at the first place where they differ.                *)
Word == Seq(Nat)
Indicators == [source : Nat, name : Word]

LEMMA WordIs ==
  ASSUME NEW a \in Word
  PROVE  Len(a) \in Nat /\ DOMAIN a = 1 .. Len(a) /\ \A i \in DOMAIN a : a[i] \in Nat
BY DEF Word

LEMMA BeforeItself == ASSUME NEW a \in Word PROVE ~ Before(a, a)
<1>1. \A i \in DOMAIN a : a[i] \in Nat
  BY WordIs
<1>2. \A i \in DOMAIN a : ~ (a[i] < a[i])
  BY <1>1
<1> QED BY <1>2 DEF Before

LEMMA BeforeThird ==
  ASSUME NEW a \in Word, NEW b \in Word, NEW c \in Word, Before(a, b), Before(b, c)
  PROVE  Before(a, c)
<1>0. /\ Len(a) \in Nat /\ DOMAIN a = 1 .. Len(a) /\ \A i \in DOMAIN a : a[i] \in Nat
      /\ Len(b) \in Nat /\ DOMAIN b = 1 .. Len(b) /\ \A i \in DOMAIN b : b[i] \in Nat
      /\ Len(c) \in Nat /\ DOMAIN c = 1 .. Len(c) /\ \A i \in DOMAIN c : c[i] \in Nat
  BY WordIs
<1>1. PICK d \in DOMAIN b : /\ \A j \in 1 .. (d - 1) : j \in DOMAIN a /\ a[j] = b[j]
                            /\ d \in DOMAIN a => a[d] < b[d]
  BY DEF Before
<1>2. PICK e \in DOMAIN c : /\ \A j \in 1 .. (e - 1) : j \in DOMAIN b /\ b[j] = c[j]
                            /\ e \in DOMAIN b => b[e] < c[e]
  BY DEF Before
<1>3. d \in Nat /\ e \in Nat /\ d >= 1 /\ e >= 1
  BY <1>0
<1>4. CASE d <= e
  <2>1. d \in DOMAIN c
    BY <1>0, <1>3, <1>4
  <2>2. \A j \in 1 .. (d - 1) : j \in DOMAIN a /\ a[j] = c[j]
    <3>1. \A j \in 1 .. (d - 1) : j \in 1 .. (e - 1)
      BY <1>3, <1>4
    <3> QED BY <1>1, <1>2, <3>1
  <2>3. d \in DOMAIN a => a[d] < c[d]
    <3>1. CASE d = e
      <4>1. b[d] < c[d]
        BY <1>1, <1>2, <3>1
      <4>2. b[d] \in Nat /\ c[d] \in Nat /\ (d \in DOMAIN a => a[d] \in Nat)
        BY <1>0, <2>1
      <4> QED BY <1>1, <4>1, <4>2
    <3>2. CASE d # e
      <4>1. d \in 1 .. (e - 1)
        BY <1>3, <1>4, <3>2
      <4> QED BY <1>1, <1>2, <4>1
    <3> QED BY <3>1, <3>2
  <2> QED BY <2>1, <2>2, <2>3 DEF Before
<1>5. CASE e < d
  <2>1. e \in 1 .. (d - 1)
    BY <1>3, <1>5
  <2>2. e \in DOMAIN a /\ a[e] = b[e]
    BY <1>1, <2>1
  <2>3. e \in DOMAIN b /\ a[e] < c[e]
    <3>1. e \in DOMAIN b
      BY <1>0, <1>3, <1>5
    <3> QED BY <1>2, <2>2, <3>1
  <2>4. \A j \in 1 .. (e - 1) : j \in DOMAIN a /\ a[j] = c[j]
    <3>1. \A j \in 1 .. (e - 1) : j \in 1 .. (d - 1)
      BY <1>3, <1>5
    <3> QED BY <1>1, <1>2, <3>1
  <2> QED BY <2>3, <2>4 DEF Before
<1> QED BY <1>3, <1>4, <1>5

LEMMA BeforeOrAfter ==
  ASSUME NEW a \in Word, NEW b \in Word, a # b
  PROVE  Before(a, b) \/ Before(b, a)
<1> DEFINE S == {i \in Nat : i >= 1 /\ (i \in DOMAIN a /\ i \in DOMAIN b => a[i] # b[i])}
           Differ == {i \in S : i <= Len(a) + 1}
           d == Min(Differ)
<1>0. /\ Len(a) \in Nat /\ DOMAIN a = 1 .. Len(a) /\ \A i \in DOMAIN a : a[i] \in Nat
      /\ Len(b) \in Nat /\ DOMAIN b = 1 .. Len(b) /\ \A i \in DOMAIN b : b[i] \in Nat
  BY WordIs
<1>1. d \in Differ /\ \A i \in Differ : d <= i
  <2>1. Len(a) + 1 \in Differ
    BY <1>0
  <2>2. Differ \subseteq 1 .. (Len(a) + 1) /\ Differ \in SUBSET Nat
    BY <1>0
  <2>3. IsFiniteSet(Differ)
    <3>1. IsFiniteSet(1 .. (Len(a) + 1))
      BY <1>0, FS_Interval
    <3> HIDE DEF Differ
    <3> QED BY <2>2, <3>1, FS_Subset
  <2> HIDE DEF Differ
  <2> QED BY <2>1, <2>2, <2>3, ExtremesExist
<1>2. d \in Nat /\ d >= 1 /\ d <= Len(a) + 1 /\ (d \in DOMAIN a /\ d \in DOMAIN b => a[d] # b[d])
  <2> HIDE DEF d
  <2> QED BY <1>1
<1>3. \A j \in 1 .. (d - 1) : j \in DOMAIN a /\ j \in DOMAIN b /\ a[j] = b[j]
  <2> SUFFICES ASSUME NEW j \in 1 .. (d - 1) PROVE j \in DOMAIN a /\ j \in DOMAIN b /\ a[j] = b[j]
    OBVIOUS
  <2>1. j \in Nat /\ j >= 1 /\ j < d /\ j <= Len(a) + 1
    <3> HIDE DEF d
    <3> QED BY <1>0, <1>2
  <2>2. j \notin Differ
    <3> HIDE DEF d, Differ
    <3> QED BY <1>1, <1>2, <2>1
  <2> HIDE DEF d
  <2> QED BY <2>1, <2>2
<1> HIDE DEF d
<1>4. CASE d \in DOMAIN a /\ d \in DOMAIN b
  <2>1. a[d] < b[d] \/ b[d] < a[d]
    <3>1. a[d] \in Nat /\ b[d] \in Nat /\ a[d] # b[d]
      BY <1>0, <1>2, <1>4
    <3> QED BY <3>1
  <2> QED BY <1>3, <1>4, <2>1 DEF Before
<1>5. CASE d \notin DOMAIN a /\ d \in DOMAIN b
  BY <1>3, <1>5 DEF Before
<1>6. CASE d \in DOMAIN a /\ d \notin DOMAIN b
  BY <1>3, <1>6 DEF Before
<1>7. CASE d \notin DOMAIN a /\ d \notin DOMAIN b
  <2>1. d = Len(a) + 1
    BY <1>0, <1>2, <1>7
  <2>2. Len(b) = Len(a)
    <3>1. Len(b) <= Len(a)
      BY <1>0, <1>7, <2>1
    <3>2. Len(a) >= 1 => Len(a) \in DOMAIN b
      <4> SUFFICES ASSUME Len(a) >= 1 PROVE Len(a) \in DOMAIN b
        OBVIOUS
      <4>1. Len(a) \in 1 .. (d - 1)
        BY <1>0, <2>1
      <4> QED BY <1>3, <4>1
    <3>3. Len(a) \in Nat /\ Len(b) \in Nat /\ DOMAIN b = 1 .. Len(b)
      BY <1>0
    <3>4. Len(a) >= 1 => Len(a) <= Len(b)
      BY <3>2, <3>3
    <3> QED BY <3>1, <3>3, <3>4
  <2>3. \A j \in 1 .. Len(a) : a[j] = b[j]
    <3>1. \A j \in 1 .. Len(a) : j \in 1 .. (d - 1)
      BY <1>0, <2>1
    <3> QED BY <1>3, <3>1
  <2>4. a = b
    <3>1. a \in Seq(Nat) /\ b \in Seq(Nat)
      BY DEF Word
    <3> QED BY <2>2, <2>3, <3>1, SeqEqual
  <2> QED BY <2>4
<1> QED BY <1>4, <1>5, <1>6, <1>7

(* The order in which the variables are read has each once.                 *)
LEMMA OrderedIs ==
  ASSUME NEW W \in SUBSET Indicators, IsFiniteSet(W)
  PROVE  LET n == Cardinality(W)
             s == Ordered(W)
         IN /\ n \in Nat /\ s \in [1 .. n -> W]
            /\ \A i, j \in 1 .. n : i < j => Precedes(s[i], s[j])
            /\ \A v \in W : \E i \in 1 .. n : s[i] = v
<1> DEFINE n == Cardinality(W)
           s == Ordered(W)
           R == {p \in W \X W : Precedes(p[1], p[2])}
<1>0. n \in Nat
  BY FS_CardinalityType
<1>1. \A v, w \in W : <<v, w>> \in R <=> Precedes(v, w)
  OBVIOUS
<1>2. \A v \in W : v.source \in Nat /\ v.name \in Word /\ v = [source |-> v.source, name |-> v.name]
  BY DEF Indicators
<1>3. Orders(R, W)
  <2> HIDE DEF R
  <2>1. ASSUME NEW v \in W, NEW w \in W, v # w PROVE Precedes(v, w) \/ Precedes(w, v)
    <3>1. v.source = w.source => v.name # w.name
      BY <1>2, <2>1
    <3>2. v.source = w.source \/ v.source < w.source \/ w.source < v.source
      BY <1>2
    <3> QED BY <1>2, <3>1, <3>2, BeforeOrAfter DEF Precedes
  <2>2. ASSUME NEW u \in W, NEW v \in W, NEW w \in W, Precedes(u, v), Precedes(v, w)
        PROVE  Precedes(u, w)
    <3>1. u.source \in Nat /\ v.source \in Nat /\ w.source \in Nat
      BY <1>2
    <3>2. CASE u.source = v.source /\ v.source = w.source
      <4>1. Before(u.name, v.name) /\ Before(v.name, w.name)
        BY <2>2, <3>1, <3>2 DEF Precedes
      <4>2. Before(u.name, w.name)
        BY <1>2, <4>1, BeforeThird
      <4> QED BY <3>2, <4>2 DEF Precedes
    <3>3. CASE ~ (u.source = v.source /\ v.source = w.source)
      <4>1. u.source <= v.source /\ v.source <= w.source
        BY <2>2, <3>1 DEF Precedes
      <4> QED BY <3>1, <3>3, <4>1 DEF Precedes
    <3> QED BY <3>2, <3>3
  <2>3. ASSUME NEW v \in W PROVE ~ Precedes(v, v)
    <3>1. v.source \in Nat /\ ~ Before(v.name, v.name)
      BY <1>2, BeforeItself
    <3> QED BY <3>1 DEF Precedes
  <2> QED BY <1>1, <2>1, <2>2, <2>3 DEF Orders
<1>4. \E f \in [1 .. n -> W] : \A i, j \in DOMAIN f : i < j => Precedes(f[i], f[j])
  <2>1. PICK f : InOrder(f, R, W)
    <3> HIDE DEF R
    <3> QED BY <1>3, ListExists
  <2>2. f \in [1 .. n -> W] /\ \A i, j \in 1 .. n : i < j => <<f[i], f[j]>> \in R
    <3> HIDE DEF R
    <3> QED BY <2>1 DEF InOrder
  <2> HIDE DEF R, n
  <2> QED BY <1>1, <2>2
<1>5. s \in [1 .. n -> W] /\ \A i, j \in DOMAIN s : i < j => Precedes(s[i], s[j])
  <2>1. s = CHOOSE f \in [1 .. n -> W] : \A i, j \in DOMAIN f : i < j => Precedes(f[i], f[j])
    BY DEF Ordered
  <2> HIDE DEF s, n
  <2> QED BY <1>4, <2>1
<1> HIDE DEF s
<1>6. \A i, j \in 1 .. n : i < j => Precedes(s[i], s[j])
  BY <1>5
<1>7. InOrder(s, R, W)
  <2> HIDE DEF R
  <2> QED BY <1>1, <1>5, <1>6 DEF InOrder
<1>8. \A v \in W : \E i \in 1 .. n : s[i] = v
  <2> HIDE DEF R
  <2> QED BY <1>3, <1>7, ListHasAll
<1> QED BY <1>0, <1>5, <1>6, <1>8 DEF s

(* A prefix ends before the first comma.                                    *)
LEMMA PrefixIs ==
  ASSUME NEW name \in Word
  PROVE  LET p == Prefix(name)
         IN /\ p \in Word /\ Len(p) \in Nat /\ Len(p) <= Len(name)
            /\ \A j \in 1 .. Len(p) : p[j] = name[j] /\ name[j] # Comma
            /\ Len(p) < Len(name) => name[Len(p) + 1] = Comma
<1> DEFINE commas == {i \in DOMAIN name : name[i] = Comma}
           p == Prefix(name)
<1>0. Len(name) \in Nat /\ DOMAIN name = 1 .. Len(name)
  BY WordIs
<1>1. CASE commas = {}
  <2>1. p = name
    BY <1>1 DEF Prefix
  <2>2. \A j \in 1 .. Len(name) : name[j] # Comma
    BY <1>0, <1>1
  <2> HIDE DEF p
  <2> QED BY <1>0, <2>1, <2>2 DEF p
<1>2. CASE commas # {}
  <2> DEFINE c == Min(commas)
  <2>1. c \in commas /\ \A i \in commas : c <= i
    <3>1. commas \subseteq 1 .. Len(name) /\ commas \in SUBSET Nat
      BY <1>0
    <3>2. IsFiniteSet(commas)
      <4>1. IsFiniteSet(1 .. Len(name))
        BY <1>0, FS_Interval
      <4> HIDE DEF commas
      <4> QED BY <3>1, <4>1, FS_Subset
    <3> HIDE DEF commas
    <3> QED BY <1>2, <3>1, <3>2, ExtremesExist
  <2>2. p = SubSeq(name, 1, c - 1)
    BY <1>2 DEF Prefix
  <2> HIDE DEF c
  <2>3. c \in 1 .. Len(name) /\ name[c] = Comma
    BY <1>0, <2>1
  <2>4. \A j \in 1 .. c - 1 : name[j] # Comma
    <3>1. \A j \in 1 .. c - 1 : j \in DOMAIN name /\ ~ (c <= j)
      BY <1>0, <2>3
    <3> QED BY <2>1, <3>1
  <2>5. name \in Seq(Nat) /\ 1 \in 1 .. Len(name) /\ c - 1 \in 0 .. Len(name)
    BY <1>0, <2>3 DEF Word
  <2>6. /\ p \in Seq(Nat) /\ Len(p) = IF 1 <= c - 1 THEN c - 1 - 1 + 1 ELSE 0
        /\ \A i \in 1 .. Len(p) : p[i] = name[1 + i - 1]
    <3>1. /\ SubSeq(name, 1, c - 1) \in Seq(Nat)
          /\ Len(SubSeq(name, 1, c - 1)) = IF 1 <= c - 1 THEN c - 1 - 1 + 1 ELSE 0
          /\ \A i \in 1 .. Len(SubSeq(name, 1, c - 1)) : SubSeq(name, 1, c - 1)[i] = name[1 + i - 1]
      BY <2>5, PartIs
    <3> HIDE DEF p
    <3> QED BY <2>2, <3>1
  <2> HIDE DEF p
  <2>7. Len(p) = c - 1
    BY <2>3, <2>6
  <2>8. \A i \in 1 .. Len(p) : p[i] = name[i] /\ name[i] # Comma
    <3>1. \A i \in 1 .. Len(p) : 1 + i - 1 = i
      BY <2>3, <2>7
    <3> QED BY <2>4, <2>6, <2>7, <3>1
  <2>9. Len(p) \in Nat /\ Len(p) <= Len(name) /\ Len(p) + 1 = c
    BY <1>0, <2>3, <2>7
  <2> QED BY <2>3, <2>6, <2>8, <2>9 DEF p, Word
<1> QED BY <1>1, <1>2

-----------------------------------------------------------------------------
(* A name between two of the same prefix has another one only if it is      *)
(* longer, with a character that sorts before the comma.                    *)
LEMMA BetweenIs ==
  ASSUME NEW a \in Word, NEW b \in Word, NEW c \in Word, Before(a, b), Before(b, c),
         Prefix(a) = Prefix(c), Prefix(b) # Prefix(a)
  PROVE  /\ IsStrictPrefix(Prefix(a), Prefix(b))
         /\ Prefix(b)[Len(Prefix(a)) + 1] < Comma
<1> DEFINE p == Prefix(a)
           q == Prefix(b)
           n == Len(p)
           k == Len(q)
<1>0. /\ Len(a) \in Nat /\ DOMAIN a = 1 .. Len(a) /\ \A i \in DOMAIN a : a[i] \in Nat
      /\ Len(b) \in Nat /\ DOMAIN b = 1 .. Len(b) /\ \A i \in DOMAIN b : b[i] \in Nat
      /\ Len(c) \in Nat /\ DOMAIN c = 1 .. Len(c) /\ \A i \in DOMAIN c : c[i] \in Nat
  BY WordIs
<1>1. /\ p \in Word /\ n \in Nat /\ n <= Len(a)
      /\ \A j \in 1 .. n : p[j] = a[j] /\ a[j] # Comma
      /\ n < Len(a) => a[n + 1] = Comma
  BY PrefixIs
<1>2. /\ n <= Len(c) /\ \A j \in 1 .. n : p[j] = c[j]
      /\ n < Len(c) => c[n + 1] = Comma
  BY PrefixIs
<1>3. /\ q \in Word /\ k \in Nat /\ k <= Len(b)
      /\ \A j \in 1 .. k : q[j] = b[j] /\ b[j] # Comma
      /\ k < Len(b) => b[k + 1] = Comma
  BY PrefixIs
<1>a. p # q
  OBVIOUS
<1> HIDE DEF p, q, n, k
<1>4. PICK d \in DOMAIN b : /\ \A j \in 1 .. (d - 1) : j \in DOMAIN a /\ a[j] = b[j]
                            /\ d \in DOMAIN a => a[d] < b[d]
  BY DEF Before
<1>5. PICK e \in DOMAIN c : /\ \A j \in 1 .. (e - 1) : j \in DOMAIN b /\ b[j] = c[j]
                            /\ e \in DOMAIN b => b[e] < c[e]
  BY DEF Before
<1>6. d \in Nat /\ e \in Nat /\ d >= 1 /\ e >= 1 /\ d <= Len(b) /\ e <= Len(c)
  BY <1>0
<1>7. n <= Len(b) /\ \A j \in 1 .. n : b[j] = p[j]
  <2>1. CASE n < d
    <3>1. n <= Len(b)
      BY <1>0, <1>1, <1>6, <2>1
    <3>2. \A j \in 1 .. n : j \in 1 .. (d - 1)
      BY <1>1, <1>6, <2>1
    <3> QED BY <1>1, <1>4, <3>1, <3>2
  <2>2. CASE n < e
    <3>1. \A j \in 1 .. n : j \in 1 .. (e - 1)
      BY <1>1, <1>6, <2>2
    <3>2. \A j \in 1 .. n : j \in DOMAIN b /\ b[j] = p[j]
      BY <1>2, <1>5, <3>1
    <3>3. n <= Len(b)
      <4>1. n >= 1 => n \in 1 .. n
        BY <1>1
      <4>2. n >= 1 => n \in 1 .. Len(b)
        BY <1>0, <3>2, <4>1
      <4> QED BY <1>0, <1>1, <4>2
    <3> QED BY <3>2, <3>3
  <2>3. CASE d <= n /\ e <= n
    <3>1. d \in 1 .. n /\ e \in 1 .. n /\ d \in DOMAIN a /\ e \in DOMAIN c
      BY <1>0, <1>1, <1>2, <1>6, <2>3
    <3>2. a[d] = p[d] /\ c[e] = p[e] /\ a[e] = p[e] /\ c[d] = p[d]
      BY <1>1, <1>2, <3>1
    <3>3. a[d] < b[d]
      BY <1>4, <3>1
    <3>4. CASE e <= d
      <4>1. e \in DOMAIN b
        BY <1>0, <1>6, <3>4
      <4>2. b[e] < c[e]
        BY <1>5, <4>1
      <4>3. CASE e = d
        <5>1. a[d] \in Nat /\ b[d] \in Nat /\ a[d] = c[d]
          BY <1>0, <3>1, <3>2
        <5> QED BY <3>3, <4>2, <4>3, <5>1
      <4>4. CASE e < d
        <5>1. e \in 1 .. (d - 1)
          BY <1>6, <4>4
        <5>2. a[e] = b[e] /\ a[e] = c[e] /\ a[e] \in Nat
          BY <1>0, <1>4, <3>2, <5>1
        <5> QED BY <4>2, <5>2
      <4> QED BY <1>6, <3>4, <4>3, <4>4
    <3>5. CASE d < e
      <4>1. d \in 1 .. (e - 1)
        BY <1>6, <3>5
      <4>2. b[d] = c[d]
        BY <1>5, <4>1
      <4>3. a[d] = c[d] /\ a[d] \in Nat
        BY <1>0, <3>1, <3>2
      <4> QED BY <3>3, <4>2, <4>3
    <3> QED BY <1>6, <3>4, <3>5
  <2> QED BY <1>1, <1>6, <2>1, <2>2, <2>3
<1>8. n <= k
  <2>1. CASE k < n
    <3>1. k + 1 \in 1 .. n /\ k < Len(b)
      BY <1>0, <1>1, <1>3, <1>7, <2>1
    <3>2. b[k + 1] = a[k + 1] /\ a[k + 1] # Comma
      BY <1>1, <1>7, <3>1
    <3> QED BY <1>3, <3>1, <3>2
  <2> QED BY <1>1, <1>3, <2>1
<1>9. \A j \in 1 .. n : q[j] = p[j]
  <2>1. \A j \in 1 .. n : j \in 1 .. k
    BY <1>1, <1>3, <1>8
  <2> QED BY <1>3, <1>7, <2>1
<1>10. n < k
  <2>1. CASE n = k
    <3>1. p = q
      <4>1. p \in Seq(Nat) /\ q \in Seq(Nat) /\ Len(p) = Len(q) /\ \A j \in 1 .. Len(p) : p[j] = q[j]
        BY <1>1, <1>3, <1>9, <2>1 DEF Word, n, k
      <4> QED BY <4>1, SeqEqual
    <3> QED BY <1>a, <3>1
  <2> QED BY <1>1, <1>3, <1>8, <2>1
<1>11. IsStrictPrefix(p, q)
  <2>1. SubSeq(q, 1, n) = SubSeq(p, 1, n)
    <3>1. p \in Seq(Nat) /\ q \in Seq(Nat)
      BY <1>1, <1>3 DEF Word
    <3>2. n \in Int /\ 1 \in Int /\ \A i \in 1 .. n : p[i] \in Nat /\ q[i] \in Nat
      <4>1. \A i \in 1 .. n : i \in DOMAIN p /\ i \in DOMAIN q
        <5>1. DOMAIN p = 1 .. Len(p) /\ DOMAIN q = 1 .. Len(q)
          BY <1>1, <1>3, WordIs
        <5> QED BY <1>1, <1>3, <1>8, <5>1 DEF n, k
      <4>2. (\A i \in DOMAIN p : p[i] \in Nat) /\ \A i \in DOMAIN q : q[i] \in Nat
        BY <1>1, <1>3, WordIs
      <4> QED BY <1>1, <4>1, <4>2
    <3> DEFINE s == SubSeq(p, 1, n)
               t == SubSeq(q, 1, n)
    <3>3. /\ s \in Seq(Nat) /\ Len(s) = (IF 1 <= n THEN n - 1 + 1 ELSE 0)
          /\ \A i \in 1 .. n - 1 + 1 : s[i] = p[1 + i - 1]
      BY <3>1, <3>2, SubSeqProperties
    <3>4. /\ t \in Seq(Nat) /\ Len(t) = (IF 1 <= n THEN n - 1 + 1 ELSE 0)
          /\ \A i \in 1 .. n - 1 + 1 : t[i] = q[1 + i - 1]
      BY <3>1, <3>2, SubSeqProperties
    <3> HIDE DEF s, t
    <3>5. Len(s) = Len(t) /\ Len(s) = n
      BY <1>1, <3>3, <3>4
    <3>6. \A i \in 1 .. Len(s) : s[i] = t[i]
      <4>1. \A i \in 1 .. n : 1 + i - 1 = i /\ i \in 1 .. n - 1 + 1
        BY <1>1
      <4> QED BY <1>9, <3>3, <3>4, <3>5, <4>1
    <3>7. s = t
      BY <3>3, <3>4, <3>5, <3>6, SeqEqual
    <3> QED BY <3>7 DEF s, t
  <2> QED BY <1>a, <1>8, <2>1 DEF IsStrictPrefix, IsPrefix, n, k
<1>12. q[n + 1] < Comma
  <2>1. n + 1 \in 1 .. k /\ n + 1 \in DOMAIN b
    BY <1>0, <1>1, <1>3, <1>10
  <2>2. q[n + 1] = b[n + 1] /\ b[n + 1] # Comma /\ b[n + 1] \in Nat
    BY <1>0, <1>3, <2>1
  <2>3. e > n
    <3>1. CASE e <= n
      <4>1. e \in 1 .. n /\ e \in DOMAIN b
        BY <1>0, <1>1, <1>6, <1>7, <3>1
      <4>2. b[e] = c[e] /\ b[e] < c[e] /\ b[e] \in Nat
        BY <1>0, <1>2, <1>5, <1>7, <4>1
      <4> QED BY <4>2
    <3> QED BY <1>1, <1>6, <3>1
  <2>4. n < Len(c) /\ n + 1 \in DOMAIN c
    BY <1>0, <1>1, <1>6, <2>3
  <2>5. c[n + 1] = Comma
    BY <1>2, <2>4
  <2>6. CASE e = n + 1
    <3>1. b[n + 1] < c[n + 1]
      BY <1>5, <2>1, <2>6
    <3> QED BY <2>2, <2>5, <3>1
  <2>7. CASE e # n + 1
    <3>1. n + 1 \in 1 .. (e - 1)
      BY <1>1, <1>6, <2>3, <2>7
    <3>2. b[n + 1] = c[n + 1]
      BY <1>5, <3>1
    <3> QED BY <2>2, <2>5, <3>2
  <2> QED BY <2>6, <2>7
<1> QED BY <1>11, <1>12 DEF p, q, n

-----------------------------------------------------------------------------
(* The datasets, when the variables X were read.                            *)
Datasets(W) == [prefix : Word, source : Nat, variables : Seq(W)]
Members(d) == ToSet(d.variables)
HasKey(d, v) == d.prefix = Prefix(v.name) /\ d.source = v.source
SameKey(d, e) == d.prefix = e.prefix /\ d.source = e.source
Grouped(ds, X) ==
  /\ \A k \in DOMAIN ds : Members(ds[k]) # {} /\ \A v \in Members(ds[k]) : v \in X /\ HasKey(ds[k], v)
  /\ \A v \in X : \E k \in DOMAIN ds : v \in Members(ds[k])
  /\ \A k, l \in DOMAIN ds : k < l =>
       \A v \in Members(ds[k]) : \A w \in Members(ds[l]) : Precedes(v, w)
  /\ \A k \in DOMAIN ds : k + 1 \in DOMAIN ds => ~ SameKey(ds[k], ds[k + 1])

LEMMA Appended ==
  ASSUME NEW D, NEW ds \in Seq(D), NEW d \in D
  PROVE  LET n == Len(ds)
             es == Append(ds, d)
         IN /\ n \in Nat /\ DOMAIN ds = 1 .. n
            /\ es \in Seq(D) /\ Len(es) = n + 1 /\ DOMAIN es = 1 .. n + 1
            /\ \A k \in 1 .. n : es[k] = ds[k]
            /\ es[n + 1] = d
OBVIOUS

LEMMA MembersGrow ==
  ASSUME NEW W, NEW vs \in Seq(W), NEW v \in W
  PROVE  ToSet(Append(vs, v)) = ToSet(vs) \cup {v}
<1> DEFINE n == Len(vs)
           us == Append(vs, v)
<1>1. /\ n \in Nat /\ DOMAIN vs = 1 .. n /\ DOMAIN us = 1 .. n + 1
      /\ \A k \in 1 .. n : us[k] = vs[k]
      /\ us[n + 1] = v
  BY Appended
<1>2. 1 .. n + 1 = (1 .. n) \cup {n + 1}
  BY <1>1
<1> HIDE DEF n, us
<1>3. ToSet(us) \subseteq ToSet(vs) \cup {v}
  BY <1>1, <1>2 DEF ToSet
<1>4. ToSet(vs) \subseteq ToSet(us)
  BY <1>1, <1>2 DEF ToSet
<1>5. v \in ToSet(us)
  BY <1>1, <1>2 DEF ToSet
<1> QED BY <1>3, <1>4, <1>5 DEF us

(* The variable is added to the last dataset.                               *)
LEMMA LastGrows ==
  ASSUME NEW D, NEW ds \in Seq(D), NEW d \in D, NEW e \in D, NEW X, NEW v,
         Grouped(Append(ds, d), X), \A x \in X : Precedes(x, v),
         HasKey(d, v), SameKey(d, e), Members(e) = Members(d) \cup {v}
  PROVE  Grouped(Append(ds, e), X \cup {v})
<1> DEFINE n == Len(ds)
           a == Append(ds, d)
           b == Append(ds, e)
           Y == X \cup {v}
<1>1. /\ n \in Nat /\ DOMAIN a = 1 .. n + 1 /\ DOMAIN b = 1 .. n + 1
      /\ \A k \in 1 .. n : a[k] = ds[k] /\ b[k] = ds[k]
      /\ a[n + 1] = d /\ b[n + 1] = e
  BY Appended
<1> HIDE DEF n, a, b, Y
<1>2. /\ \A k \in 1 .. n : b[k] = a[k]
      /\ \A k \in 1 .. n + 1 : k \in 1 .. n \/ k = n + 1
      /\ n + 1 \in 1 .. n + 1 /\ \A k \in 1 .. n : k \in 1 .. n + 1 /\ k < n + 1
  BY <1>1
<1>3. Grouped(a, X)
  BY DEF a
<1>4. ASSUME NEW k \in DOMAIN b
      PROVE  /\ SameKey(a[k], b[k]) /\ Members(a[k]) \subseteq Members(b[k])
             /\ Members(b[k]) \subseteq Members(a[k]) \cup {v}
             /\ k # n + 1 => Members(b[k]) = Members(a[k])
  <2>1. CASE k \in 1 .. n
    BY <1>2, <2>1 DEF SameKey
  <2>2. CASE k = n + 1
    BY <1>1, <2>2
  <2> QED BY <1>1, <1>2, <2>1, <2>2
<1>5. ASSUME NEW k \in DOMAIN b
      PROVE  Members(b[k]) # {} /\ \A w \in Members(b[k]) : w \in Y /\ HasKey(b[k], w)
  <2>1. k \in DOMAIN a
    BY <1>1
  <2>2. Members(a[k]) # {} /\ \A w \in Members(a[k]) : w \in X /\ HasKey(a[k], w)
    BY <1>3, <2>1 DEF Grouped
  <2>3. Members(b[k]) # {}
    BY <1>4, <2>2
  <2>4. ASSUME NEW w \in Members(b[k]) PROVE w \in Y /\ HasKey(b[k], w)
    <3>1. CASE w \in Members(a[k])
      BY <1>4, <2>2, <3>1 DEF HasKey, SameKey, Y
    <3>2. CASE w \notin Members(a[k])
      <4>1. w = v /\ k = n + 1
        BY <1>4, <2>4, <3>2
      <4> QED BY <1>1, <4>1 DEF HasKey, SameKey, Y
    <3> QED BY <3>1, <3>2
  <2> QED BY <2>3, <2>4
<1>6. ASSUME NEW w \in Y PROVE \E k \in DOMAIN b : w \in Members(b[k])
  <2>1. CASE w \in X
    <3>1. PICK k \in DOMAIN a : w \in Members(a[k])
      BY <1>3, <2>1 DEF Grouped
    <3> QED BY <1>1, <1>4, <3>1
  <2>2. CASE w \notin X
    <3>1. w = v
      BY <2>2 DEF Y
    <3>2. w \in Members(b[n + 1])
      BY <1>1, <3>1
    <3> QED BY <1>1, <1>2, <3>2
  <2> QED BY <2>1, <2>2
<1>7. ASSUME NEW k \in DOMAIN b, NEW l \in DOMAIN b, k < l, NEW u \in Members(b[k]), NEW w \in Members(b[l])
      PROVE  Precedes(u, w)
  <2>1. k \in DOMAIN a /\ l \in DOMAIN a /\ k # n + 1
    BY <1>1, <1>7
  <2>2. u \in Members(a[k])
    BY <1>4, <2>1
  <2>3. CASE w \in Members(a[l])
    BY <1>3, <1>7, <2>1, <2>2, <2>3 DEF Grouped
  <2>4. CASE w \notin Members(a[l])
    <3>1. w = v
      BY <1>4, <2>4
    <3>2. u \in X
      BY <1>3, <2>1, <2>2 DEF Grouped
    <3> QED BY <3>1, <3>2
  <2> QED BY <2>3, <2>4
<1>8. ASSUME NEW k \in DOMAIN b, k + 1 \in DOMAIN b PROVE ~ SameKey(b[k], b[k + 1])
  <2>1. k \in DOMAIN a /\ k + 1 \in DOMAIN a
    BY <1>1, <1>8
  <2>2. ~ SameKey(a[k], a[k + 1])
    BY <1>3, <2>1 DEF Grouped
  <2>3. SameKey(a[k], b[k]) /\ SameKey(a[k + 1], b[k + 1])
    BY <1>4, <1>8
  <2> QED BY <2>2, <2>3 DEF SameKey
<1>9. Grouped(b, Y)
  BY <1>5, <1>6, <1>7, <1>8 DEF Grouped
<1> QED BY <1>9 DEF b, Y

(* The variable begins a dataset.                                           *)
LEMMA OneMoreDataset ==
  ASSUME NEW D, NEW ds \in Seq(D), NEW e \in D, NEW X, NEW v,
         Grouped(ds, X), \A x \in X : Precedes(x, v),
         HasKey(e, v), Members(e) = {v}, ds = <<>> \/ ~ SameKey(ds[Len(ds)], e)
  PROVE  Grouped(Append(ds, e), X \cup {v})
<1> DEFINE n == Len(ds)
           b == Append(ds, e)
           Y == X \cup {v}
<1>1. /\ n \in Nat /\ DOMAIN ds = 1 .. n /\ DOMAIN b = 1 .. n + 1
      /\ \A k \in 1 .. n : b[k] = ds[k]
      /\ b[n + 1] = e
      /\ n # 0 => ~ SameKey(ds[n], e)
  <2>1. ds = <<>> => n = 0
    OBVIOUS
  <2> QED BY <2>1, Appended
<1> HIDE DEF n, b, Y
<1>2. /\ \A k \in 1 .. n + 1 : k \in 1 .. n \/ k = n + 1
      /\ n + 1 \in 1 .. n + 1 /\ \A k \in 1 .. n : k \in 1 .. n + 1 /\ k < n + 1
  BY <1>1
<1>5. ASSUME NEW k \in DOMAIN b
      PROVE  Members(b[k]) # {} /\ \A w \in Members(b[k]) : w \in Y /\ HasKey(b[k], w)
  <2>1. CASE k \in 1 .. n
    BY <1>1, <2>1 DEF Grouped, Y
  <2>2. CASE k = n + 1
    BY <1>1, <2>2 DEF Y
  <2> QED BY <1>1, <1>2, <2>1, <2>2
<1>6. ASSUME NEW w \in Y PROVE \E k \in DOMAIN b : w \in Members(b[k])
  <2>1. CASE w \in X
    <3>1. PICK k \in DOMAIN ds : w \in Members(ds[k])
      BY <2>1 DEF Grouped
    <3> QED BY <1>1, <1>2, <3>1
  <2>2. CASE w \notin X
    BY <1>1, <1>2, <2>2 DEF Y
  <2> QED BY <2>1, <2>2
<1>7. ASSUME NEW k \in DOMAIN b, NEW l \in DOMAIN b, k < l, NEW u \in Members(b[k]), NEW w \in Members(b[l])
      PROVE  Precedes(u, w)
  <2>1. k \in 1 .. n
    BY <1>1, <1>7
  <2>2. u \in Members(ds[k])
    BY <1>1, <2>1
  <2>3. CASE l \in 1 .. n
    BY <1>1, <1>7, <2>1, <2>2, <2>3 DEF Grouped
  <2>4. CASE l = n + 1
    <3>1. w = v
      BY <1>1, <2>4
    <3>2. u \in X
      BY <1>1, <2>1, <2>2 DEF Grouped
    <3> QED BY <3>1, <3>2
  <2> QED BY <1>1, <1>2, <2>3, <2>4
<1>8. ASSUME NEW k \in DOMAIN b, k + 1 \in DOMAIN b PROVE ~ SameKey(b[k], b[k + 1])
  <2>1. k \in 1 .. n
    BY <1>1, <1>8
  <2>2. CASE k = n
    <3>1. b[k] = ds[n] /\ b[k + 1] = e /\ n # 0
      BY <1>1, <2>1, <2>2
    <3> QED BY <1>1, <3>1
  <2>3. CASE k # n
    <3>1. k + 1 \in 1 .. n
      BY <1>1, <2>1, <2>3
    <3>2. b[k] = ds[k] /\ b[k + 1] = ds[k + 1] /\ k \in DOMAIN ds /\ k + 1 \in DOMAIN ds
      BY <1>1, <2>1, <3>1
    <3> QED BY <3>2 DEF Grouped
  <2> QED BY <2>2, <2>3
<1>9. Grouped(b, Y)
  BY <1>5, <1>6, <1>7, <1>8 DEF Grouped
<1> QED BY <1>9 DEF b, Y

-----------------------------------------------------------------------------
(* The loop over the variables, and the datasets after it.                  *)
Seeing(W) == [prefix : Word, source : Nat, variables : Seq(W), made : Seq(Datasets(W))]
Made(st) == IF st.variables = <<>> THEN <<>> ELSE Append(st.made, Dataset(st))
Nothing == [prefix |-> <<>>, source |-> 0, variables |-> <<>>, made |-> <<>>]
Continued(st, v) == Prefix(v.name) = st.prefix /\ v.source = st.source

LEMMA DatasetIs ==
  ASSUME NEW W, NEW st \in Seeing(W)
  PROVE  /\ st.prefix \in Word /\ st.source \in Nat /\ st.variables \in Seq(W) /\ st.made \in Seq(Datasets(W))
         /\ Dataset(st) \in Datasets(W) /\ Members(Dataset(st)) = ToSet(st.variables)
         /\ Dataset(st).prefix = st.prefix /\ Dataset(st).source = st.source
BY DEF Seeing, Dataset, Datasets, Members

LEMMA ReadVariableIs ==
  ASSUME NEW W \in SUBSET Indicators, NEW st \in Seeing(W), NEW v \in W
  PROVE  LET next == ReadVariable(st, v)
         IN /\ next \in Seeing(W) /\ HasKey(Dataset(next), v)
            /\ st.variables = <<>> \/ Continued(st, v)
                 => next.variables = Append(st.variables, v) /\ next.made = st.made
            /\ ~ (st.variables = <<>> \/ Continued(st, v))
                 => next.variables = <<v>> /\ next.made = Append(st.made, Dataset(st))
<1> DEFINE p == Prefix(v.name)
           next == ReadVariable(st, v)
<1>1. v.source \in Nat /\ v.name \in Word
  BY DEF Indicators
<1>2. p \in Word
  BY <1>1, PrefixIs
<1>3. /\ st.prefix \in Word /\ st.source \in Nat /\ st.variables \in Seq(W) /\ st.made \in Seq(Datasets(W))
      /\ Dataset(st) \in Datasets(W)
  BY DatasetIs
<1>4. CASE st.variables = <<>> \/ Continued(st, v)
  <2>1. next = [st EXCEPT !.prefix = p, !.source = v.source, !.variables = Append(@, v)]
    BY <1>4 DEF ReadVariable, Continued
  <2> DEFINE vs == Append(st.variables, v)
  <2>2. vs \in Seq(W)
    BY <1>3
  <2> HIDE DEF p, next, vs
  <2>3. next = [prefix |-> p, source |-> v.source, variables |-> vs, made |-> st.made]
    BY <2>1 DEF Seeing, vs
  <2>4. next \in Seeing(W)
    BY <1>1, <1>2, <1>3, <2>2, <2>3 DEF Seeing
  <2>5. next.variables = vs /\ next.made = st.made /\ HasKey(Dataset(next), v)
    BY <2>3 DEF HasKey, Dataset, p
  <2> QED BY <1>4, <2>4, <2>5 DEF next, vs
<1>5. CASE ~ (st.variables = <<>> \/ Continued(st, v))
  <2> DEFINE made == Append(st.made, Dataset(st))
  <2>1. next = [prefix |-> p, source |-> v.source, variables |-> <<v>>, made |-> made]
    BY <1>5 DEF ReadVariable, Continued
  <2>2. <<v>> \in Seq(W)
    OBVIOUS
  <2>3. made \in Seq(Datasets(W))
    <3> DEFINE D == Datasets(W)
    <3>1. st.made \in Seq(D) /\ Dataset(st) \in D
      BY <1>3
    <3> HIDE DEF D
    <3>2. made \in Seq(D)
      BY <3>1
    <3> QED BY <3>2 DEF D
  <2> HIDE DEF p, next, made
  <2>4. next \in Seeing(W)
    BY <1>1, <1>2, <2>1, <2>2, <2>3 DEF Seeing
  <2>5. next.variables = <<v>> /\ next.made = made /\ HasKey(Dataset(next), v)
    BY <2>1 DEF HasKey, Dataset, p
  <2> QED BY <1>5, <2>4, <2>5 DEF next, made
<1> QED BY <1>4, <1>5

(* What is known of the datasets after every variable.                      *)
GroupedSoFar(st, X) == Grouped(Made(st), X) /\ (st.variables = <<>> => st.made = <<>>)

LEMMA ReadVariableGroups ==
  ASSUME NEW W \in SUBSET Indicators, NEW st \in Seeing(W), NEW v \in W,
         NEW X, GroupedSoFar(st, X), \A x \in X : Precedes(x, v)
  PROVE  GroupedSoFar(ReadVariable(st, v), X \cup {v})
<1> DEFINE next == ReadVariable(st, v)
           D == Datasets(W)
           d == Dataset(st)
           e == Dataset(next)
<1>1. /\ next \in Seeing(W) /\ HasKey(e, v)
      /\ st.variables = <<>> \/ Continued(st, v)
           => next.variables = Append(st.variables, v) /\ next.made = st.made
      /\ ~ (st.variables = <<>> \/ Continued(st, v))
           => next.variables = <<v>> /\ next.made = Append(st.made, d)
  BY ReadVariableIs
<1> HIDE DEF next
<1>2. /\ st.variables \in Seq(W) /\ st.made \in Seq(D)
      /\ d \in D /\ Members(d) = ToSet(st.variables)
      /\ d.prefix = st.prefix /\ d.source = st.source
  BY DatasetIs
<1>3. e \in D /\ Members(e) = ToSet(next.variables)
  BY <1>1, DatasetIs
<1> HIDE DEF D, d, e
<1>4. ToSet(Append(st.variables, v)) = ToSet(st.variables) \cup {v} /\ Append(st.variables, v) # <<>>
  <2>1. ToSet(Append(st.variables, v)) = ToSet(st.variables) \cup {v}
    BY <1>2, MembersGrow
  <2>2. Append(st.variables, v) # <<>>
    BY <1>2
  <2> QED BY <2>1, <2>2
<1>5. ToSet(<<>>) = {}
  BY DEF ToSet
<1>6. <<v>> # <<>> /\ ToSet(<<v>>) = {v}
  <2>1. <<v>> # <<>> /\ DOMAIN <<v>> = {1} /\ <<v>>[1] = v
    OBVIOUS
  <2> QED BY <2>1 DEF ToSet
<1>7. CASE st.variables = <<>>
  <2>1. next.variables = Append(st.variables, v) /\ next.made = <<>> /\ Members(e) = {v}
    BY <1>1, <1>3, <1>4, <1>5, <1>7 DEF GroupedSoFar
  <2>2. Made(next) = Append(<<>>, e) /\ next.variables # <<>>
    BY <1>4, <2>1 DEF Made, e
  <2>3. Grouped(<<>>, X)
    BY <1>7 DEF GroupedSoFar, Made
  <2>4. <<>> \in Seq(D)
    OBVIOUS
  <2>5. Grouped(Append(<<>>, e), X \cup {v})
    BY <1>1, <1>3, <2>1, <2>3, <2>4, OneMoreDataset
  <2> QED BY <2>2, <2>5 DEF GroupedSoFar, next
<1>8. CASE st.variables # <<>> /\ Continued(st, v)
  <2>1. next.variables = Append(st.variables, v) /\ next.made = st.made /\ Members(e) = Members(d) \cup {v}
    BY <1>1, <1>2, <1>3, <1>4, <1>8
  <2>2. Made(next) = Append(st.made, e) /\ next.variables # <<>>
    BY <1>4, <2>1 DEF Made, e
  <2>3. Grouped(Append(st.made, d), X)
    BY <1>8 DEF GroupedSoFar, Made, d
  <2>4. HasKey(d, v) /\ SameKey(d, e)
    BY <1>1, <1>2, <1>8 DEF HasKey, SameKey, Continued
  <2>5. Grouped(Append(st.made, e), X \cup {v})
    BY <1>2, <1>3, <2>1, <2>3, <2>4, LastGrows
  <2> QED BY <2>2, <2>5 DEF GroupedSoFar, next
<1>9. CASE st.variables # <<>> /\ ~ Continued(st, v)
  <2> DEFINE ds == Append(st.made, d)
  <2>1. next.variables = <<v>> /\ next.made = ds /\ Members(e) = {v}
    BY <1>1, <1>3, <1>6, <1>9
  <2>2. Made(next) = Append(ds, e) /\ next.variables # <<>>
    BY <1>6, <2>1 DEF Made, e
  <2>3. Grouped(ds, X)
    BY <1>9 DEF GroupedSoFar, Made, d
  <2>4. ds \in Seq(D) /\ ds[Len(ds)] = d
    <3>1. /\ Len(st.made) \in Nat /\ ds \in Seq(D) /\ Len(ds) = Len(st.made) + 1
          /\ ds[Len(st.made) + 1] = d
      BY <1>2, Appended
    <3> HIDE DEF ds
    <3> QED BY <3>1
  <2>5. ~ SameKey(d, e)
    BY <1>1, <1>2, <1>9 DEF HasKey, SameKey, Continued
  <2> HIDE DEF ds
  <2>6. Grouped(Append(ds, e), X \cup {v})
    BY <1>1, <1>3, <2>1, <2>3, <2>4, <2>5, OneMoreDataset
  <2> QED BY <2>2, <2>6 DEF GroupedSoFar, next
<1> QED BY <1>7, <1>8, <1>9

ReadsAll(it, s) ==
  it = [S \in SUBSET (DOMAIN s) |-> IF S = {} THEN Nothing ELSE ReadVariable(it[S \ {Max(S)}], s[Max(S)])]
SeenIn(s) == FoldLeft(ReadVariable, Nothing, s)
LEMMA SeenIs == ASSUME NEW s PROVE SeenIn(s) = (CHOOSE it : ReadsAll(it, s))[DOMAIN s]
BY DEF SeenIn, FoldLeft, MapThenFoldSet, Max, ReadsAll

LEMMA DiscoveredMade == ASSUME NEW W PROVE DiscoverIndicators(W) = Made(SeenIn(Ordered(W)))
BY DEF DiscoverIndicators, Made, SeenIn, Nothing, Dataset

-----------------------------------------------------------------------------
LEMMA VariableReadings ==
  ASSUME NEW W \in SUBSET Indicators, NEW n \in Nat, NEW s \in [1 .. n -> W]
  PROVE  \E r \in [0 .. n -> Seeing(W)] :
           /\ r[0] = Nothing
           /\ \A i \in 1 .. n : r[i] = ReadVariable(r[i - 1], s[i])
           /\ SeenIn(s) = r[n]
<1> DEFINE S0 == Seeing(W)
           F == [p \in (1 .. n) \X S0 |-> ReadVariable(p[2], s[p[1]])]
           it == CHOOSE h : ReadsAll(h, s)
<1>0. DOMAIN s = 1 .. n /\ Nothing \in S0 /\ \A i \in 1 .. n : s[i] \in W
  <2>1. /\ <<>> \in Word /\ <<>> \in Seq(W) /\ <<>> \in Seq(Datasets(W)) /\ 0 \in Nat
    BY DEF Word
  <2>2. Nothing \in S0
    BY <2>1 DEF Nothing, Seeing
  <2> QED BY <2>2
<1>1. ASSUME NEW i \in 1 .. n, NEW st \in S0
      PROVE  F[<<i, st>>] = ReadVariable(st, s[i]) /\ ReadVariable(st, s[i]) \in S0
  <2>1. s[i] \in W
    BY <1>0
  <2> QED BY <2>1, ReadVariableIs
<1>2. F \in [(1 .. n) \X S0 -> S0]
  <2>1. \A p \in (1 .. n) \X S0 : ReadVariable(p[2], s[p[1]]) \in S0
    <3> HIDE DEF S0, F
    <3> QED BY <1>1
  <2> QED BY <2>1
<1>3. ReadsAll(it, s)
  <2>1. PICK h : Computes(h, n, S0, Nothing, F)
    <3> HIDE DEF F
    <3> QED BY <1>0, <1>2, FoldIsDefined
  <2>2. ReadsAll(h, s)
    <3>1. \A S \in SUBSET (1 .. n) : S # {} => h[S] = ReadVariable(h[S \ {Max(S)}], s[Max(S)])
      <4> HIDE DEF F, S0
      <4> QED BY <1>1, <2>1 DEF Computes
    <3>2. h = [S \in SUBSET (1 .. n) |->
                 IF S = {} THEN Nothing ELSE ReadVariable(h[S \ {Max(S)}], s[Max(S)])]
      <4> HIDE DEF S0
      <4> QED BY <2>1, <3>1 DEF Computes
    <3> QED BY <1>0, <3>2 DEF ReadsAll
  <2> QED BY <2>2
<1>4. Follows(it, n, S0, Nothing, F)
  <2> HIDE DEF it
  <2>1. it = [S \in SUBSET (1 .. n) |->
                IF S = {} THEN Nothing ELSE ReadVariable(it[S \ {Max(S)}], s[Max(S)])]
    BY <1>0, <1>3 DEF ReadsAll
  <2>2. /\ it[{}] = Nothing
        /\ \A S \in SUBSET (1 .. n) : S # {} => it[S] = ReadVariable(it[S \ {Max(S)}], s[Max(S)])
        /\ it = [S \in SUBSET (1 .. n) |-> it[S]]
    BY <2>1
  <2>3. \A S \in SUBSET (1 .. n) :
          S # {} /\ Max(S) \in 1 .. n /\ it[S \ {Max(S)}] \in S0
            => it[S] = F[<<Max(S), it[S \ {Max(S)}]>>]
    <3> HIDE DEF F, S0
    <3> QED BY <1>1, <2>2
  <2> QED BY <2>2, <2>3 DEF Follows
<1>5. PICK r : Leads(r, n, S0, Nothing, F, it[1 .. n])
  <2> HIDE DEF F, it
  <2> QED BY <1>0, <1>2, <1>4, FoldLeads
<1>6. ASSUME NEW i \in 1 .. n PROVE r[i] = ReadVariable(r[i - 1], s[i])
  <2>1. i - 1 \in 0 .. n
    OBVIOUS
  <2>2. r[i - 1] \in S0
    <3> HIDE DEF S0
    <3> QED BY <1>5, <2>1 DEF Leads
  <2> HIDE DEF F, S0
  <2> QED BY <1>1, <1>5, <2>2 DEF Leads
<1>7. SeenIn(s) = r[n]
  BY <1>0, <1>5, SeenIs DEF Leads
<1> QED BY <1>5, <1>6, <1>7 DEF Leads

(* The datasets group the variables.                                        *)
LEMMA DiscoveredGroups ==
  ASSUME NEW W \in SUBSET Indicators, IsFiniteSet(W)
  PROVE  DiscoverIndicators(W) \in Seq(Datasets(W)) /\ Grouped(DiscoverIndicators(W), W)
<1> DEFINE n == Cardinality(W)
           s == Ordered(W)
<1>1. /\ n \in Nat /\ s \in [1 .. n -> W]
      /\ \A i, j \in 1 .. n : i < j => Precedes(s[i], s[j])
      /\ \A v \in W : \E i \in 1 .. n : s[i] = v
  BY OrderedIs
<1>0. DiscoverIndicators(W) = Made(SeenIn(s))
  BY DiscoveredMade
<1> HIDE DEF n, s
<1>2. PICK r \in [0 .. n -> Seeing(W)] :
        /\ r[0] = Nothing
        /\ \A i \in 1 .. n : r[i] = ReadVariable(r[i - 1], s[i])
        /\ SeenIn(s) = r[n]
  BY <1>1, VariableReadings
<1> DEFINE X(i) == {s[j] : j \in 1 .. i}
           M == {i \in Nat : i <= n => GroupedSoFar(r[i], X(i))}
<1>3. 0 \in M
  <2>1. X(0) = {}
    OBVIOUS
  <2>2. Nothing.variables = <<>> /\ Nothing.made = <<>> /\ Made(Nothing) = <<>>
    BY DEF Nothing, Made
  <2>3. Grouped(<<>>, {})
    BY DEF Grouped
  <2>4. GroupedSoFar(r[0], X(0))
    BY <1>2, <2>1, <2>2, <2>3 DEF GroupedSoFar
  <2> HIDE DEF X
  <2> QED BY <2>4
<1>4. ASSUME NEW i \in 0 .. n - 1, i \in M PROVE i + 1 \in M
  <2>1. i \in 0 .. n /\ i + 1 \in 1 .. n /\ (i + 1) - 1 = i /\ i + 1 \in Nat /\ i <= n
    BY <1>1
  <2>2. GroupedSoFar(r[i], X(i))
    <3> HIDE DEF X
    <3> QED BY <1>4, <2>1
  <2>3. r[i] \in Seeing(W) /\ s[i + 1] \in W /\ r[i + 1] = ReadVariable(r[i], s[i + 1])
    BY <1>1, <1>2, <2>1
  <2>4. \A x \in X(i) : Precedes(x, s[i + 1])
    <3>1. ASSUME NEW j \in 1 .. i PROVE Precedes(s[j], s[i + 1])
      <4>1. j \in 1 .. n /\ j < i + 1
        BY <1>1, <2>1
      <4> QED BY <1>1, <2>1, <4>1
    <3> QED BY <3>1
  <2>5. X(i + 1) = X(i) \cup {s[i + 1]}
    <3>1. 1 .. i + 1 = (1 .. i) \cup {i + 1}
      BY <2>1
    <3> QED BY <3>1
  <2> HIDE DEF X
  <2>6. GroupedSoFar(r[i + 1], X(i + 1))
    <3>1. GroupedSoFar(ReadVariable(r[i], s[i + 1]), X(i) \cup {s[i + 1]})
      BY <2>2, <2>3, <2>4, ReadVariableGroups
    <3> QED BY <2>3, <2>5, <3>1
  <2> QED BY <2>1, <2>6
<1>5. n \in M
  <2>1. M \in SUBSET Nat
    OBVIOUS
  <2> HIDE DEF M
  <2>2. 0 .. n \subseteq M
    BY <1>1, <1>3, <1>4, <2>1, StepInduction
  <2> QED BY <1>1, <2>2
<1>6. GroupedSoFar(r[n], X(n))
  <2> HIDE DEF X
  <2> QED BY <1>1, <1>5
<1>7. X(n) = W
  BY <1>1
<1>8. Grouped(DiscoverIndicators(W), W)
  <2> HIDE DEF X
  <2> QED BY <1>0, <1>2, <1>6, <1>7 DEF GroupedSoFar
<1>9. Made(r[n]) \in Seq(Datasets(W))
  <2>1. r[n] \in Seeing(W)
    BY <1>1, <1>2
  <2>2. r[n].made \in Seq(Datasets(W)) /\ Dataset(r[n]) \in Datasets(W)
    BY <2>1, DatasetIs
  <2> DEFINE D == Datasets(W)
  <2>3. r[n].made \in Seq(D) /\ Dataset(r[n]) \in D
    BY <2>2
  <2> HIDE DEF D
  <2>4. Append(r[n].made, Dataset(r[n])) \in Seq(D) /\ <<>> \in Seq(D)
    BY <2>3
  <2>5. Made(r[n]) \in Seq(D)
    BY <2>4 DEF Made
  <2> QED BY <2>5 DEF D
<1> QED BY <1>0, <1>2, <1>8, <1>9

(* Every variable is in the dataset of its prefix, of those made last,      *)
(* unless a name between two of the same prefix splits it.                  *)
THEOREM IndicatorsAreKept ==
  ASSUME NEW W \in SUBSET Indicators, IsFiniteSet(W)
  PROVE  IndicatorsKept(W)
<1> DEFINE made == DiscoverIndicators(W)
<1>1. made \in Seq(Datasets(W)) /\ Grouped(made, W)
  BY DiscoveredGroups
<1>2. Len(made) \in Nat /\ DOMAIN made = 1 .. Len(made)
  BY <1>1
<1>3. /\ \A k \in DOMAIN made : Members(made[k]) # {} /\ \A v \in Members(made[k]) : v \in W /\ HasKey(made[k], v)
      /\ \A v \in W : \E k \in DOMAIN made : v \in Members(made[k])
      /\ \A k, l \in DOMAIN made : k < l =>
           \A v \in Members(made[k]) : \A w \in Members(made[l]) : Precedes(v, w)
      /\ \A k \in DOMAIN made : k + 1 \in DOMAIN made => ~ SameKey(made[k], made[k + 1])
  BY <1>1 DEF Grouped
<1> HIDE DEF made
<1>4. ASSUME NEW v \in W
      PROVE  v \in ToSet(Stored(made, Prefix(v.name), v.source)) \/ Splits(W, v)
  <2> DEFINE same == {k \in DOMAIN made : made[k].prefix = Prefix(v.name) /\ made[k].source = v.source}
             m == Max(same)
  <2>1. PICK k \in DOMAIN made : v \in Members(made[k])
    BY <1>3
  <2>2. HasKey(made[k], v)
    BY <1>3, <2>1
  <2>3. k \in same
    BY <2>2 DEF HasKey
  <2>4. m \in same /\ \A l \in same : l <= m
    <3>1. same \in SUBSET Nat /\ same \subseteq 1 .. Len(made) /\ same # {}
      BY <1>2, <2>3
    <3>2. IsFiniteSet(same)
      <4>1. IsFiniteSet(1 .. Len(made))
        BY <1>2, FS_Interval
      <4> HIDE DEF same
      <4> QED BY <3>1, <4>1, FS_Subset
    <3> HIDE DEF same
    <3> QED BY <3>1, <3>2, ExtremesExist
  <2>5. Stored(made, Prefix(v.name), v.source) = made[m].variables
    BY <2>3 DEF Stored
  <2>6. m \in DOMAIN made /\ HasKey(made[m], v) /\ k <= m
    <3>1. m \in DOMAIN made /\ HasKey(made[m], v)
      <4> HIDE DEF m
      <4> QED BY <2>4 DEF HasKey
    <3> HIDE DEF m, same
    <3> QED BY <2>3, <2>4, <3>1
  <2> HIDE DEF m, same
  <2>7. CASE k = m
    BY <2>1, <2>5, <2>7 DEF Members
  <2>8. CASE k # m
    <3>1. /\ k \in Nat /\ m \in Nat /\ k < m /\ k + 1 \in DOMAIN made /\ k < k + 1
      BY <1>2, <2>1, <2>6, <2>8
    <3>2. ~ SameKey(made[k], made[k + 1])
      BY <1>3, <3>1
    <3>3. SameKey(made[k], made[m])
      BY <2>2, <2>6 DEF HasKey, SameKey
    <3>4. k + 1 < m
      <4>1. k + 1 # m
        BY <3>2, <3>3
      <4> QED BY <3>1, <4>1
    <3>5. PICK w \in Members(made[k + 1]) : TRUE
      BY <1>3, <3>1
    <3>6. PICK u \in Members(made[m]) : TRUE
      BY <1>3, <2>6
    <3>7. Precedes(v, w) /\ Precedes(w, u)
      BY <1>3, <2>1, <2>6, <3>1, <3>4, <3>5, <3>6
    <3>8. w \in W /\ u \in W /\ HasKey(made[k + 1], w) /\ HasKey(made[m], u)
      BY <1>3, <2>6, <3>1, <3>5, <3>6
    <3>9. /\ v.source \in Nat /\ w.source \in Nat /\ u.source \in Nat
          /\ v.name \in Word /\ w.name \in Word /\ u.name \in Word
      BY <3>8 DEF Indicators
    <3>10. u.source = v.source /\ Prefix(u.name) = Prefix(v.name)
      BY <2>6, <3>8 DEF HasKey
    <3>11. w.source = v.source
      BY <3>7, <3>9, <3>10 DEF Precedes
    <3>12. Prefix(w.name) # Prefix(v.name)
      BY <2>2, <3>2, <3>8, <3>11 DEF HasKey, SameKey
    <3>13. Before(v.name, w.name) /\ Before(w.name, u.name)
      BY <3>7, <3>9, <3>10, <3>11 DEF Precedes
    <3>14. /\ IsStrictPrefix(Prefix(v.name), Prefix(w.name))
           /\ Prefix(w.name)[Len(Prefix(v.name)) + 1] < Comma
      BY <3>9, <3>10, <3>12, <3>13, BetweenIs
    <3>15. Splits(W, v)
      BY <3>8, <3>11, <3>14 DEF Splits
    <3> QED BY <3>15
  <2> QED BY <2>7, <2>8
<1>5. ASSUME NEW v \in W, NEW k \in DOMAIN made, v \in ToSet(made[k].variables)
      PROVE  made[k].prefix = Prefix(v.name) /\ made[k].source = v.source
  <2>1. v \in Members(made[k])
    BY <1>5 DEF Members
  <2>2. HasKey(made[k], v)
    BY <1>3, <2>1
  <2> QED BY <2>2 DEF HasKey
<1> QED BY <1>4, <1>5 DEF IndicatorsKept, made

-----------------------------------------------------------------------------
(* What the run asks of the services.                                       *)
LEMMA AddressesAsked ==
  ASSUME ResolveAddresses
  PROVE  \E A, server : \E array \in Seq(A) :
           server.limit \in Nat /\ input' = [of |-> "addresses", array |-> array, server |-> server]
<1> DEFINE A == {"a", "b", "c", "d", Empty, TooLong}
<1>1. PICK array \in UpTo(A, 5),
           server \in [known : {{"a", "c"}, {"a", "b", "c", "d"}}, limit : {1, 2}, broken : {{}, {"b"}}] :
        input' = [of |-> "addresses", array |-> array, server |-> server]
  BY ZenonT(20) DEF ResolveAddresses
<1>2. server.limit \in {1, 2}
  BY <1>1
<1>3. array \in Seq(A)
  <2> HIDE DEF A
  <2> QED BY <1>1, UpToAre
<1> HIDE DEF A
<1> QED BY <1>1, <1>2, <1>3

LEMMA PagesAsked ==
  ASSUME DownloadPages
  PROVE  \E data \in Seq(Nat), answers \in Answers :
           input' = [of |-> "pages", data |-> data, answers |-> answers]
<1>1. PICK n \in 0 .. 5 : \E answers \in UpTo([kind : {"fails", "breaks", "empty"}, count : {0}]
                                              \cup [kind : {"page"}, count : {2, n, n + 1}], 5) :
        input' = [of |-> "pages", data |-> [i \in 1 .. n |-> i], answers |-> answers]
  BY ZenonT(20) DEF DownloadPages
<1> DEFINE A == [kind : {"fails", "breaks", "empty"}, count : {0}] \cup [kind : {"page"}, count : {2, n, n + 1}]
<1>2. PICK answers \in UpTo(A, 5) :
        input' = [of |-> "pages", data |-> [i \in 1 .. n |-> i], answers |-> answers]
  BY <1>1
<1>3. [i \in 1 .. n |-> i] \in Seq(Nat)
  OBVIOUS
<1>4. A \subseteq ApiAnswer
  BY DEF ApiAnswer
<1>5. answers \in Answers
  <2> HIDE DEF A
  <2>1. answers \in Seq(A)
    BY <1>2, UpToAre
  <2> QED BY <1>4, <2>1 DEF Answers
<1> HIDE DEF A
<1> QED BY <1>2, <1>3, <1>5

LEMMA AveragesAsked ==
  ASSUME AverageDates
  PROVE  \E data \in Measures : input' = [of |-> "averages", data |-> data]
<1> DEFINE S == [date : 1 .. 3, value : 1 .. 2]
<1>1. PICK data \in UpTo(S, 4) : input' = [of |-> "averages", data |-> data]
  BY ZenonT(20) DEF AverageDates
<1>2. S \subseteq Measure
  BY DEF Measure
<1>3. data \in Seq(S)
  <2> HIDE DEF S
  <2> QED BY <1>1, UpToAre
<1>4. data \in Measures
  <2> HIDE DEF S
  <2> QED BY <1>2, <1>3 DEF Measures
<1> HIDE DEF S
<1> QED BY <1>1, <1>4

LEMMA YearsAsked ==
  ASSUME MakeYears
  PROVE  \E years \in {1, 5, 10}, start \in Nat, end \in Nat :
           input' = [of |-> "years", start |-> start, end |-> end, years |-> years]
<1>1. PICK start \in 1 .. 20, length \in 0 .. 15, years \in {1, 5, 10} :
        input' = [of |-> "years", start |-> start, end |-> start + length, years |-> years]
  BY ZenonT(20) DEF MakeYears
<1>2. start \in Nat /\ start + length \in Nat
  OBVIOUS
<1> QED BY <1>1, <1>2

LEMMA SeriesAsked ==
  ASSUME DiscoverSeries
  PROVE  \E N : \E D \in SUBSET Series(N) : \E stations \in [D -> SUBSET Stations] :
           /\ \A series \in D : IsFiniteSet(stations[series])
           /\ input' = [of |-> "series", stations |-> stations]
<1> DEFINE D == {"GSOM", "GHCND"} \X {"TAVG"} \X {"c1", "c2"}
           N == {"GSOM", "GHCND", "TAVG", "c1", "c2"}
           S == [mindate : {1}, maxdate : {3, 10}] \cup [mindate : {7}, maxdate : {12}]
           x == [mindate |-> 1, maxdate |-> 3]
           y == [mindate |-> 1, maxdate |-> 10]
           z == [mindate |-> 7, maxdate |-> 12]
<1>1. PICK stations \in [D -> SUBSET S] : input' = [of |-> "series", stations |-> stations]
  BY ZenonT(20) DEF DiscoverSeries
<1>2. S \subseteq {x, y, z} /\ S \subseteq Stations
  BY DEF Stations
<1>3. IsFiniteSet({x, y, z})
  <2> HIDE DEF x, y, z
  <2> QED BY TripleFinite
<1>4. D \subseteq Series(N)
  <2>1. ASSUME NEW a \in {"GSOM", "GHCND"}, NEW b \in {"TAVG"}, NEW c \in {"c1", "c2"}
        PROVE  <<a, b, c>> \in Series(N)
    <3>1. a \in N /\ b \in N /\ c \in N
      OBVIOUS
    <3> HIDE DEF N
    <3> QED BY <3>1 DEF Series
  <2>2. \A s \in D : \E a \in {"GSOM", "GHCND"}, b \in {"TAVG"}, c \in {"c1", "c2"} : s = <<a, b, c>>
    OBVIOUS
  <2> HIDE DEF D, N
  <2> QED BY <2>1, <2>2
<1> HIDE DEF D, N, S, x, y, z
<1>5. \A series \in D : stations[series] \subseteq S
  BY <1>1
<1>6. \A series \in D : IsFiniteSet(stations[series])
  BY <1>2, <1>3, <1>5, FS_Subset
<1>7. stations \in [D -> SUBSET Stations]
  BY <1>1, <1>2
<1> QED BY <1>1, <1>4, <1>6, <1>7

LEMMA NamesAre ==
  ASSUME NEW name \in IndicatorNames
  PROVE  name \in Word
<1>1. PICK k \in 1 .. 3 : name \in [1 .. k -> {32, 44, 65}]
  BY DEF IndicatorNames, OneTo
<1>2. k \in Nat
  OBVIOUS
<1> QED BY <1>1, <1>2 DEF Word

LEMMA IndicatorsAsked ==
  ASSUME SplitIndicators \/ IndicatorSources
  PROVE  \E W \in SUBSET Indicators : IsFiniteSet(W) /\ input' = [of |-> "indicators", variables |-> W]
<1>1. CASE SplitIndicators
  <2>1. PICK a \in IndicatorNames, b \in IndicatorNames, c \in IndicatorNames :
          \E names \in {{a, b, c}} :
            input' = [of |-> "indicators", variables |-> {[source |-> 1, name |-> name] : name \in names}]
    BY <1>1, ZenonT(20) DEF SplitIndicators
  <2> DEFINE v(name) == [source |-> 1, name |-> name]
             W == {v(a), v(b), v(c)}
  <2>2. input' = [of |-> "indicators", variables |-> {v(name) : name \in {a, b, c}}]
    BY <2>1
  <2>3. {v(name) : name \in {a, b, c}} = W
    <3> HIDE DEF v
    <3> QED OBVIOUS
  <2>4. IsFiniteSet(W)
    <3> HIDE DEF v
    <3> QED BY TripleFinite
  <2>5. v(a) \in Indicators /\ v(b) \in Indicators /\ v(c) \in Indicators
    BY NamesAre DEF Indicators
  <2> HIDE DEF v
  <2> QED BY <2>2, <2>3, <2>4, <2>5
<1>2. CASE IndicatorSources
  <2> DEFINE A == <<65>>
             B == <<65, 44, 65>>
             C == <<65, 32, 65>>
             S == [source : 1 .. 2, name : {A, B, C}]
             v(i, name) == [source |-> i, name |-> name]
             T(i) == {v(i, A), v(i, B), v(i, C)}
  <2>1. PICK W \in SUBSET S : input' = [of |-> "indicators", variables |-> W]
    BY <1>2, ZenonT(20) DEF IndicatorSources
  <2>2. A \in Word /\ B \in Word /\ C \in Word
    BY DEF Word
  <2> HIDE DEF A, B, C
  <2>3. S \subseteq Indicators
    BY <2>2 DEF Indicators
  <2>4. S \subseteq T(1) \cup T(2)
    OBVIOUS
  <2>5. IsFiniteSet(T(1)) /\ IsFiniteSet(T(2))
    <3> HIDE DEF v
    <3> QED BY TripleFinite
  <2> HIDE DEF T, S
  <2>6. IsFiniteSet(T(1) \cup T(2))
    BY <2>5, FS_Union
  <2>7. W \subseteq T(1) \cup T(2)
    BY <2>4
  <2>8. IsFiniteSet(W)
    BY <2>6, <2>7, FS_Subset
  <2> QED BY <2>1, <2>3, <2>8
<1> QED BY <1>1, <1>2

(* Addresses, pages, averages, years, series and indicators: what the       *)
(* discoverers make of what the services answer is complete, for the inputs *)
(* of the run and the theorems above.                                       *)
THEOREM ResultsAreComplete == Spec => []ResultsComplete
<1>1. Init => ResultsComplete
  BY DEF Init, None, ResultsComplete
<1>2. ResultsComplete /\ [Next]_<<family, input>> => ResultsComplete'
  <2>1. ASSUME Next, input'.of = "addresses" PROVE LocationsCounted(input'.array, input'.server)
    <3>1. ResolveAddresses
      BY <2>1, AsksAbout DEF Next
    <3>2. PICK A, server : \E array \in Seq(A) :
            server.limit \in Nat /\ input' = [of |-> "addresses", array |-> array, server |-> server]
      BY <3>1, AddressesAsked
    <3>3. PICK array \in Seq(A) :
            server.limit \in Nat /\ input' = [of |-> "addresses", array |-> array, server |-> server]
      BY <3>2
    <3>4. LocationsCounted(array, server)
      BY <3>3, Parameters, LocationsAreCounted
    <3>5. input'.array = array /\ input'.server = server
      BY <3>3
    <3> QED BY <3>4, <3>5
  <2>2. ASSUME Next, input'.of = "pages" PROVE PagesComplete(input'.data, input'.answers)
    <3>1. DownloadPages
      BY <2>2, AsksAbout DEF Next
    <3>2. PICK data \in Seq(Nat), answers \in Answers :
            input' = [of |-> "pages", data |-> data, answers |-> answers]
      BY <3>1, PagesAsked
    <3>3. PagesComplete(data, answers)
      BY Parameters, PagesAreComplete
    <3> QED BY <3>2, <3>3
  <2>3. ASSUME Next, input'.of = "averages" PROVE DatesAveraged(input'.data)
    <3>1. AverageDates
      BY <2>3, AsksAbout DEF Next
    <3>2. PICK data \in Measures : input' = [of |-> "averages", data |-> data]
      BY <3>1, AveragesAsked
    <3>3. DatesAveraged(data)
      BY DatesAreAveraged
    <3> QED BY <3>2, <3>3
  <2>4. ASSUME Next, input'.of = "series" PROVE SeriesRecorded(input'.stations)
    <3>1. DiscoverSeries
      BY <2>4, AsksAbout DEF Next
    <3>2. PICK N : \E D \in SUBSET Series(N) : \E stations \in [D -> SUBSET Stations] :
            /\ \A series \in D : IsFiniteSet(stations[series])
            /\ input' = [of |-> "series", stations |-> stations]
      BY <3>1, SeriesAsked
    <3>3. PICK D \in SUBSET Series(N) : \E stations \in [D -> SUBSET Stations] :
            /\ \A series \in D : IsFiniteSet(stations[series])
            /\ input' = [of |-> "series", stations |-> stations]
      BY <3>2
    <3>4. PICK stations \in [D -> SUBSET Stations] :
            /\ \A series \in D : IsFiniteSet(stations[series])
            /\ input' = [of |-> "series", stations |-> stations]
      BY <3>3
    <3>5. SeriesRecorded(stations)
      BY <3>4, SeriesAreRecorded
    <3>6. input'.stations = stations
      BY <3>4
    <3> QED BY <3>5, <3>6
  <2>5. ASSUME Next, input'.of = "indicators" PROVE IndicatorsKept(input'.variables)
    <3>1. SplitIndicators \/ IndicatorSources
      BY <2>5, AsksAbout DEF Next
    <3>2. PICK W \in SUBSET Indicators :
            IsFiniteSet(W) /\ input' = [of |-> "indicators", variables |-> W]
      BY <3>1, IndicatorsAsked
    <3>3. IndicatorsKept(W)
      BY <3>2, IndicatorsAreKept
    <3> QED BY <3>2, <3>3
  <2>6. ASSUME Next, input'.of = "years" PROVE YearsCovered(input'.start, input'.end, input'.years)
    <3>1. MakeYears
      BY <2>6, AsksAbout DEF Next
    <3>2. PICK years \in {1, 5, 10}, start \in Nat, end \in Nat :
            input' = [of |-> "years", start |-> start, end |-> end, years |-> years]
      BY <3>1, YearsAsked
    <3>3. YearsCovered(start, end, years)
      BY YearsAreCovered
    <3> QED BY <3>2, <3>3
  <2>7. ASSUME UNCHANGED <<family, input>>, ResultsComplete PROVE ResultsComplete'
    BY <2>7 DEF ResultsComplete
  <2> QED BY <2>1, <2>2, <2>3, <2>4, <2>5, <2>6, <2>7 DEF ResultsComplete
<1> QED BY <1>1, <1>2, PTL DEF Spec
=============================================================================
