----------------------------- MODULE SearchProofs -----------------------------
(* Theorems about the search for datasets and for augmentations: what the   *)
(* algorithms return for every input, and that the runs of MCAlgorithms     *)
(* satisfy SearchesSound for every value of the constants.                  *)
EXTENDS MCAlgorithms, SetFolds, SequenceTheorems

-----------------------------------------------------------------------------
(* Scores of the search for joins: a document cannot cover more of the      *)
(* ranges than there is.                                                    *)
ListsOfRanges == {l \in Seq(Int \X Int) : \A i \in DOMAIN l : l[i][1] <= l[i][2]}
RangesApart(l) == \A i, j \in DOMAIN l : i # j => l[i][2] < l[j][1] \/ l[j][2] < l[i][1]

LEMMA OverlapIs ==
  ASSUME NEW a \in Int \X Int, NEW b \in Int \X Int
  PROVE  LET o == Overlap(a, b)
         IN /\ o \in Int \X Int
            /\ \A n \in Int : n \in o[1] .. o[2] <=> n \in a[1] .. a[2] /\ n \in b[1] .. b[2]
            /\ o[1] \in {a[1], b[1]} /\ a[1] <= o[1] /\ b[1] <= o[1]
            /\ o[2] \in {a[2], b[2]} /\ o[2] <= a[2] /\ o[2] <= b[2]
<1>1. ASSUME NEW x \in Int, NEW y \in Int
      PROVE  /\ Max({x, y}) \in {x, y} /\ x <= Max({x, y}) /\ y <= Max({x, y})
             /\ Min({x, y}) \in {x, y} /\ Min({x, y}) <= x /\ Min({x, y}) <= y
  <2>1. (\E m \in {x, y} : \A n \in {x, y} : m >= n) /\ (\E m \in {x, y} : \A n \in {x, y} : m =< n)
    <3>1. CASE x <= y
      BY <3>1
    <3>2. CASE y <= x
      BY <3>2
    <3> QED BY <3>1, <3>2
  <2>2. Max({x, y}) \in {x, y} /\ \A n \in {x, y} : Max({x, y}) >= n
    BY <2>1, Zenon DEF Max
  <2>3. Min({x, y}) \in {x, y} /\ \A n \in {x, y} : Min({x, y}) =< n
    BY <2>1, Zenon DEF Min
  <2> QED BY <2>2, <2>3
<1> DEFINE o == Overlap(a, b)
<1>2. a[1] \in Int /\ a[2] \in Int /\ b[1] \in Int /\ b[2] \in Int
  OBVIOUS
<1>3. o = <<Max({a[1], b[1]}), Min({a[2], b[2]})>>
  BY DEF Overlap
<1>4. o[1] = Max({a[1], b[1]}) /\ o[2] = Min({a[2], b[2]}) /\ o = <<o[1], o[2]>>
  <2> HIDE DEF o
  <2> QED BY <1>3
<1>5. o[1] \in {a[1], b[1]} /\ a[1] <= o[1] /\ b[1] <= o[1]
  <2> HIDE DEF o
  <2> QED BY <1>1, <1>2, <1>4
<1>6. o[2] \in {a[2], b[2]} /\ o[2] <= a[2] /\ o[2] <= b[2]
  <2> HIDE DEF o
  <2> QED BY <1>1, <1>2, <1>4
<1>7. o \in Int \X Int
  <2> HIDE DEF o
  <2> QED BY <1>2, <1>4, <1>5, <1>6
<1>8. \A n \in Int : n \in o[1] .. o[2] <=> n \in a[1] .. a[2] /\ n \in b[1] .. b[2]
  <2> HIDE DEF o
  <2> QED BY <1>2, <1>5, <1>6
<1> QED BY <1>5, <1>6, <1>7, <1>8

Meeting(ranges, document) ==
  {p \in (DOMAIN ranges) \X (DOMAIN document) :
     LET o == Overlap(ranges[p[1]], document[p[2]]) IN o[1] <= o[2]}
AddsOverlaps(it, ranges, document) ==
  it = [T \in SUBSET Meeting(ranges, document) |->
          IF T = {} THEN 0
          ELSE Size(Overlap(ranges[Chosen(T)[1]], document[Chosen(T)[2]])) + it[T \ {Chosen(T)}]]
AddsRanges(it, ranges) ==
  it = [T \in SUBSET (DOMAIN ranges) |->
          IF T = {} THEN 0 ELSE Size(ranges[Chosen(T)]) + it[T \ {Chosen(T)}]]

LEMMA CoveredIs ==
  ASSUME NEW ranges, NEW document
  PROVE  /\ Covered(ranges, document)
              = (CHOOSE it : AddsOverlaps(it, ranges, document))[Meeting(ranges, document)]
         /\ NumericalTotal(ranges) = (CHOOSE it : AddsRanges(it, ranges))[DOMAIN ranges]
<1>1. Covered(ranges, document)
        = (CHOOSE it : AddsOverlaps(it, ranges, document))[Meeting(ranges, document)]
  BY DEF Covered, SumOver, MapThenSumSet, MapThenFoldSet, AddsOverlaps, Meeting, Chosen
<1>2. NumericalTotal(ranges) = (CHOOSE it : AddsRanges(it, ranges))[DOMAIN ranges]
  BY DEF NumericalTotal, SumOver, MapThenSumSet, MapThenFoldSet, AddsRanges, Chosen
<1> QED BY <1>1, <1>2

LEMMA CoveredIsSum ==
  ASSUME NEW ranges, NEW document, IsFiniteSet(Meeting(ranges, document)),
         NEW f \in [Meeting(ranges, document) -> Nat],
         \A p \in Meeting(ranges, document) :
           f[p] = Size(Overlap(ranges[p[1]], document[p[2]]))
  PROVE  Covered(ranges, document) = SumOf(f, Meeting(ranges, document))
<1> DEFINE P == Meeting(ranges, document)
           term(p) == Size(Overlap(ranges[p[1]], document[p[2]]))
<1>1. ASSUME NEW it PROVE AddsOverlaps(it, ranges, document) <=> Adds(f, it, P)
  <2>1. \A T \in SUBSET P : T # {} => f[Chosen(T)] = term(Chosen(T))
    <3> SUFFICES ASSUME NEW T \in SUBSET P, T # {} PROVE Chosen(T) \in P
      OBVIOUS
    <3> QED BY DEF Chosen
  <2>2. [T \in SUBSET P |-> IF T = {} THEN 0 ELSE f[Chosen(T)] + it[T \ {Chosen(T)}]]
          = [T \in SUBSET P |-> IF T = {} THEN 0 ELSE term(Chosen(T)) + it[T \ {Chosen(T)}]]
    <3> HIDE DEF P, term
    <3> QED BY <2>1
  <2> QED BY <2>2 DEF AddsOverlaps, Adds
<1> DEFINE it == CHOOSE h : AddsOverlaps(h, ranges, document)
<1>2. AddsOverlaps(it, ranges, document)
  <2>1. \E h : Adds(f, h, P)
    BY SumIsUnique
  <2> QED BY <1>1, <2>1
<1>3. it[P] = SumOf(f, P)
  <2> HIDE DEF it, P
  <2>1. Adds(f, it, P)
    BY <1>1, <1>2
  <2>2. IsFiniteSet(P) /\ f \in [P -> Nat]
    BY DEF P
  <2> QED BY <2>1, <2>2, SumIsUnique
<1> QED BY <1>3, CoveredIs

LEMMA TotalIsSum ==
  ASSUME NEW ranges, IsFiniteSet(DOMAIN ranges), NEW f \in [DOMAIN ranges -> Nat],
         \A i \in DOMAIN ranges : f[i] = Size(ranges[i])
  PROVE  NumericalTotal(ranges) = SumOf(f, DOMAIN ranges)
<1> DEFINE I == DOMAIN ranges
           term(i) == Size(ranges[i])
<1>1. ASSUME NEW it PROVE AddsRanges(it, ranges) <=> Adds(f, it, I)
  <2>1. \A T \in SUBSET I : T # {} => f[Chosen(T)] = term(Chosen(T))
    <3> SUFFICES ASSUME NEW T \in SUBSET I, T # {} PROVE Chosen(T) \in I
      OBVIOUS
    <3> QED BY DEF Chosen
  <2>2. [T \in SUBSET I |-> IF T = {} THEN 0 ELSE f[Chosen(T)] + it[T \ {Chosen(T)}]]
          = [T \in SUBSET I |-> IF T = {} THEN 0 ELSE term(Chosen(T)) + it[T \ {Chosen(T)}]]
    <3> HIDE DEF I, term
    <3> QED BY <2>1
  <2> QED BY <2>2 DEF AddsRanges, Adds
<1> DEFINE it == CHOOSE h : AddsRanges(h, ranges)
<1>2. AddsRanges(it, ranges)
  <2>1. \E h : Adds(f, h, I)
    BY SumIsUnique
  <2> QED BY <1>1, <2>1
<1>3. it[I] = SumOf(f, I)
  <2> HIDE DEF it, I
  <2>1. Adds(f, it, I)
    BY <1>1, <1>2
  <2>2. IsFiniteSet(I) /\ f \in [I -> Nat]
    BY DEF I
  <2> QED BY <2>1, <2>2, SumIsUnique
<1> QED BY <1>3, CoveredIs

LEMMA IntervalSize ==
  ASSUME NEW r \in Int \X Int, r[1] <= r[2]
  PROVE  /\ IsFiniteSet(r[1] .. r[2]) /\ Cardinality(r[1] .. r[2]) = Size(r)
         /\ Size(r) \in Nat
<1>1. r[1] \in Int /\ r[2] \in Int
  OBVIOUS
<1>2. IsFiniteSet(r[1] .. r[2]) /\ Cardinality(r[1] .. r[2]) = IF r[1] > r[2] THEN 0 ELSE r[2] - r[1] + 1
  BY <1>1, FS_Interval
<1>3. Size(r) = r[2] - r[1] + 1
  BY DEF Size
<1> QED BY <1>1, <1>2, <1>3

(* A sum that is at most, or is, another one, and the same when a document  *)
(* matches the keywords.                                                    *)
LEMMA Weighted ==
  ASSUME NEW matches \in BOOLEAN, NEW a \in Nat, NEW b \in Nat
  PROVE  /\ Weight(matches) \in Nat /\ Weight(matches) * a \in Nat
         /\ a <= b => Weight(matches) * a <= Weight(matches) * b
<1>1. Weight(matches) = 1 \/ Weight(matches) = 10
  BY DEF Weight, KeywordWeight
<1>2. CASE Weight(matches) = 1
  BY <1>2
<1>3. CASE Weight(matches) = 10
  BY <1>3
<1> QED BY <1>1, <1>2, <1>3

(* Ranges of whole numbers that are apart, as those of a profile: a         *)
(* document scores at most the weight of the keywords, times all of what is *)
(* asked for, and the document of the data itself scores that much          *)
(* (join.py, get_numerical_join_search_results()).                          *)
THEOREM ScoresAreParts ==
  ASSUME NEW ranges \in ListsOfRanges, NEW document \in ListsOfRanges, RangesApart(ranges), RangesApart(document)
  PROVE  ScoresSound(ranges, document)
<1>1. ASSUME NEW l \in ListsOfRanges, NEW d \in ListsOfRanges, RangesApart(d)
      PROVE  /\ Covered(l, d) \in Nat /\ NumericalTotal(l) \in Nat
             /\ Covered(l, d) <= NumericalTotal(l)
             /\ l = d => Covered(l, d) = NumericalTotal(l)
  <2> DEFINE I == DOMAIN l
             J == DOMAIN d
             A == [i \in I |-> l[i][1] .. l[i][2]]
             B == [j \in J |-> d[j][1] .. d[j][2]]
             P == Meeting(l, d)
             f == [p \in P |-> Size(Overlap(l[p[1]], d[p[2]]))]
             g == [i \in I |-> Size(l[i])]
  <2>1. IsFiniteSet(I) /\ IsFiniteSet(J)
    <3>1. I = 1 .. Len(l) /\ J = 1 .. Len(d) /\ Len(l) \in Nat /\ Len(d) \in Nat
      BY DEF ListsOfRanges
    <3> HIDE DEF I, J
    <3> QED BY <3>1, FS_Interval
  <2>2. /\ \A i \in I : l[i] \in Int \X Int /\ l[i][1] <= l[i][2]
        /\ \A j \in J : d[j] \in Int \X Int /\ d[j][1] <= d[j][2]
    BY DEF ListsOfRanges
  <2>3. ASSUME NEW i \in I
        PROVE  IsFiniteSet(A[i]) /\ g[i] = Cardinality(A[i]) /\ g[i] \in Nat
    <3>1. A[i] = l[i][1] .. l[i][2] /\ g[i] = Size(l[i])
      OBVIOUS
    <3> HIDE DEF A, g
    <3> QED BY <2>2, <3>1, IntervalSize
  <2>4. \A j, k \in J : j # k => B[j] \cap B[k] = {}
    <3> SUFFICES ASSUME NEW j \in J, NEW k \in J, j # k, NEW n \in B[j], n \in B[k] PROVE FALSE
      OBVIOUS
    <3>1. d[j][2] < d[k][1] \/ d[k][2] < d[j][1]
      BY <1>1 DEF RangesApart
    <3>2. n \in d[j][1] .. d[j][2] /\ n \in d[k][1] .. d[k][2]
      OBVIOUS
    <3>3. d[j] \in Int \X Int /\ d[k] \in Int \X Int
      BY <2>2
    <3> QED BY <3>1, <3>2, <3>3
  <2>5. P \in SUBSET (I \X J)
    BY DEF Meeting
  <2>6. ASSUME NEW i \in I, NEW j \in J, A[i] \cap B[j] # {} PROVE <<i, j>> \in P
    <3>1. PICK n \in A[i] : n \in B[j]
      BY <2>6
    <3> DEFINE o == Overlap(l[i], d[j])
    <3>2. n \in o[1] .. o[2] /\ o \in Int \X Int
      <4>1. n \in l[i][1] .. l[i][2] /\ n \in d[j][1] .. d[j][2] /\ n \in Int
        BY <3>1
      <4>2. l[i] \in Int \X Int /\ d[j] \in Int \X Int
        BY <2>2
      <4> QED BY <4>1, <4>2, OverlapIs
    <3>3. o[1] <= o[2]
      <4> HIDE DEF o
      <4> QED BY <3>2
    <3> QED BY <3>3 DEF Meeting
  <2>7. ASSUME NEW p \in P
        PROVE  f[p] = Cardinality(A[p[1]] \cap B[p[2]]) /\ f[p] \in Nat
    <3> DEFINE o == Overlap(l[p[1]], d[p[2]])
    <3>1. p[1] \in I /\ p[2] \in J /\ o[1] <= o[2]
      BY DEF Meeting
    <3>2. o \in Int \X Int /\ \A n \in Int : n \in o[1] .. o[2]
                                             <=> n \in l[p[1]][1] .. l[p[1]][2] /\ n \in d[p[2]][1] .. d[p[2]][2]
      <4>1. l[p[1]] \in Int \X Int /\ d[p[2]] \in Int \X Int
        BY <2>2, <3>1
      <4> QED BY <4>1, OverlapIs
    <3>3. A[p[1]] \cap B[p[2]] = o[1] .. o[2]
      <4>1. A[p[1]] = l[p[1]][1] .. l[p[1]][2] /\ B[p[2]] = d[p[2]][1] .. d[p[2]][2]
        BY <3>1
      <4> HIDE DEF A, B, o
      <4> QED BY <3>2, <4>1
    <3>4. f[p] = Size(o)
      OBVIOUS
    <3> HIDE DEF o, f
    <3> QED BY <3>1, <3>2, <3>3, <3>4, IntervalSize
  <2>8. f \in [P -> Nat] /\ g \in [I -> Nat]
    <3>1. f = [p \in P |-> f[p]] /\ g = [i \in I |-> g[i]]
      OBVIOUS
    <3> HIDE DEF f, g, P, I
    <3> QED BY <2>3, <2>7, <3>1
  <2>9. /\ SumOf(f, P) <= SumOf(g, I)
        /\ I = J /\ A = B => SumOf(f, P) = SumOf(g, I)
    <3>1. (\A i \in I : IsFiniteSet(A[i])) /\ (\A i \in I : g[i] = Cardinality(A[i]))
      BY <2>3
    <3>2. \A p \in P : f[p] = Cardinality(A[p[1]] \cap B[p[2]])
      BY <2>7
    <3>3. \A i \in I : \A j \in J : A[i] \cap B[j] # {} => <<i, j>> \in P
      BY <2>6
    <3>4. Overlapping(I, J, A, B, P, f, g)
      <4> HIDE DEF I, J, A, B, P, f, g
      <4> QED BY <2>1, <2>4, <2>5, <2>8, <3>1, <3>2, <3>3 DEF Overlapping
    <3> HIDE DEF I, J, A, B, P, f, g
    <3> QED BY <3>4, SumOfOverlaps
  <2>13. IsFiniteSet(P)
    <3>1. IsFiniteSet(I \X J)
      BY <2>1, FS_Product
    <3> HIDE DEF P
    <3> QED BY <2>5, <3>1, FS_Subset
  <2>10. Covered(l, d) = SumOf(f, P)
    <3>2. \A p \in P : f[p] = Size(Overlap(l[p[1]], d[p[2]]))
      OBVIOUS
    <3> HIDE DEF f
    <3> QED BY <2>8, <2>13, <3>2, CoveredIsSum
  <2>11. NumericalTotal(l) = SumOf(g, I)
    <3>1. \A i \in I : g[i] = Size(l[i])
      OBVIOUS
    <3> HIDE DEF g
    <3> QED BY <2>1, <2>8, <3>1, TotalIsSum
  <2>12. l = d => I = J /\ A = B
    OBVIOUS
  <2>14. SumOf(f, P) \in Nat /\ SumOf(g, I) \in Nat
    <3> HIDE DEF f, g, P, I
    <3>1. P \in SUBSET P /\ I \in SUBSET I
      OBVIOUS
    <3> QED BY <2>1, <2>8, <2>13, <3>1, SumOfMore
  <2> HIDE DEF I, J, A, B, P, f, g
  <2> QED BY <2>9, <2>10, <2>11, <2>12, <2>14
<1> DEFINE total == NumericalTotal(ranges)
           covered == Covered(ranges, document)
<1>2. covered \in Nat /\ total \in Nat /\ covered <= total /\ Covered(ranges, ranges) = total
  BY <1>1
<1> HIDE DEF total, covered
<1>3. ASSUME NEW matches \in BOOLEAN
      PROVE  Weight(matches) * covered \in 0 .. Weight(matches) * total
  <2>1. /\ Weight(matches) * covered \in Nat /\ Weight(matches) * total \in Nat
        /\ Weight(matches) * covered <= Weight(matches) * total
    BY <1>2, Weighted
  <2> QED BY <2>1
<1> QED BY <1>2, <1>3 DEF ScoresSound, NumericalScore, total, covered

(* The same for areas: an envelope is the set of its unit squares.          *)
AllEnvelopes ==
  {e \in (Int \X Int) \X (Int \X Int) :
     Across(e)[1] <= Across(e)[2] /\ Down(e)[1] <= Down(e)[2]}
Squares(x, y) == (x[1] .. x[2] - 1) \X (y[1] .. y[2] - 1)
AreaInCommon(a, b) ==
  AreaOf(Overlap(Across(a), Across(b)), Overlap(Down(a), Down(b)))

MeetingAreas(ranges, document) ==
  {p \in (DOMAIN ranges) \X (DOMAIN document) :
     LET x == Overlap(Across(ranges[p[1]]), Across(document[p[2]]))
         y == Overlap(Down(ranges[p[1]]), Down(document[p[2]]))
     IN x[1] <= x[2] /\ y[1] <= y[2]}
AddsAreasInCommon(it, ranges, document) ==
  it = [T \in SUBSET MeetingAreas(ranges, document) |->
          IF T = {} THEN 0
          ELSE AreaOf(Overlap(Across(ranges[Chosen(T)[1]]), Across(document[Chosen(T)[2]])),
                            Overlap(Down(ranges[Chosen(T)[1]]), Down(document[Chosen(T)[2]])))
                 + it[T \ {Chosen(T)}]]
AddsAreas(it, ranges) ==
  it = [T \in SUBSET (DOMAIN ranges) |->
          IF T = {} THEN 0
          ELSE AreaOf(Across(ranges[Chosen(T)]), Down(ranges[Chosen(T)])) + it[T \ {Chosen(T)}]]

LEMMA AreaCoveredIs ==
  ASSUME NEW ranges, NEW document
  PROVE  /\ AreaCovered(ranges, document)
              = (CHOOSE it : AddsAreasInCommon(it, ranges, document))[MeetingAreas(ranges, document)]
         /\ SpatialTotal(ranges) = (CHOOSE it : AddsAreas(it, ranges))[DOMAIN ranges]
<1>1. AreaCovered(ranges, document)
        = (CHOOSE it : AddsAreasInCommon(it, ranges, document))[MeetingAreas(ranges, document)]
  BY DEF AreaCovered, SumOver, MapThenSumSet, MapThenFoldSet, AddsAreasInCommon,
         MeetingAreas, Chosen
<1>2. SpatialTotal(ranges) = (CHOOSE it : AddsAreas(it, ranges))[DOMAIN ranges]
  BY DEF SpatialTotal, SumOver, MapThenSumSet, MapThenFoldSet, AddsAreas, Chosen
<1> QED BY <1>1, <1>2

LEMMA AreaCoveredIsSum ==
  ASSUME NEW ranges, NEW document, IsFiniteSet(MeetingAreas(ranges, document)),
         NEW f \in [MeetingAreas(ranges, document) -> Nat],
         \A p \in MeetingAreas(ranges, document) : f[p] = AreaInCommon(ranges[p[1]], document[p[2]])
  PROVE  AreaCovered(ranges, document) = SumOf(f, MeetingAreas(ranges, document))
<1> DEFINE P == MeetingAreas(ranges, document)
           term(p) == AreaOf(Overlap(Across(ranges[p[1]]), Across(document[p[2]])),
                                   Overlap(Down(ranges[p[1]]), Down(document[p[2]])))
<1>1. ASSUME NEW it PROVE AddsAreasInCommon(it, ranges, document) <=> Adds(f, it, P)
  <2>1. \A T \in SUBSET P : T # {} => f[Chosen(T)] = term(Chosen(T))
    <3> SUFFICES ASSUME NEW T \in SUBSET P, T # {} PROVE Chosen(T) \in P
      BY DEF AreaInCommon
    <3> QED BY DEF Chosen
  <2>2. [T \in SUBSET P |-> IF T = {} THEN 0 ELSE f[Chosen(T)] + it[T \ {Chosen(T)}]]
          = [T \in SUBSET P |-> IF T = {} THEN 0 ELSE term(Chosen(T)) + it[T \ {Chosen(T)}]]
    <3> HIDE DEF P, term
    <3> QED BY <2>1
  <2> QED BY <2>2 DEF AddsAreasInCommon, Adds
<1> DEFINE it == CHOOSE h : AddsAreasInCommon(h, ranges, document)
<1>2. AddsAreasInCommon(it, ranges, document)
  <2>1. \E h : Adds(f, h, P)
    BY SumIsUnique
  <2> QED BY <1>1, <2>1
<1>3. it[P] = SumOf(f, P)
  <2> HIDE DEF it, P
  <2>1. Adds(f, it, P)
    BY <1>1, <1>2
  <2>2. IsFiniteSet(P) /\ f \in [P -> Nat]
    BY DEF P
  <2> QED BY <2>1, <2>2, SumIsUnique
<1> QED BY <1>3, AreaCoveredIs

LEMMA AreaTotalIsSum ==
  ASSUME NEW ranges, IsFiniteSet(DOMAIN ranges), NEW f \in [DOMAIN ranges -> Nat],
         \A i \in DOMAIN ranges : f[i] = AreaOf(Across(ranges[i]), Down(ranges[i]))
  PROVE  SpatialTotal(ranges) = SumOf(f, DOMAIN ranges)
<1> DEFINE I == DOMAIN ranges
           term(i) == AreaOf(Across(ranges[i]), Down(ranges[i]))
<1>1. ASSUME NEW it PROVE AddsAreas(it, ranges) <=> Adds(f, it, I)
  <2>1. \A T \in SUBSET I : T # {} => f[Chosen(T)] = term(Chosen(T))
    <3> SUFFICES ASSUME NEW T \in SUBSET I, T # {} PROVE Chosen(T) \in I
      OBVIOUS
    <3> QED BY DEF Chosen
  <2>2. [T \in SUBSET I |-> IF T = {} THEN 0 ELSE f[Chosen(T)] + it[T \ {Chosen(T)}]]
          = [T \in SUBSET I |-> IF T = {} THEN 0 ELSE term(Chosen(T)) + it[T \ {Chosen(T)}]]
    <3> HIDE DEF I, term
    <3> QED BY <2>1
  <2> QED BY <2>2 DEF AddsAreas, Adds
<1> DEFINE it == CHOOSE h : AddsAreas(h, ranges)
<1>2. AddsAreas(it, ranges)
  <2>1. \E h : Adds(f, h, I)
    BY SumIsUnique
  <2> QED BY <1>1, <2>1
<1>3. it[I] = SumOf(f, I)
  <2> HIDE DEF it, I
  <2>1. Adds(f, it, I)
    BY <1>1, <1>2
  <2>2. IsFiniteSet(I) /\ f \in [I -> Nat]
    BY DEF I
  <2> QED BY <2>1, <2>2, SumIsUnique
<1> QED BY <1>3, AreaCoveredIs

LEMMA AreaSize ==
  ASSUME NEW x \in Int \X Int, NEW y \in Int \X Int, x[1] <= x[2], y[1] <= y[2]
  PROVE  /\ IsFiniteSet(Squares(x, y)) /\ Cardinality(Squares(x, y)) = AreaOf(x, y)
         /\ AreaOf(x, y) \in Nat
<1> DEFINE S == x[1] .. x[2] - 1
           T == y[1] .. y[2] - 1
<1>1. /\ x[1] \in Int /\ x[2] - 1 \in Int /\ x[2] - x[1] \in Nat
      /\ y[1] \in Int /\ y[2] - 1 \in Int /\ y[2] - y[1] \in Nat
  OBVIOUS
<1>2. IsFiniteSet(S) /\ Cardinality(S) = x[2] - x[1]
  <2>1. IsFiniteSet(S) /\ Cardinality(S) = IF x[1] > x[2] - 1 THEN 0 ELSE x[2] - 1 - x[1] + 1
    BY <1>1, FS_Interval
  <2> HIDE DEF S
  <2> QED BY <2>1
<1>3. IsFiniteSet(T) /\ Cardinality(T) = y[2] - y[1]
  <2>1. IsFiniteSet(T) /\ Cardinality(T) = IF y[1] > y[2] - 1 THEN 0 ELSE y[2] - 1 - y[1] + 1
    BY <1>1, FS_Interval
  <2> HIDE DEF T
  <2> QED BY <2>1
<1>4. IsFiniteSet(S \X T) /\ Cardinality(S \X T) = (x[2] - x[1]) * (y[2] - y[1])
  <2> HIDE DEF S, T
  <2>1. IsFiniteSet(S \X T) /\ Cardinality(S \X T) = Cardinality(S) * Cardinality(T)
    BY <1>2, <1>3, FS_Product
  <2> QED BY <1>2, <1>3, <2>1
<1>5. (x[2] - x[1]) * (y[2] - y[1]) \in Nat
  <2>1. \A a, b \in Nat : a * b \in Nat
    OBVIOUS
  <2> QED BY <1>1, <2>1
<1> QED BY <1>4, <1>5 DEF Squares, AreaOf

LEMMA SquaresInCommon ==
  ASSUME NEW a \in AllEnvelopes, NEW b \in AllEnvelopes
  PROVE  LET x == Overlap(Across(a), Across(b))
             y == Overlap(Down(a), Down(b))
         IN /\ x \in Int \X Int /\ y \in Int \X Int
            /\ Squares(Across(a), Down(a)) \cap Squares(Across(b), Down(b)) = Squares(x, y)
<1> DEFINE ax == Across(a)
           ay == Down(a)
           bx == Across(b)
           by == Down(b)
           x == Overlap(ax, bx)
           y == Overlap(ay, by)
<1>1. ax \in Int \X Int /\ ay \in Int \X Int /\ bx \in Int \X Int /\ by \in Int \X Int
  BY DEF AllEnvelopes, Across, Down
<1>2. ASSUME NEW p \in Int \X Int, NEW q \in Int \X Int, NEW o, o = Overlap(p, q)
      PROVE  o \in Int \X Int /\ (p[1] .. p[2] - 1) \cap (q[1] .. q[2] - 1) = o[1] .. o[2] - 1
  <2>1. /\ o \in Int \X Int
        /\ o[1] \in {p[1], q[1]} /\ p[1] <= o[1] /\ q[1] <= o[1]
        /\ o[2] \in {p[2], q[2]} /\ o[2] <= p[2] /\ o[2] <= q[2]
    BY <1>2, OverlapIs
  <2>2. p[1] \in Int /\ p[2] \in Int /\ q[1] \in Int /\ q[2] \in Int /\ o[1] \in Int /\ o[2] \in Int
    BY <2>1
  <2>3. \A n \in Int : n \in o[1] .. o[2] - 1 <=> n \in p[1] .. p[2] - 1 /\ n \in q[1] .. q[2] - 1
    BY <2>1, <2>2
  <2> QED BY <2>1, <2>2, <2>3
<1>3. x \in Int \X Int /\ (ax[1] .. ax[2] - 1) \cap (bx[1] .. bx[2] - 1) = x[1] .. x[2] - 1
  <2> HIDE DEF ax, bx
  <2> QED BY <1>1, <1>2
<1>4. y \in Int \X Int /\ (ay[1] .. ay[2] - 1) \cap (by[1] .. by[2] - 1) = y[1] .. y[2] - 1
  <2> HIDE DEF ay, by
  <2> QED BY <1>1, <1>2
<1>5. Squares(ax, ay) \cap Squares(bx, by) = Squares(x, y)
  <2> HIDE DEF ax, ay, bx, by, x, y
  <2> QED BY <1>3, <1>4 DEF Squares
<1> QED BY <1>3, <1>4, <1>5

(* Envelopes may overlap, as those around the clusters of a profile: what   *)
(* a document scores is at most what each of its areas could, at most the   *)
(* weight times all that is asked for when they are apart, and the document *)
(* of the data itself has at least that (join.py,                           *)
(* get_spatial_join_search_results()).                                      *)
THEOREM AreaScoresAreParts ==
  ASSUME NEW ranges \in Seq(AllEnvelopes), NEW document \in Seq(AllEnvelopes)
  PROVE  AreaScoresSound(ranges, document)
<1>1. ASSUME NEW l \in Seq(AllEnvelopes), NEW d \in Seq(AllEnvelopes)
      PROVE  /\ AreaCovered(l, d) \in Nat /\ SpatialTotal(l) \in Nat
             /\ AreaCovered(l, d) <= Len(d) * SpatialTotal(l)
             /\ l = d => AreaCovered(l, d) >= SpatialTotal(l)
             /\ AreasApart(d) => /\ AreaCovered(l, d) <= SpatialTotal(l)
                                 /\ l = d => AreaCovered(l, d) = SpatialTotal(l)
  <2> DEFINE I == DOMAIN l
             J == DOMAIN d
             A == [i \in I |-> Squares(Across(l[i]), Down(l[i]))]
             B == [j \in J |-> Squares(Across(d[j]), Down(d[j]))]
             P == MeetingAreas(l, d)
             f == [p \in P |-> AreaInCommon(l[p[1]], d[p[2]])]
             g == [i \in I |-> AreaOf(Across(l[i]), Down(l[i]))]
  <2>1. IsFiniteSet(I) /\ IsFiniteSet(J) /\ Cardinality(J) = Len(d)
    <3>1. I = 1 .. Len(l) /\ J = 1 .. Len(d) /\ Len(l) \in Nat /\ Len(d) \in Nat
      OBVIOUS
    <3>2. ASSUME NEW n \in Nat PROVE IsFiniteSet(1 .. n) /\ Cardinality(1 .. n) = n
      BY FS_Interval
    <3> HIDE DEF I, J
    <3> QED BY <3>1, <3>2
  <2>2. ASSUME NEW e \in AllEnvelopes
        PROVE  /\ Across(e) \in Int \X Int /\ Down(e) \in Int \X Int
               /\ Across(e)[1] <= Across(e)[2] /\ Down(e)[1] <= Down(e)[2]
    BY DEF AllEnvelopes, Across, Down
  <2>3. ASSUME NEW i \in I
        PROVE  IsFiniteSet(A[i]) /\ g[i] = Cardinality(A[i]) /\ g[i] \in Nat
    <3> DEFINE x == Across(l[i])
               y == Down(l[i])
    <3>1. A[i] = Squares(x, y) /\ g[i] = AreaOf(x, y) /\ l[i] \in AllEnvelopes
      OBVIOUS
    <3>2. x \in Int \X Int /\ y \in Int \X Int /\ x[1] <= x[2] /\ y[1] <= y[2]
      BY <2>2, <3>1
    <3> HIDE DEF A, g, x, y
    <3> QED BY <3>1, <3>2, AreaSize
  <2>4. AreasApart(d) => \A j, k \in J : j # k => B[j] \cap B[k] = {}
    <3> SUFFICES ASSUME AreasApart(d), NEW j \in J, NEW k \in J, j # k PROVE B[j] \cap B[k] = {}
      OBVIOUS
    <3> DEFINE jx == Across(d[j])
               jy == Down(d[j])
               kx == Across(d[k])
               ky == Down(d[k])
    <3>1. jx[2] <= kx[1] \/ kx[2] <= jx[1] \/ jy[2] <= ky[1] \/ ky[2] <= jy[1]
      BY DEF AreasApart
    <3>2. d[j] \in AllEnvelopes /\ d[k] \in AllEnvelopes
      OBVIOUS
    <3>3. jx \in Int \X Int /\ jy \in Int \X Int /\ kx \in Int \X Int /\ ky \in Int \X Int
      BY <2>2, <3>2
    <3>4. B[j] = Squares(jx, jy) /\ B[k] = Squares(kx, ky)
      OBVIOUS
    <3> HIDE DEF jx, jy, kx, ky, B
    <3>5. ASSUME NEW s \in Squares(jx, jy), s \in Squares(kx, ky) PROVE FALSE
      <4>1. /\ s[1] \in jx[1] .. jx[2] - 1 /\ s[1] \in kx[1] .. kx[2] - 1
            /\ s[2] \in jy[1] .. jy[2] - 1 /\ s[2] \in ky[1] .. ky[2] - 1
        BY <3>5 DEF Squares
      <4>2. /\ jx[1] \in Int /\ jx[2] \in Int /\ kx[1] \in Int /\ kx[2] \in Int
            /\ jy[1] \in Int /\ jy[2] \in Int /\ ky[1] \in Int /\ ky[2] \in Int
        BY <3>3
      <4>3. \A a, b, u, v, n \in Int : n \in a .. b - 1 /\ n \in u .. v - 1 => ~ (b <= u) /\ ~ (v <= a)
        OBVIOUS
      <4>4. s[1] \in Int /\ s[2] \in Int
        <5>1. \A a, b, n \in Int : n \in a .. b - 1 => n \in Int
          OBVIOUS
        <5> QED BY <4>1, <4>2, <5>1
      <4>5. ~ (jx[2] <= kx[1]) /\ ~ (kx[2] <= jx[1])
        BY <4>3, <4>1, <4>2, <4>4
      <4>6. ~ (jy[2] <= ky[1]) /\ ~ (ky[2] <= jy[1])
        BY <4>3, <4>1, <4>2, <4>4
      <4> QED BY <3>1, <4>5, <4>6
    <3> QED BY <3>4, <3>5
  <2>5. P \in SUBSET (I \X J)
    BY DEF MeetingAreas
  <2>6. ASSUME NEW i \in I, NEW j \in J, A[i] \cap B[j] # {} PROVE <<i, j>> \in P
    <3> DEFINE x == Overlap(Across(l[i]), Across(d[j]))
               y == Overlap(Down(l[i]), Down(d[j]))
    <3>1. l[i] \in AllEnvelopes /\ d[j] \in AllEnvelopes
      OBVIOUS
    <3>2. x \in Int \X Int /\ y \in Int \X Int /\ A[i] \cap B[j] = Squares(x, y)
      BY <3>1, SquaresInCommon
    <3>3. x[1] <= x[2] /\ y[1] <= y[2]
      <4>1. PICK s : s \in Squares(x, y)
        BY <2>6, <3>2
      <4> HIDE DEF x, y
      <4>2. s[1] \in x[1] .. x[2] - 1 /\ s[2] \in y[1] .. y[2] - 1
        BY <4>1 DEF Squares
      <4> QED BY <3>2, <4>2
    <3> QED BY <3>3 DEF MeetingAreas
  <2>7. ASSUME NEW p \in P
        PROVE  f[p] = Cardinality(A[p[1]] \cap B[p[2]]) /\ f[p] \in Nat
    <3> DEFINE i == p[1]
               j == p[2]
               x == Overlap(Across(l[i]), Across(d[j]))
               y == Overlap(Down(l[i]), Down(d[j]))
    <3>1. i \in I /\ j \in J /\ x[1] <= x[2] /\ y[1] <= y[2]
      BY DEF MeetingAreas
    <3>2. l[i] \in AllEnvelopes /\ d[j] \in AllEnvelopes
      BY <3>1
    <3>3. x \in Int \X Int /\ y \in Int \X Int /\ A[i] \cap B[j] = Squares(x, y)
      BY <3>1, <3>2, SquaresInCommon
    <3>4. f[p] = AreaOf(x, y)
      BY DEF AreaInCommon
    <3> HIDE DEF x, y, f, i, j
    <3>5. f[p] = Cardinality(A[i] \cap B[j]) /\ f[p] \in Nat
      BY <3>1, <3>3, <3>4, AreaSize
    <3> QED BY <3>5 DEF i, j
  <2>8. f \in [P -> Nat] /\ g \in [I -> Nat]
    <3>1. f = [p \in P |-> f[p]] /\ g = [i \in I |-> g[i]]
      OBVIOUS
    <3> HIDE DEF f, g, P, I
    <3> QED BY <2>3, <2>7, <3>1
  <2>9. IsFiniteSet(P)
    <3>1. IsFiniteSet(I \X J)
      BY <2>1, FS_Product
    <3> HIDE DEF P
    <3> QED BY <2>5, <3>1, FS_Subset
  <2>10. AreasApart(d) => /\ SumOf(f, P) <= SumOf(g, I)
                          /\ I = J /\ A = B => SumOf(f, P) = SumOf(g, I)
    <3> SUFFICES ASSUME AreasApart(d)
                 PROVE  /\ SumOf(f, P) <= SumOf(g, I)
                        /\ I = J /\ A = B => SumOf(f, P) = SumOf(g, I)
      <4> HIDE DEF I, J, A, B, P, f, g
      <4> QED OBVIOUS
    <3>1. (\A i \in I : IsFiniteSet(A[i])) /\ (\A i \in I : g[i] = Cardinality(A[i]))
      BY <2>3
    <3>2. \A p \in P : f[p] = Cardinality(A[p[1]] \cap B[p[2]])
      BY <2>7
    <3>3. \A i \in I : \A j \in J : A[i] \cap B[j] # {} => <<i, j>> \in P
      BY <2>6
    <3>4. Overlapping(I, J, A, B, P, f, g)
      <4> HIDE DEF I, J, A, B, P, f, g
      <4> QED BY <2>1, <2>4, <2>5, <2>8, <3>1, <3>2, <3>3 DEF Overlapping
    <3> HIDE DEF I, J, A, B, P, f, g
    <3> QED BY <3>4, SumOfOverlaps
  <2>11. SumOf(f, P) \in Nat /\ SumOf(g, I) \in Nat
    <3> HIDE DEF f, g, P, I
    <3>1. P \in SUBSET P /\ I \in SUBSET I
      OBVIOUS
    <3> QED BY <2>1, <2>8, <2>9, <3>1, SumOfMore
  <2>12. AreaCovered(l, d) = SumOf(f, P)
    <3>1. \A p \in P : f[p] = AreaInCommon(l[p[1]], d[p[2]])
      OBVIOUS
    <3> HIDE DEF f
    <3> QED BY <2>8, <2>9, <3>1, AreaCoveredIsSum
  <2>13. SpatialTotal(l) = SumOf(g, I)
    <3>1. \A i \in I : g[i] = AreaOf(Across(l[i]), Down(l[i]))
      OBVIOUS
    <3> HIDE DEF g
    <3> QED BY <2>1, <2>8, <3>1, AreaTotalIsSum
  <2>14. l = d => I = J /\ A = B
    OBVIOUS
  <2>15. \A p \in P : f[p] <= g[p[1]]
    <3> SUFFICES ASSUME NEW p \in P PROVE f[p] <= g[p[1]]
      <4> HIDE DEF P, f, g
      <4> QED OBVIOUS
    <3> DEFINE i == p[1]
               S == A[i] \cap B[p[2]]
    <3>1. i \in I
      BY <2>5
    <3>2. IsFiniteSet(A[i]) /\ g[i] = Cardinality(A[i]) /\ S \in SUBSET A[i]
      <4> HIDE DEF g, A, i
      <4> QED BY <2>3, <3>1
    <3>3. f[p] = Cardinality(S)
      <4> HIDE DEF f, A, B
      <4> QED BY <2>7
    <3> HIDE DEF f, g, A, S
    <3>4. Cardinality(S) <= Cardinality(A[i])
      BY <3>2, FS_Subset
    <3> QED BY <3>2, <3>3, <3>4
  <2>16. l = d => \A i \in I : <<i, i>> \in P /\ f[<<i, i>>] = g[i]
    <3> SUFFICES ASSUME l = d, NEW i \in I PROVE <<i, i>> \in P /\ f[<<i, i>>] = g[i]
      <4> HIDE DEF P, f, g
      <4> QED OBVIOUS
    <3>1. l[i] \in AllEnvelopes
      OBVIOUS
    <3> DEFINE x == Across(l[i])
               y == Down(l[i])
    <3>2. x \in Int \X Int /\ y \in Int \X Int /\ x[1] <= x[2] /\ y[1] <= y[2]
      BY <2>2, <3>1
    <3>3. ASSUME NEW r \in Int \X Int PROVE Overlap(r, r) = r
      <4> DEFINE o == Overlap(r, r)
      <4>1. o \in Int \X Int /\ o[1] = r[1] /\ o[2] = r[2]
        BY OverlapIs
      <4> HIDE DEF o
      <4>2. r = <<r[1], r[2]>>
        OBVIOUS
      <4>3. o = <<o[1], o[2]>>
        BY <4>1
      <4> QED BY <4>1, <4>2, <4>3 DEF o
    <3>4. Overlap(x, x) = x /\ Overlap(y, y) = y
      BY <3>2, <3>3
    <3>5. <<i, i>> \in P
      BY <3>2, <3>4 DEF MeetingAreas
    <3>6. f[<<i, i>>] = AreaOf(Overlap(x, x), Overlap(y, y))
      BY <3>5 DEF AreaInCommon
    <3>7. g[i] = AreaOf(x, y)
      OBVIOUS
    <3> QED BY <3>4, <3>5, <3>6, <3>7
  <2>17. /\ SumOf(f, P) <= Cardinality(J) * SumOf(g, I)
         /\ (\A i \in I : <<i, i>> \in P /\ f[<<i, i>>] = g[i]) => SumOf(g, I) <= SumOf(f, P)
    <3> HIDE DEF I, J, P, f, g
    <3>1. CountedForPairs(I, J, P, f, g)
      BY <2>1, <2>5, <2>8, <2>15 DEF CountedForPairs
    <3> QED BY <3>1, SumOverPairs
  <2> HIDE DEF I, J, A, B, P, f, g
  <2>18. l = d => SumOf(g, I) <= SumOf(f, P)
    BY <2>16, <2>17
  <2> QED BY <2>1, <2>10, <2>11, <2>12, <2>13, <2>14, <2>17, <2>18
<1> DEFINE total == SpatialTotal(ranges)
           n == Len(document)
           covered == AreaCovered(ranges, document)
           own == AreaCovered(ranges, ranges)
<1>2. /\ covered \in Nat /\ total \in Nat /\ own \in Nat /\ n \in Nat
      /\ covered <= n * total /\ own >= total
      /\ AreasApart(document) => covered <= total
      /\ AreasApart(ranges) => own = total
  BY <1>1
<1> HIDE DEF total, covered, own, n
<1>3. ASSUME NEW matches \in BOOLEAN
      PROVE  /\ Weight(matches) * covered \in 0 .. n * (Weight(matches) * total)
             /\ Weight(matches) * own >= Weight(matches) * total
             /\ AreasApart(document) => Weight(matches) * covered <= Weight(matches) * total
             /\ AreasApart(ranges) => Weight(matches) * own = Weight(matches) * total
  <2> DEFINE w == Weight(matches)
  <2>1. n * total \in Nat
    BY <1>2
  <2>2. w * covered \in Nat /\ w \in Nat /\ w * covered <= w * (n * total)
    BY <1>2, <2>1, Weighted
  <2>3. w * (n * total) = n * (w * total)
    <3> HIDE DEF w
    <3> QED BY <1>2, <2>2
  <2>4. w * total <= w * own
    BY <1>2, Weighted
  <2>5. AreasApart(document) => w * covered <= w * total
    BY <1>2, Weighted
  <2>6. n * (w * total) \in Nat
    <3> HIDE DEF w
    <3> QED BY <1>2, <2>2
  <2>7. w * total \in Nat /\ w * own \in Nat
    <3> HIDE DEF w
    <3> QED BY <1>2, <2>2
  <2> HIDE DEF w
  <2>8. w * covered \in 0 .. n * (w * total)
    BY <2>2, <2>3, <2>6
  <2> QED BY <1>2, <2>4, <2>5, <2>7, <2>8 DEF w
<1> QED BY <1>3 DEF AreaScoresSound, SpatialScore, total, covered, own, n


-----------------------------------------------------------------------------
(* What the searches find.                                                  *)

LEMMA LeastOfTwo ==
  ASSUME NEW x \in Int, NEW y \in Int
  PROVE  Min({x, y}) = IF x <= y THEN x ELSE y
<1>1. \E m \in {x, y} : \A n \in {x, y} : m =< n
  <2>1. CASE x <= y
    BY <2>1
  <2>2. CASE y <= x
    BY <2>2
  <2> QED BY <2>1, <2>2
<1>2. Min({x, y}) \in {x, y} /\ \A n \in {x, y} : Min({x, y}) =< n
  BY <1>1, Zenon DEF Min
<1> QED BY <1>2

(* The hits of a search that has a limit: those that are not returned gave  *)
(* way to TopK others with scores that are as good.                         *)
LEMMA BestReturned ==
  ASSUME NEW hits, IsFiniteSet(hits), NEW kept \in Returned(hits)
  PROVE  /\ kept \subseteq hits
         /\ \A h \in hits \ kept : Cardinality(kept) = TopK /\ \A t \in kept : t.score >= h.score
<1>1. /\ kept \in SUBSET hits /\ Cardinality(kept) = Min({TopK, Cardinality(hits)})
      /\ \A t \in kept, h \in hits \ kept : t.score >= h.score
  BY DEF Returned
<1>2. Cardinality(hits) \in Nat /\ TopK \in Nat
  BY FS_CardinalityType, SearchAssumption
<1>3. Min({TopK, Cardinality(hits)}) = IF TopK <= Cardinality(hits) THEN TopK ELSE Cardinality(hits)
  BY <1>2, LeastOfTwo
<1>4. Cardinality(kept) = Cardinality(hits) => hits = kept
  BY <1>1, FS_Subset
<1> QED BY <1>1, <1>2, <1>3, <1>4

(* The keywords of a query raise the scores of joins and its variables are  *)
(* not looked at, but no join or union comes from a source or has a type    *)
(* that was not asked for, and what matches the whole query only gives way  *)
(* to TopK that match its keywords and cover as much, or cover ten times as *)
(* much (get_augmentation_search_results()).                                *)
SomeMatches ==
  [keywords : BOOLEAN, source : BOOLEAN, types : BOOLEAN, variables : BOOLEAN, part : Nat]
THEOREM FiltersAreApplied ==
  ASSUME NEW query, NEW areas, NEW wanted, NEW datasets \in SUBSET SomeMatches, IsFiniteSet(datasets)
  PROVE  AugmentationsPass(query, areas, datasets, wanted)
<1> DEFINE main == MainFilters(query, areas)
           sup == SupFilters(query)
           asked == {d \in datasets : \A f \in main : d[f]}
           passing == {d \in datasets : \A f \in sup : d[f]}
           hits == {JoinHit(query, d) : d \in passing}
<1>1. /\ sup = main \cap {"source", "types"} /\ main \subseteq {"keywords", "source", "types", "variables"}
      /\ \A f \in {"source", "types"} : Given(query[f]) => f \in sup
      /\ Given(query.keywords) <=> "keywords" \in main
  BY DEF SupFilters, MainFilters, Given
<1>2. IsFiniteSet(hits)
  <2> DEFINE F == [d \in passing |-> JoinHit(query, d)]
  <2>1. IsFiniteSet(passing)
    <3>1. passing \in SUBSET datasets
      OBVIOUS
    <3> HIDE DEF passing
    <3> QED BY <3>1, FS_Subset
  <2>2. F \in Surjection(passing, hits)
    <3> HIDE DEF passing
    <3> QED BY DEF Surjection
  <2> HIDE DEF F, hits, passing
  <2> QED BY <2>1, <2>2, FS_Surjection
<1> SUFFICES ASSUME NEW results \in AugmentationResults(query, areas, datasets, wanted)
             PROVE  LET joins == {h.dataset : h \in results.joins}
                    IN /\ \A d \in joins \cup results.unions, f \in {"source", "types"} :
                            Given(query[f]) => d[f]
                       /\ "union" \in wanted => results.unions = asked
                       /\ \A d \in joins \ asked : ~d.keywords \/ ~d.variables
                       /\ "join" \in wanted => \A d \in asked \ joins :
                            /\ Cardinality(results.joins) = TopK
                            /\ \A e \in joins :
                                 IF Given(query.keywords) /\ ~e.keywords
                                 THEN e.part >= KeywordWeight * d.part ELSE e.part >= d.part
  BY DEF AugmentationsPass
<1> DEFINE joins == {h.dataset : h \in results.joins}
<1>3. /\ "join" \in wanted => results.joins \in Returned(hits)
      /\ "join" \notin wanted => results.joins = {}
      /\ results.unions = IF "union" \in wanted THEN asked ELSE {}
  BY DEF AugmentationResults
<1>4. ASSUME NEW h \in results.joins
      PROVE  /\ h \in hits /\ h.dataset \in passing
             /\ h.score = Weight(Given(query.keywords) /\ h.dataset.keywords) * h.dataset.part
  <2>1. h \in hits
    <3> HIDE DEF hits
    <3> QED BY <1>2, <1>3, BestReturned
  <2>2. PICK d \in passing : h = JoinHit(query, d)
    BY <2>1
  <2> QED BY <2>1, <2>2 DEF JoinHit
<1> HIDE DEF main, sup, hits
<1>5. \A d \in joins \cup results.unions, f \in {"source", "types"} : Given(query[f]) => d[f]
  <2> SUFFICES ASSUME NEW d \in joins \cup results.unions, NEW f \in {"source", "types"}, Given(query[f])
               PROVE  d[f]
    OBVIOUS
  <2>1. f \in sup /\ f \in main
    BY <1>1
  <2>2. CASE d \in joins
    BY <1>4, <2>1, <2>2
  <2>3. CASE d \in results.unions
    BY <1>3, <2>1, <2>3
  <2> QED BY <2>2, <2>3
<1>6. "union" \in wanted => results.unions = asked
  BY <1>3
<1>7. \A d \in joins \ asked : ~d.keywords \/ ~d.variables
  <2> SUFFICES ASSUME NEW d \in joins, d \notin asked PROVE ~d.keywords \/ ~d.variables
    OBVIOUS
  <2>1. d \in passing
    BY <1>4
  <2>2. PICK f \in main : ~ d[f]
    BY <2>1
  <2>3. f = "keywords" \/ f = "variables"
    BY <1>1, <2>1, <2>2
  <2> QED BY <2>2, <2>3
<1>8. ASSUME "join" \in wanted, NEW d \in asked, d \notin joins
      PROVE  /\ Cardinality(results.joins) = TopK
             /\ \A e \in joins : IF Given(query.keywords) /\ ~e.keywords
                                 THEN e.part >= KeywordWeight * d.part ELSE e.part >= d.part
  <2> DEFINE hit == JoinHit(query, d)
  <2>1. d \in passing
    BY <1>1
  <2>2. hit \in hits /\ hit.dataset = d
    BY <2>1 DEF JoinHit, hits
  <2>3. hit.score = Weight(Given(query.keywords)) * d.part
    <3>1. Given(query.keywords) => d.keywords
      BY <1>1
    <3>2. (Given(query.keywords) /\ d.keywords) <=> Given(query.keywords)
      BY <3>1
    <3> QED BY <3>2, Zenon DEF JoinHit, Weight
  <2>4. hit \notin results.joins
    <3> HIDE DEF hit
    <3> QED BY <1>8, <2>2
  <2> HIDE DEF hit
  <2>5. Cardinality(results.joins) = TopK /\ \A t \in results.joins : t.score >= hit.score
    BY <1>2, <1>3, <1>8, <2>2, <2>4, BestReturned
  <2>6. ASSUME NEW e \in joins
        PROVE  IF Given(query.keywords) /\ ~e.keywords
               THEN e.part >= KeywordWeight * d.part ELSE e.part >= d.part
    <3>1. PICK t \in results.joins : e = t.dataset
      OBVIOUS
    <3>2. e \in passing /\ t.score = Weight(Given(query.keywords) /\ e.keywords) * e.part
      BY <1>4, <3>1
    <3>3. Weight(Given(query.keywords) /\ e.keywords) * e.part >= Weight(Given(query.keywords)) * d.part
      BY <2>3, <2>5, <3>1, <3>2
    <3>4. e.part \in Nat /\ d.part \in Nat /\ e.keywords \in BOOLEAN
      BY <2>1, <3>2 DEF SomeMatches
    <3>5. CASE Given(query.keywords) /\ e.keywords
      <4>1. 10 * e.part >= 10 * d.part
        BY <3>3, <3>5 DEF Weight, KeywordWeight
      <4> QED BY <3>4, <3>5, <4>1
    <3>6. CASE Given(query.keywords) /\ ~e.keywords
      <4>1. 1 * e.part >= 10 * d.part
        BY <3>3, <3>6 DEF Weight, KeywordWeight
      <4> QED BY <3>4, <3>6, <4>1 DEF KeywordWeight
    <3>7. CASE ~Given(query.keywords)
      <4>1. 1 * e.part >= 1 * d.part
        BY <3>3, <3>7 DEF Weight
      <4> QED BY <3>4, <3>7, <4>1
    <3> QED BY <3>4, <3>5, <3>6, <3>7
  <2> QED BY <2>5, <2>6
<1> HIDE DEF asked, joins
<1> QED BY <1>5, <1>6, <1>7, <1>8 DEF joins

(* A column of the data is looked for in one way, and only in the filter;   *)
(* the row index of D3M is not matched as a number (join.py,                *)
(* get_column_coverage() and get_lazo_sketches()).                          *)
THEOREM CoverageIsSound ==
  ASSUME NEW profile, NEW filter
  PROVE  CoverageSound(profile, filter)
<1> DEFINE coverage == ColumnCoverage(profile, filter)
           numerical == NumericalCoverage(profile, filter)
           spatial == SpatialCoverage(profile, filter)
           sketches == LazoSketches(profile, filter)
<1>1. /\ DOMAIN coverage = numerical \cup spatial
      /\ \A indexes \in DOMAIN coverage :
           coverage[indexes].type = IF indexes \in DOMAIN profile.spatial THEN "spatial"
                                    ELSE CoverageType(profile.columns[indexes[1]])
  BY DEF ColumnCoverage
<1>2. \A indexes \in numerical \cup spatial \cup sketches : InFilter(indexes, filter)
  BY DEF NumericalCoverage, SpatialCoverage, LazoSketches
<1>3. ASSUME NEW indexes \in DOMAIN coverage, indexes \notin DOMAIN profile.spatial
      PROVE  \E i \in DOMAIN profile.columns : indexes = <<i>> /\ profile.columns[i].name # "d3mIndex"
  BY <1>1, <1>3 DEF NumericalCoverage, SpatialCoverage
<1> HIDE DEF coverage, numerical, spatial, sketches
<1>4. \A indexes \in DOMAIN coverage \cup sketches : filter # {} => ToSet(indexes) \subseteq filter
  BY <1>1, <1>2 DEF InFilter
<1>5. ASSUME NEW indexes \in DOMAIN coverage
      PROVE  /\ coverage[indexes].type # "spatial" => Len(indexes) = 1
             /\ \A i \in ToSet(indexes) :
                  profile.columns[i].name = "d3mIndex" => coverage[indexes].type = "spatial"
  <2>1. CASE indexes \in DOMAIN profile.spatial
    BY <1>1, <2>1
  <2>2. CASE indexes \notin DOMAIN profile.spatial
    <3>1. PICK k \in DOMAIN profile.columns : indexes = <<k>> /\ profile.columns[k].name # "d3mIndex"
      BY <1>3, <2>2
    <3>2. Len(indexes) = 1 /\ \A i \in ToSet(indexes) : i = k
      BY <3>1 DEF ToSet
    <3> QED BY <3>1, <3>2
  <2> QED BY <2>1, <2>2
<1> QED BY <1>4, <1>5 DEF CoverageSound, coverage, sketches


(* The keywords of a query change the order of the columns that Lazo finds, *)
(* and its filters keep some of them: those that are found without a query, *)
(* as far as the sketches are of columns that are indexed under names that  *)
(* no other column has, or TopK that are as good                            *)
(* (get_textual_join_search_results()).                                     *)
THEOREM TextsAreSound ==
  ASSUME NEW Datasets, NEW Names, NEW names, NEW matching, NEW passing,
         \A d \in DOMAIN names : names[d] \in Seq(Names),
         NEW results \in Seq([dataset : Datasets, name : Names, score : Nat])
  PROVE  TextualSound(results, names, matching, passing)
<1> DEFINE set == ToSet(results)
           positions(r) == PositionsOf(names, r)
           score(r) == Weight(<<r.dataset, r.name>> \in matching) * r.score
           all == TextualHits(results, names, matching, passing)
           looked == {r \in set : r.dataset \in DOMAIN names /\ r.dataset \in passing}
           hit(r, i) == [dataset |-> r.dataset, index |-> i, score |-> score(r)]
<1>1. all = UNION {{hit(r, i) : i \in positions(r)} : r \in looked}
  BY DEF TextualHits
<1>2. IsFiniteSet(set)
  <2>1. set = Range(results) /\ DOMAIN results = 1 .. Len(results) /\ Len(results) \in Nat
    BY DEF ToSet, Range
  <2>2. IsFiniteSet(DOMAIN results)
    BY <2>1, FS_Interval
  <2>3. results \in Surjection(DOMAIN results, set)
    BY DEF Surjection, ToSet
  <2> HIDE DEF set
  <2> QED BY <2>2, <2>3, FS_Surjection
<1>3. ASSUME NEW r \in looked PROVE IsFiniteSet(positions(r))
  <2>1. names[r.dataset] \in Seq(Names)
    OBVIOUS
  <2>2. IsFiniteSet(DOMAIN names[r.dataset])
    <3>1. DOMAIN names[r.dataset] = 1 .. Len(names[r.dataset]) /\ Len(names[r.dataset]) \in Nat
      BY <2>1
    <3> QED BY <3>1, FS_Interval
  <2>3. positions(r) \in SUBSET (DOMAIN names[r.dataset])
    BY DEF PositionsOf
  <2> QED BY <2>2, <2>3, FS_Subset
<1>4. IsFiniteSet(all)
  <2> DEFINE X == [r \in looked |-> {r} \X positions(r)]
             found == UnionOf(X, looked)
             F == [p \in found |-> hit(p[1], p[2])]
             sizes == [r \in looked |-> Cardinality(X[r])]
  <2>1. IsFiniteSet(looked)
    <3>1. looked \in SUBSET set
      OBVIOUS
    <3> HIDE DEF looked, set
    <3> QED BY <1>2, <3>1, FS_Subset
  <2>2. ASSUME NEW r \in looked PROVE IsFiniteSet(X[r]) /\ Cardinality(X[r]) \in Nat
    <3>1. IsFiniteSet({r})
      BY FS_Singleton
    <3>2. IsFiniteSet({r} \X positions(r))
      <4> HIDE DEF positions, looked
      <4> QED BY <1>3, <3>1, FS_Product
    <3>3. X[r] = {r} \X positions(r)
      OBVIOUS
    <3> HIDE DEF X, positions, looked
    <3> QED BY <3>2, <3>3, FS_CardinalityType
  <2>3. \A q, r \in looked : q # r => X[q] \cap X[r] = {}
    <3> HIDE DEF positions, looked
    <3> QED OBVIOUS
  <2>4. sizes \in [looked -> Nat] /\ \A r \in looked : sizes[r] = Cardinality(X[r])
    <3> HIDE DEF X, looked
    <3> QED BY <2>2
  <2>5. IsFiniteSet(found)
    <3> HIDE DEF X, looked, sizes
    <3> QED BY <2>1, <2>2, <2>3, <2>4, SumOfSizes
  <2>6. F \in Surjection(found, all)
    <3>1. ASSUME NEW p \in found PROVE F[p] \in all
      <4>1. PICK r \in looked : p \in X[r]
        BY DEF UnionOf
      <4>2. p = <<r, p[2]>> /\ p[2] \in positions(r)
        <5> HIDE DEF positions, looked
        <5> QED BY <4>1
      <4>3. F[p] = hit(r, p[2])
        BY <4>2
      <4> HIDE DEF F, positions, looked, all, hit
      <4> QED BY <1>1, <4>2, <4>3
    <3>2. ASSUME NEW h \in all PROVE \E p \in found : F[p] = h
      <4>5. PICK r \in looked : h \in {hit(r, i) : i \in positions(r)}
        <5> HIDE DEF positions, looked, all, hit
        <5> QED BY <1>1
      <4>1. PICK i \in positions(r) : h = hit(r, i)
        <5> HIDE DEF positions, looked, all, hit
        <5> QED BY <4>5
      <4>2. <<r, i>> \in X[r]
        OBVIOUS
      <4>3. <<r, i>> \in found
        <5> HIDE DEF X, looked, positions
        <5> QED BY <4>2 DEF UnionOf
      <4>4. F[<<r, i>>] = h
        BY <4>1, <4>3
      <4> QED BY <4>3, <4>4
    <3>3. DOMAIN F = found /\ F = [p \in found |-> F[p]]
      OBVIOUS
    <3> HIDE DEF F, found, all
    <3> QED BY <3>1, <3>2, <3>3 DEF Surjection
  <2> HIDE DEF found, F, all
  <2> QED BY <2>5, <2>6, FS_Surjection
<1>5. ASSUME NEW hits \in TextualByQuery(results, names, matching, passing)
      PROVE  /\ hits \subseteq all
             /\ \A h \in all \ hits : Cardinality(hits) = TopK /\ \A t \in hits : t.score >= h.score
  <2>1. hits \in Returned(all)
    BY DEF TextualByQuery
  <2> HIDE DEF all
  <2> QED BY <1>4, <2>1, BestReturned
<1> SUFFICES ASSUME NEW hits \in TextualByQuery(results, names, matching, passing)
             PROVE  /\ \A h \in hits : h.dataset \in passing
                                       /\ \E r \in set : r.dataset = h.dataset /\ h.index \in positions(r)
                    /\ (\A r \in set : r.dataset \in DOMAIN names) =>
                         \A r \in set, n \in TextualByName(results, names) :
                           r.dataset \in passing /\ n.dataset = r.dataset /\ n.index \in positions(r) =>
                             \/ \E h \in hits : h.dataset = r.dataset /\ h.index = n.index
                             \/ Cardinality(hits) = TopK /\ \A h \in hits : h.score >= score(r)
  <2> HIDE DEF positions, set, score
  <2> QED BY DEF TextualSound, positions, set, score
<1>6. ASSUME NEW h \in hits
      PROVE  h.dataset \in passing /\ \E r \in set : r.dataset = h.dataset /\ h.index \in positions(r)
  <2>4. PICK r \in looked : h \in {hit(r, i) : i \in positions(r)}
    <3>1. h \in all
      BY <1>5
    <3> HIDE DEF positions, looked, all, hit
    <3> QED BY <1>1, <3>1
  <2>1. PICK i \in positions(r) : h = hit(r, i)
    <3> HIDE DEF positions, looked, hit
    <3> QED BY <2>4
  <2>2. h.dataset = r.dataset /\ h.index = i
    BY <2>1
  <2>3. r \in set /\ r.dataset \in passing
    OBVIOUS
  <2> HIDE DEF looked, set, positions
  <2> QED BY <2>1, <2>2, <2>3
<1>7. ASSUME NEW r \in set, r.dataset \in DOMAIN names, r.dataset \in passing, NEW i \in positions(r),
             ~ \E h \in hits : h.dataset = r.dataset /\ h.index = i
      PROVE  Cardinality(hits) = TopK /\ \A h \in hits : h.score >= score(r)
  <2> DEFINE new == hit(r, i)
  <2>1. r \in looked
    BY <1>7
  <2>2. new \in all
    <3> HIDE DEF positions, looked, all, hit
    <3> QED BY <1>1, <2>1
  <2>3. new.dataset = r.dataset /\ new.index = i /\ new.score = score(r)
    <3> HIDE DEF score
    <3> QED OBVIOUS
  <2>4. new \notin hits
    <3> HIDE DEF new
    <3> QED BY <1>7, <2>3
  <2> HIDE DEF new, all, score
  <2>5. Cardinality(hits) = TopK /\ \A t \in hits : t.score >= new.score
    BY <1>5, <2>2, <2>4
  <2> QED BY <2>3, <2>5
<1> HIDE DEF set, positions, score
<1> QED BY <1>6, <1>7

-----------------------------------------------------------------------------
(* Lists that are made of lists: FlattenSeq() joins them from the first to  *)
(* the last.                                                                *)
Flattens(it, seqs) ==
  it = [i \in 1 .. Len(seqs) |-> IF i = 1 THEN seqs[i] ELSE it[i - 1] \o seqs[i]]
LEMMA FlattenIs ==
  ASSUME NEW seqs
  PROVE  FlattenSeq(seqs) = IF Len(seqs) = 0 THEN seqs
                            ELSE (CHOOSE it : Flattens(it, seqs))[Len(seqs)]
BY DEF FlattenSeq, Flattens

LEMMA Joining ==
  ASSUME NEW A, NEW s \in Seq(A), NEW t \in Seq(A)
  PROVE  /\ s \o t \in Seq(A) /\ Len(s) \in Nat /\ Len(t) \in Nat
         /\ DOMAIN s = 1 .. Len(s) /\ DOMAIN t = 1 .. Len(t)
         /\ Len(s \o t) = Len(s) + Len(t) /\ DOMAIN (s \o t) = 1 .. Len(s) + Len(t)
         /\ \A i \in 1 .. Len(s) : (s \o t)[i] = s[i]
         /\ \A i \in 1 .. Len(s) + Len(t) : i > Len(s) =>
              i - Len(s) \in 1 .. Len(t) /\ (s \o t)[i] = t[i - Len(s)]
BY ConcatProperties, LenProperties

(* The lists that are joined so far.                                        *)
Joins(r, seqs, n, A) ==
  /\ r \in [0 .. n -> Seq(A)]
  /\ r[0] = <<>>
  /\ \A i \in 1 .. n : r[i] = r[i - 1] \o seqs[i]
  /\ r[n] = FlattenSeq(seqs)
LEMMA FlattenSteps ==
  ASSUME NEW A, NEW n \in Nat, NEW seqs \in [1 .. n -> Seq(A)]
  PROVE  \E r : Joins(r, seqs, n, A)
<1>0. Len(seqs) = n /\ <<>> \in Seq(A)
  OBVIOUS
<1> DEFINE F == [p \in (1 .. n) \X Seq(A) |-> p[2] \o seqs[p[1]]]
<1>1. \A p \in (1 .. n) \X Seq(A) : p[2] \o seqs[p[1]] \in Seq(A)
  <2> SUFFICES ASSUME NEW p \in (1 .. n) \X Seq(A) PROVE p[2] \o seqs[p[1]] \in Seq(A)
    OBVIOUS
  <2>1. p[2] \in Seq(A) /\ seqs[p[1]] \in Seq(A)
    OBVIOUS
  <2> QED BY <2>1, Joining
<1>2. F \in [(1 .. n) \X Seq(A) -> Seq(A)]
  BY <1>1
<1>3. PICK r \in [0 .. n -> Seq(A)] :
        r[0] = <<>> /\ \A i \in 1 .. n : r[i] = F[<<i, r[i - 1]>>]
  <2> DEFINE V == Seq(A)
  <2>1. <<>> \in V /\ F \in [(1 .. n) \X V -> V]
    BY <1>0, <1>2
  <2> HIDE DEF F, V
  <2>2. PICK r : Recurs(r, n, V, <<>>, F)
    BY <2>1, RecursionExists
  <2> QED BY <2>2 DEF V, Recurs
<1>4. ASSUME NEW i \in 1 .. n PROVE r[i] = r[i - 1] \o seqs[i]
  <2>1. i - 1 \in 0 .. n
    OBVIOUS
  <2>2. r[i - 1] \in Seq(A)
    BY <2>1
  <2>3. <<i, r[i - 1]>> \in (1 .. n) \X Seq(A)
    BY <2>2
  <2>4. F[<<i, r[i - 1]>>] = r[i - 1] \o seqs[i]
    BY <2>3
  <2> QED BY <1>3, <2>4
<1>5. CASE n = 0
  <2>1. FlattenSeq(seqs) = seqs /\ seqs = <<>>
    BY <1>0, <1>5, FlattenIs
  <2> QED BY <1>3, <1>4, <1>5, <2>1 DEF Joins
<1>6. CASE n # 0
  <2> DEFINE h == [i \in 1 .. n |-> r[i]]
             it == CHOOSE f : Flattens(f, seqs)
  <2>1. Flattens(h, seqs)
    <3>1. ASSUME NEW i \in 1 .. n
          PROVE  r[i] = IF i = 1 THEN seqs[i] ELSE h[i - 1] \o seqs[i]
      <4>1. CASE i = 1
        <5>1. r[i] = <<>> \o seqs[i]
          <6>1. i - 1 = 0 /\ r[i] = r[i - 1] \o seqs[i]
            BY <1>4, <4>1
          <6> QED BY <1>3, <6>1
        <5>2. seqs[i] \in Seq(A)
          OBVIOUS
        <5>3. <<>> \o seqs[i] = seqs[i]
          BY <5>2
        <5> QED BY <4>1, <5>1, <5>3
      <4>2. CASE i # 1
        <5>1. i - 1 \in 1 .. n
          BY <4>2
        <5>2. h[i - 1] = r[i - 1]
          BY <5>1
        <5> QED BY <1>4, <4>2, <5>2
      <4> QED BY <4>1, <4>2
    <3> QED BY <1>0, <3>1 DEF Flattens
  <2>2. it = [i \in 1 .. n |-> IF i = 1 THEN seqs[i] ELSE it[i - 1] \o seqs[i]]
    <3>1. Flattens(it, seqs)
      <4> HIDE DEF h
      <4> QED BY <2>1
    <3> HIDE DEF it
    <3> QED BY <1>0, <3>1 DEF Flattens
  <2>3. \A i \in 1 .. n : it[i] = IF i = 1 THEN seqs[i] ELSE it[i - 1] \o seqs[i]
    <3> HIDE DEF it
    <3> QED BY <2>2
  <2>4. \A i \in 1 .. n : h[i] = IF i = 1 THEN seqs[i] ELSE h[i - 1] \o seqs[i]
    <3>1. h = [i \in 1 .. n |-> IF i = 1 THEN seqs[i] ELSE h[i - 1] \o seqs[i]]
      <4> HIDE DEF h
      <4> QED BY <1>0, <2>1 DEF Flattens
    <3> HIDE DEF h
    <3> QED BY <3>1
  <2> DEFINE M == {i \in Nat : i \in 1 .. n => it[i] = r[i]}
  <2>5. 0 \in M
    OBVIOUS
  <2>6. ASSUME NEW i \in 0 .. n - 1, i \in M PROVE i + 1 \in M
    <3> HIDE DEF it
    <3>1. i + 1 \in 1 .. n /\ h[i + 1] = r[i + 1] /\ i + 1 \in Nat
      OBVIOUS
    <3>2. CASE i = 0
      <4>1. it[1] = seqs[1] /\ h[1] = seqs[1]
        <5> HIDE DEF h
        <5> QED BY <1>6, <2>3, <2>4
      <4> QED BY <3>1, <3>2, <4>1
    <3>3. CASE i # 0
      <4>1. i \in 1 .. n /\ h[i] = r[i]
        BY <3>3
      <4>2. it[i] = r[i]
        BY <2>6, <4>1
      <4>3. i + 1 # 1 /\ (i + 1) - 1 = i
        BY <3>3
      <4>4. it[i + 1] = it[i] \o seqs[i + 1] /\ h[i + 1] = h[i] \o seqs[i + 1]
        <5> HIDE DEF h
        <5> QED BY <2>3, <2>4, <3>1, <4>3
      <4> HIDE DEF h
      <4> QED BY <3>1, <4>1, <4>2, <4>4
    <3> QED BY <3>2, <3>3
  <2>7. n \in M
    <3>1. M \in SUBSET Nat /\ n \in 0 .. n
      OBVIOUS
    <3> HIDE DEF M
    <3> QED BY <2>5, <2>6, <3>1, StepInduction
  <2>8. it[n] = r[n]
    BY <1>6, <2>7
  <2>9. FlattenSeq(seqs) = it[n]
    BY <1>0, <1>6, FlattenIs
  <2> HIDE DEF it
  <2> QED BY <1>3, <1>4, <2>8, <2>9 DEF Joins
<1> QED BY <1>5, <1>6

(* What is in the lists is in the joined list, those of the first first.    *)
Joint(flat, seqs, n, A) ==
  /\ flat \in Seq(A)
  /\ ToSet(flat) = UNION {ToSet(seqs[k]) : k \in 1 .. n}
  /\ \E b \in [1 .. Len(flat) -> 1 .. n] :
       /\ \A i \in 1 .. Len(flat) : flat[i] \in ToSet(seqs[b[i]])
       /\ \A i, j \in 1 .. Len(flat) : i <= j => b[i] <= b[j]
LEMMA OneMoreJoined ==
  ASSUME NEW A, NEW m \in Nat, NEW seqs \in [1 .. m + 1 -> Seq(A)], NEW flat, Joint(flat, seqs, m, A)
  PROVE  Joint(flat \o seqs[m + 1], seqs, m + 1, A)
<1> DEFINE t == seqs[m + 1]
           new == flat \o t
           L == Len(flat)
<1>1. flat \in Seq(A) /\ t \in Seq(A)
  BY DEF Joint
<1> HIDE DEF t
<1>2. /\ new \in Seq(A) /\ L \in Nat /\ Len(t) \in Nat
      /\ DOMAIN flat = 1 .. L /\ DOMAIN t = 1 .. Len(t)
      /\ Len(new) = L + Len(t) /\ DOMAIN new = 1 .. L + Len(t)
      /\ \A i \in 1 .. L : new[i] = flat[i]
      /\ \A i \in 1 .. L + Len(t) : i > L => i - L \in 1 .. Len(t) /\ new[i] = t[i - L]
  BY <1>1, Joining
<1>3. ToSet(new) = ToSet(flat) \cup ToSet(t)
  <2> HIDE DEF new, L
  <2>1. ASSUME NEW i \in 1 .. L PROVE new[i] = flat[i] /\ i \in 1 .. L + Len(t)
    BY <1>2
  <2>2. ASSUME NEW i \in 1 .. Len(t) PROVE new[L + i] = t[i] /\ L + i \in 1 .. L + Len(t)
    <3>1. L + i \in 1 .. L + Len(t) /\ L + i > L /\ (L + i) - L = i
      BY <1>2
    <3> QED BY <1>2, <3>1
  <2>3. ToSet(new) \subseteq ToSet(flat) \cup ToSet(t)
    <3> SUFFICES ASSUME NEW i \in 1 .. L + Len(t) PROVE new[i] \in ToSet(flat) \cup ToSet(t)
      BY <1>2 DEF ToSet
    <3>1. CASE i > L
      BY <1>2, <3>1 DEF ToSet
    <3>2. CASE ~ (i > L)
      <4>1. i \in 1 .. L
        BY <1>2, <3>2
      <4> QED BY <1>2, <4>1 DEF ToSet
    <3> QED BY <3>1, <3>2
  <2>4. ToSet(flat) \subseteq ToSet(new)
    BY <1>2, <2>1 DEF ToSet
  <2>5. ToSet(t) \subseteq ToSet(new)
    <3> SUFFICES ASSUME NEW i \in 1 .. Len(t) PROVE t[i] \in ToSet(new)
      BY <1>2 DEF ToSet
    <3>1. L + i \in DOMAIN new /\ new[L + i] = t[i]
      BY <1>2, <2>2
    <3> QED BY <3>1 DEF ToSet
  <2> QED BY <2>3, <2>4, <2>5
<1>4. ToSet(new) = UNION {ToSet(seqs[k]) : k \in 1 .. m + 1}
  <2>1. ToSet(flat) = UNION {ToSet(seqs[k]) : k \in 1 .. m}
    BY DEF Joint
  <2>2. 1 .. m + 1 = (1 .. m) \cup {m + 1}
    OBVIOUS
  <2>3. UNION {ToSet(seqs[k]) : k \in 1 .. m + 1} = ToSet(flat) \cup ToSet(t)
    <3> HIDE DEF L, new
    <3> QED BY <2>1, <2>2 DEF t
  <2> HIDE DEF new
  <2> QED BY <1>3, <2>3
<1>5. PICK b \in [1 .. L -> 1 .. m] :
        /\ \A i \in 1 .. L : flat[i] \in ToSet(seqs[b[i]])
        /\ \A i, j \in 1 .. L : i <= j => b[i] <= b[j]
  BY DEF Joint
<1> DEFINE c == [i \in 1 .. L + Len(t) |-> IF i <= L THEN b[i] ELSE m + 1]
<1>6. ASSUME NEW i \in 1 .. L + Len(t)
      PROVE  /\ c[i] \in 1 .. m + 1
             /\ i <= L => i \in 1 .. L /\ c[i] = b[i] /\ b[i] \in 1 .. m
             /\ ~ (i <= L) => c[i] = m + 1
  <2> HIDE DEF L, new
  <2>1. CASE i <= L
    <3>1. i \in 1 .. L
      BY <1>2, <2>1
    <3> QED BY <1>2, <2>1, <3>1
  <2>2. CASE ~ (i <= L)
    BY <1>2, <2>2
  <2> QED BY <2>1, <2>2
<1>7. c \in [1 .. L + Len(t) -> 1 .. m + 1]
  BY <1>6
<1>8. ASSUME NEW i \in 1 .. L + Len(t) PROVE new[i] \in ToSet(seqs[c[i]])
  <2> HIDE DEF c, L, new
  <2>1. CASE i <= L
    BY <1>2, <1>5, <1>6, <2>1
  <2>2. CASE ~ (i <= L)
    <3>1. i - L \in 1 .. Len(t) /\ new[i] = t[i - L]
      BY <1>2, <2>2
    <3>2. new[i] \in ToSet(t)
      BY <1>2, <3>1 DEF ToSet
    <3> QED BY <1>6, <2>2, <3>2 DEF t
  <2> QED BY <2>1, <2>2
<1>9. ASSUME NEW i \in 1 .. L + Len(t), NEW j \in 1 .. L + Len(t), i <= j PROVE c[i] <= c[j]
  <2> HIDE DEF c, L
  <2>1. CASE j <= L
    <3>1. i <= L
      BY <1>2, <1>9, <2>1
    <3> QED BY <1>5, <1>6, <1>9, <2>1, <3>1
  <2>2. CASE ~ (j <= L)
    BY <1>6, <2>2
  <2> QED BY <2>1, <2>2
<1> HIDE DEF c, new, L
<1>10. \E f \in [1 .. Len(new) -> 1 .. m + 1] :
         /\ \A i \in 1 .. Len(new) : new[i] \in ToSet(seqs[f[i]])
         /\ \A i, j \in 1 .. Len(new) : i <= j => f[i] <= f[j]
  BY <1>2, <1>7, <1>8, <1>9
<1>11. Joint(new, seqs, m + 1, A)
  BY <1>2, <1>4, <1>10 DEF Joint
<1> QED BY <1>11 DEF new, t

LEMMA FlattenJoins ==
  ASSUME NEW A, NEW n \in Nat, NEW seqs \in [1 .. n -> Seq(A)]
  PROVE  Joint(FlattenSeq(seqs), seqs, n, A)
<1>1. PICK r : Joins(r, seqs, n, A)
  BY FlattenSteps
<1> DEFINE M == {m \in Nat : m <= n => Joint(r[m], seqs, m, A)}
<1>2. 0 \in M
  <2>1. r[0] = <<>> /\ <<>> \in Seq(A) /\ Len(<<>>) = 0 /\ ToSet(<<>>) = {} /\ 1 .. 0 = {}
    BY <1>1 DEF Joins, ToSet
  <2> DEFINE b == [i \in 1 .. 0 |-> i]
  <2>2. b \in [1 .. 0 -> 1 .. 0]
    OBVIOUS
  <2>3. UNION {ToSet(seqs[k]) : k \in 1 .. 0} = {}
    BY <2>1
  <2> HIDE DEF b
  <2>4. Joint(<<>>, seqs, 0, A)
    BY <2>1, <2>2, <2>3 DEF Joint
  <2> QED BY <2>1, <2>4
<1>3. ASSUME NEW m \in 0 .. n - 1, m \in M PROVE m + 1 \in M
  <2>1. m \in Nat /\ m + 1 \in 1 .. n /\ m <= n
    OBVIOUS
  <2> DEFINE part == [k \in 1 .. m + 1 |-> seqs[k]]
  <2>2. part \in [1 .. m + 1 -> Seq(A)] /\ \A k \in 1 .. m + 1 : part[k] = seqs[k]
    BY <2>1
  <2>3. 1 .. m \subseteq 1 .. m + 1 /\ m + 1 \in 1 .. m + 1
    BY <2>1
  <2> HIDE DEF part
  <2>4. ASSUME NEW x, NEW k \in Nat, k <= m + 1
        PROVE  Joint(x, part, k, A) <=> Joint(x, seqs, k, A)
    <3>1. 1 .. k \subseteq 1 .. m + 1
      BY <2>1, <2>4
    <3>2. {ToSet(part[l]) : l \in 1 .. k} = {ToSet(seqs[l]) : l \in 1 .. k}
      BY <2>2, <3>1
    <3>3. ASSUME NEW b \in [1 .. Len(x) -> 1 .. k], NEW i \in 1 .. Len(x)
          PROVE  part[b[i]] = seqs[b[i]]
      <4>1. b[i] \in 1 .. k
        OBVIOUS
      <4> QED BY <2>2, <3>1, <4>1
    <3> QED BY <3>2, <3>3 DEF Joint
  <2>5. Joint(r[m], part, m, A)
    BY <1>3, <2>1, <2>4
  <2>6. Joint(r[m] \o part[m + 1], part, m + 1, A)
    BY <2>1, <2>2, <2>5, OneMoreJoined
  <2>7. r[m + 1] = r[m] \o part[m + 1]
    <3>1. (m + 1) - 1 = m
      BY <2>1
    <3>2. \A i \in 1 .. n : r[i] = r[i - 1] \o seqs[i]
      BY <1>1 DEF Joins
    <3>3. r[m + 1] = r[(m + 1) - 1] \o seqs[m + 1]
      BY <2>1, <3>2
    <3> QED BY <2>2, <2>3, <3>1, <3>3
  <2>8. Joint(r[m + 1], seqs, m + 1, A)
    BY <2>1, <2>4, <2>6, <2>7
  <2> QED BY <2>1, <2>8
<1>4. n \in M
  <2>1. M \in SUBSET Nat /\ n \in 0 .. n
    OBVIOUS
  <2> HIDE DEF M
  <2> QED BY <1>2, <1>3, <2>1, StepInduction
<1> QED BY <1>1, <1>4 DEF Joins

(* A list of what is kept of n candidates.                                  *)
Picks(seqs, n, K, g, A) ==
  /\ K \in SUBSET (1 .. n) /\ g \in [K -> A]
  /\ seqs = [k \in 1 .. n |-> IF k \in K THEN <<g[k]>> ELSE <<>>]
LEMMA Picked ==
  ASSUME NEW A, NEW n \in Nat, NEW K, NEW g, NEW seqs, Picks(seqs, n, K, g, A)
  PROVE  Joint(FlattenSeq(seqs), seqs, n, A) /\ ToSet(FlattenSeq(seqs)) = {g[k] : k \in K}
<1>0. K \in SUBSET (1 .. n) /\ g \in [K -> A]
  BY DEF Picks
<1>1. ASSUME NEW a \in A PROVE <<a>> \in Seq(A) /\ ToSet(<<a>>) = {a}
  <2>1. <<a>> \in Seq(A) /\ DOMAIN <<a>> = {1} /\ <<a>>[1] = a
    OBVIOUS
  <2> QED BY <2>1 DEF ToSet
<1>2. <<>> \in Seq(A) /\ ToSet(<<>>) = {}
  BY DEF ToSet
<1>3. \A k \in 1 .. n : seqs[k] \in Seq(A) /\ ToSet(seqs[k]) = IF k \in K THEN {g[k]} ELSE {}
  BY <1>0, <1>1, <1>2 DEF Picks
<1>4. seqs \in [1 .. n -> Seq(A)]
  BY <1>3 DEF Picks
<1>5. Joint(FlattenSeq(seqs), seqs, n, A)
  BY <1>4, FlattenJoins
<1>6. ToSet(FlattenSeq(seqs)) = UNION {ToSet(seqs[k]) : k \in 1 .. n}
  BY <1>5 DEF Joint
<1>7. UNION {ToSet(seqs[k]) : k \in 1 .. n} = {g[k] : k \in K}
  <2>1. ASSUME NEW x, x \in UNION {ToSet(seqs[k]) : k \in 1 .. n} PROVE x \in {g[k] : k \in K}
    <3>1. PICK k \in 1 .. n : x \in ToSet(seqs[k])
      BY <2>1
    <3>2. k \in K /\ x = g[k]
      BY <1>3, <3>1
    <3> QED BY <3>2
  <2>2. ASSUME NEW k \in K PROVE g[k] \in UNION {ToSet(seqs[j]) : j \in 1 .. n}
    <3>1. k \in 1 .. n /\ ToSet(seqs[k]) = {g[k]}
      BY <1>0, <1>3
    <3> QED BY <3>1
  <2> QED BY <2>1, <2>2
<1> QED BY <1>5, <1>6, <1>7

-----------------------------------------------------------------------------
(* Searches for unions.  The names of the columns of the data, but for that *)
(* of the index, are in N, and those of the dataset in M.                   *)
ColumnsWith(N, T) == [name : N, structural : T, semantic : Seq(T)]
Entries(N, T) == [type : T, name : N]
Candidate(N, M) == [left : N, right : M, similarity : 1 .. Same, relevance : Nat]

AreSimilar(similarity, N, M) == similarity \in [N \X M -> 0 .. Same]

LEMMA TypesAre ==
  ASSUME NEW N, NEW T, NEW column \in ColumnsWith(N, T)
  PROVE  TypesOf(column) \in Seq(T)
<1>1. column.structural \in T /\ column.semantic \in Seq(T)
  BY DEF ColumnsWith
<1>2. <<column.structural>> \in Seq(T)
  BY <1>1
<1> QED BY <1>1, <1>2 DEF TypesOf

LEMMA NamesTyped ==
  ASSUME NEW N, NEW T, NEW columns \in Seq(ColumnsWith(N \cup {"d3mIndex"}, T)), NEW filter
  PROVE  /\ NamesWithTypes(columns, filter) \in Seq(Entries(N, T))
         /\ \A e \in ToSet(NamesWithTypes(columns, filter)) : \E i \in DOMAIN columns :
              /\ IsConsidered(columns, filter, i)
              /\ e.name = columns[i].name /\ e.type \in ToSet(TypesOf(columns[i]))
<1> DEFINE n == Len(columns)
           E == Entries(N, T)
           Of(i) == [t \in DOMAIN TypesOf(columns[i]) |->
                       [type |-> TypesOf(columns[i])[t], name |-> columns[i].name]]
           seqs == [i \in DOMAIN columns |-> When(IsConsidered(columns, filter, i), Of(i))]
<1>1. n \in Nat /\ DOMAIN columns = 1 .. n
  BY LenProperties
<1>2. ASSUME NEW i \in 1 .. n
      PROVE  columns[i] \in ColumnsWith(N \cup {"d3mIndex"}, T) /\ TypesOf(columns[i]) \in Seq(T)
  <2>1. columns[i] \in ColumnsWith(N \cup {"d3mIndex"}, T)
    BY <1>1
  <2> QED BY <2>1, TypesAre
<1>3. ASSUME NEW i \in 1 .. n, IsConsidered(columns, filter, i)
      PROVE  /\ Of(i) \in Seq(E)
             /\ \A e \in ToSet(Of(i)) :
                  e.name = columns[i].name /\ e.type \in ToSet(TypesOf(columns[i]))
  <2>1. columns[i].name \in N
    BY <1>2, <1>3 DEF ColumnsWith, IsConsidered
  <2> DEFINE types == TypesOf(columns[i])
             m == Len(types)
  <2>2. types \in Seq(T) /\ m \in Nat /\ DOMAIN types = 1 .. m /\ \A t \in 1 .. m : types[t] \in T
    BY <1>2
  <2> HIDE DEF types
  <2>3. ASSUME NEW t \in 1 .. m PROVE [type |-> types[t], name |-> columns[i].name] \in E
    BY <2>1, <2>2, <2>3 DEF Entries
  <2>4. [t \in DOMAIN types |-> [type |-> types[t], name |-> columns[i].name]] \in [1 .. m -> E]
    <3> HIDE DEF E, m
    <3> QED BY <2>2, <2>3
  <2>5. Of(i) \in Seq(E)
    <3>1. Of(i) = [t \in DOMAIN types |-> [type |-> types[t], name |-> columns[i].name]]
      BY DEF types
    <3> HIDE DEF E, Of, m
    <3> QED BY <2>2, <2>4, <3>1
  <2>6. DOMAIN Of(i) = 1 .. m /\ \A t \in 1 .. m : Of(i)[t] = [type |-> types[t], name |-> columns[i].name]
    <3> HIDE DEF m
    <3> QED BY <2>2 DEF types
  <2>7. ASSUME NEW t \in 1 .. m PROVE Of(i)[t].name = columns[i].name /\ Of(i)[t].type \in ToSet(types)
    <3>1. types[t] \in ToSet(types)
      BY <2>2 DEF ToSet
    <3> HIDE DEF Of
    <3> QED BY <2>6, <3>1
  <2>8. \A e \in ToSet(Of(i)) : \E t \in 1 .. m : e = Of(i)[t]
    <3> HIDE DEF Of, m
    <3> QED BY <2>6 DEF ToSet
  <2>9. \A e \in ToSet(Of(i)) : e.name = columns[i].name /\ e.type \in ToSet(types)
    <3> HIDE DEF Of
    <3> QED BY <2>7, <2>8
  <2> HIDE DEF Of
  <2> QED BY <2>5, <2>9 DEF types
<1>4. ASSUME NEW i \in 1 .. n
      PROVE  /\ seqs[i] \in Seq(E)
             /\ \A e \in ToSet(seqs[i]) :
                  /\ IsConsidered(columns, filter, i)
                  /\ e.name = columns[i].name /\ e.type \in ToSet(TypesOf(columns[i]))
  <2>1. seqs[i] = IF IsConsidered(columns, filter, i) THEN Of(i) ELSE <<>>
    BY <1>1 DEF When
  <2>2. <<>> \in Seq(E) /\ ToSet(<<>>) = {}
    BY DEF ToSet
  <2> HIDE DEF Of, seqs, E
  <2> QED BY <1>3, <2>1, <2>2
<1>5. seqs \in [1 .. n -> Seq(E)]
  <2> HIDE DEF E
  <2>1. seqs = [i \in 1 .. n |-> seqs[i]]
    BY <1>1
  <2> HIDE DEF seqs
  <2> QED BY <1>4, <2>1
<1>6. Joint(FlattenSeq(seqs), seqs, n, E)
  <2> HIDE DEF seqs, E
  <2> QED BY <1>1, <1>5, FlattenJoins
<1>7. NamesWithTypes(columns, filter) = FlattenSeq(seqs)
  BY DEF NamesWithTypes
<1> HIDE DEF seqs, E
<1>8. ToSet(FlattenSeq(seqs)) = UNION {ToSet(seqs[i]) : i \in 1 .. n} /\ FlattenSeq(seqs) \in Seq(E)
  BY <1>6 DEF Joint
<1>9. \A e \in ToSet(FlattenSeq(seqs)) : \E i \in DOMAIN columns :
        /\ IsConsidered(columns, filter, i)
        /\ e.name = columns[i].name /\ e.type \in ToSet(TypesOf(columns[i]))
  <2> HIDE DEF n
  <2> QED BY <1>1, <1>4, <1>8
<1> QED BY <1>7, <1>8, <1>9 DEF E

(* The elements of a list that is kept in part are elements of the list.    *)
LEMMA PartOfList ==
  ASSUME NEW A, NEW s \in Seq(A), NEW K \in SUBSET (DOMAIN s), NEW seqs,
         seqs = [k \in DOMAIN s |-> IF k \in K THEN <<s[k]>> ELSE <<>>]
  PROVE  FlattenSeq(seqs) \in Seq(A) /\ ToSet(FlattenSeq(seqs)) = {s[k] : k \in K}
<1> DEFINE n == Len(s)
           g == [k \in K |-> s[k]]
<1>1. n \in Nat /\ DOMAIN s = 1 .. n /\ \A k \in 1 .. n : s[k] \in A
  OBVIOUS
<1>2. g \in [K -> A] /\ \A k \in K : g[k] = s[k]
  BY <1>1
<1> HIDE DEF g, n
<1>3. Picks(seqs, n, K, g, A)
  BY <1>1, <1>2 DEF Picks
<1>4. Joint(FlattenSeq(seqs), seqs, n, A) /\ ToSet(FlattenSeq(seqs)) = {g[k] : k \in K}
  <2>1. n \in Nat
    BY <1>1
  <2> QED BY <1>3, <2>1, Picked
<1>5. {g[k] : k \in K} = {s[k] : k \in K}
  BY <1>2
<1> QED BY <1>4, <1>5 DEF Joint

LEMMA GroupedTyped ==
  ASSUME NEW E, NEW typed \in Seq(E)
  PROVE  GroupedByType(typed) \in Seq(E) /\ ToSet(GroupedByType(typed)) \subseteq ToSet(typed)
<1> DEFINE n == Len(typed)
           seqs == [k \in DOMAIN typed |-> When(~IsMet(typed, k), WithType(typed, typed[k].type))]
<1>1. n \in Nat /\ DOMAIN typed = 1 .. n
  BY LenProperties
<1>2. ASSUME NEW type
      PROVE  WithType(typed, type) \in Seq(E) /\ ToSet(WithType(typed, type)) \subseteq ToSet(typed)
  <2> DEFINE K == {k \in DOMAIN typed : typed[k].type = type}
             parts == [k \in DOMAIN typed |-> When(typed[k].type = type, <<typed[k]>>)]
  <2>1. parts = [k \in DOMAIN typed |-> IF k \in K THEN <<typed[k]>> ELSE <<>>]
    BY DEF When
  <2>2. K \in SUBSET (DOMAIN typed)
    OBVIOUS
  <2>3. WithType(typed, type) = FlattenSeq(parts)
    BY DEF WithType
  <2> HIDE DEF parts, K
  <2>4. FlattenSeq(parts) \in Seq(E) /\ ToSet(FlattenSeq(parts)) = {typed[k] : k \in K}
    BY <2>1, <2>2, PartOfList
  <2>5. {typed[k] : k \in K} \subseteq ToSet(typed)
    BY <2>2 DEF ToSet
  <2> QED BY <2>3, <2>4, <2>5
<1>3. ASSUME NEW k \in 1 .. n
      PROVE  seqs[k] \in Seq(E) /\ ToSet(seqs[k]) \subseteq ToSet(typed)
  <2>1. seqs[k] = IF ~IsMet(typed, k) THEN WithType(typed, typed[k].type) ELSE <<>>
    BY <1>1 DEF When
  <2>2. <<>> \in Seq(E) /\ ToSet(<<>>) = {}
    BY DEF ToSet
  <2> HIDE DEF seqs
  <2> QED BY <1>2, <2>1, <2>2
<1>4. seqs \in [1 .. n -> Seq(E)]
  <2>1. seqs = [i \in 1 .. n |-> seqs[i]]
    BY <1>1
  <2> HIDE DEF seqs
  <2> QED BY <1>3, <2>1
<1>5. Joint(FlattenSeq(seqs), seqs, n, E)
  <2> HIDE DEF seqs
  <2> QED BY <1>1, <1>4, FlattenJoins
<1>6. GroupedByType(typed) = FlattenSeq(seqs)
  BY DEF GroupedByType
<1> HIDE DEF seqs
<1> QED BY <1>3, <1>5, <1>6 DEF Joint

(* What two columns have in common when they are candidates to be paired.   *)
Comes(c, columns, filter, other) ==
  \E i \in DOMAIN columns, h \in DOMAIN other :
    /\ IsConsidered(columns, filter, i)
    /\ c.left = columns[i].name /\ c.right = other[h].name
    /\ ToSet(TypesOf(columns[i])) \cap (ToSet(other[h].semantic) \cup {other[h].structural}) # {}

LooksFor(c, columns, filter) ==
  \E k \in DOMAIN TypedNames(columns, filter) : TypedNames(columns, filter)[k].name = c.left

LEMMA TypedNamesAre ==
  ASSUME NEW N, NEW T, NEW columns \in Seq(ColumnsWith(N \cup {"d3mIndex"}, T)), NEW filter
  PROVE  /\ TypedNames(columns, filter) \in Seq(Entries(N, T))
         /\ \A e \in ToSet(TypedNames(columns, filter)) : \E i \in DOMAIN columns :
              /\ IsConsidered(columns, filter, i)
              /\ e.name = columns[i].name /\ e.type \in ToSet(TypesOf(columns[i]))
<1> DEFINE typed == NamesWithTypes(columns, filter)
           E == Entries(N, T)
<1>1. /\ typed \in Seq(E)
      /\ \A e \in ToSet(typed) : \E i \in DOMAIN columns :
           /\ IsConsidered(columns, filter, i)
           /\ e.name = columns[i].name /\ e.type \in ToSet(TypesOf(columns[i]))
  BY NamesTyped
<1>2. TypedNames(columns, filter) = GroupedByType(typed)
  BY DEF TypedNames
<1> HIDE DEF typed, E
<1>3. GroupedByType(typed) \in Seq(E) /\ ToSet(GroupedByType(typed)) \subseteq ToSet(typed)
  BY <1>1, GroupedTyped
<1> QED BY <1>1, <1>2, <1>3 DEF E

LEMMA HitsAre ==
  ASSUME NEW N, NEW M, NEW T, NEW other \in Seq(ColumnsWith(M, T)), NEW e \in Entries(N, T),
         NEW similarity, AreSimilar(similarity, N, M), NEW relevance \in [Entries(N, T) -> Nat]
  PROVE  /\ Hits(e, other, similarity, relevance) \in Seq(Candidate(N, M))
         /\ \A c \in ToSet(Hits(e, other, similarity, relevance)) : \E h \in DOMAIN other :
              /\ c.left = e.name /\ c.right = other[h].name
              /\ e.type \in ToSet(other[h].semantic) \cup {other[h].structural}
<1> DEFINE n == Len(other)
           P == Candidate(N, M)
           K == {h \in 1 .. n : IsHit(e, other[h], similarity)}
           g == [h \in K |-> [left |-> e.name, right |-> other[h].name,
                              similarity |-> similarity[e.name, other[h].name], relevance |-> relevance[e]]]
           seqs == [h \in DOMAIN other |->
                      When(IsHit(e, other[h], similarity),
                           <<[left |-> e.name, right |-> other[h].name,
                              similarity |-> similarity[e.name, other[h].name], relevance |-> relevance[e]]>>)]
<1>1. n \in Nat /\ DOMAIN other = 1 .. n
  BY LenProperties
<1>2. ASSUME NEW h \in K
      PROVE  /\ h \in 1 .. n /\ g[h] \in P
             /\ g[h].left = e.name /\ g[h].right = other[h].name
             /\ e.type \in ToSet(other[h].semantic) \cup {other[h].structural}
  <2>1. h \in 1 .. n /\ IsHit(e, other[h], similarity) /\ other[h] \in ColumnsWith(M, T)
    BY <1>1
  <2>2. other[h].name \in M /\ e.name \in N
    BY <2>1 DEF ColumnsWith, Entries
  <2> DEFINE x == similarity[e.name, other[h].name]
             r == g[h]
  <2>3. x \in 0 .. Same
    BY <2>2 DEF AreSimilar
  <2>4. x \in 1 .. Same
    <3>1. x > 0
      BY <2>1 DEF IsHit
    <3>2. \A s \in 0 .. Same : s > 0 => s \in 1 .. Same
      BY SameAssumption
    <3> HIDE DEF x
    <3> QED BY <2>3, <3>1, <3>2
  <2>5. r = [left |-> e.name, right |-> other[h].name, similarity |-> x, relevance |-> relevance[e]]
    OBVIOUS
  <2>9. relevance[e] \in Nat
    OBVIOUS
  <2> HIDE DEF g, K, r, x
  <2>6. r \in P
    <3> DEFINE y == relevance[e]
    <3>1. y \in Nat /\ r = [left |-> e.name, right |-> other[h].name, similarity |-> x, relevance |-> y]
      BY <2>5, <2>9
    <3> HIDE DEF y
    <3> QED BY <2>2, <2>4, <3>1 DEF Candidate
  <2>7. r.left = e.name /\ r.right = other[h].name
    BY <2>5
  <2>8. e.type \in ToSet(other[h].semantic) \cup {other[h].structural}
    BY <2>1 DEF IsHit
  <2> QED BY <2>1, <2>6, <2>7, <2>8 DEF r
<1>4. Hits(e, other, similarity, relevance) = FlattenSeq(seqs)
  BY DEF Hits
<1>5. g \in [K -> P] /\ K \in SUBSET (1 .. n)
  <2>1. g = [h \in K |-> g[h]]
    OBVIOUS
  <2> HIDE DEF g, P
  <2> QED BY <1>2, <2>1
<1>3. Picks(seqs, n, K, g, P)
  <2>1. seqs = [h \in 1 .. n |-> IF h \in K THEN <<g[h]>> ELSE <<>>]
    <3> HIDE DEF n
    <3> QED BY <1>1 DEF When
  <2> HIDE DEF seqs, g, P, K
  <2> QED BY <1>5, <2>1 DEF Picks
<1> HIDE DEF seqs, g, K, P, n
<1>6. Joint(FlattenSeq(seqs), seqs, n, P) /\ ToSet(FlattenSeq(seqs)) = {g[h] : h \in K}
  BY <1>1, <1>3, <1>5, Picked
<1>7. FlattenSeq(seqs) \in Seq(P)
  BY <1>6 DEF Joint
<1>8. \A c \in ToSet(FlattenSeq(seqs)) : \E h \in DOMAIN other :
        /\ c.left = e.name /\ c.right = other[h].name
        /\ e.type \in ToSet(other[h].semantic) \cup {other[h].structural}
  BY <1>1, <1>2, <1>6
<1> QED BY <1>4, <1>7, <1>8 DEF P

LEMMA CandidatesAre ==
  ASSUME NEW N, NEW M, NEW T, NEW columns \in Seq(ColumnsWith(N \cup {"d3mIndex"}, T)),
         NEW filter, NEW other \in Seq(ColumnsWith(M, T)), NEW similarity, AreSimilar(similarity, N, M),
         NEW relevance \in [Entries(N, T) -> Nat]
  PROVE  /\ Candidates(columns, filter, other, similarity, relevance) \in Seq(Candidate(N, M))
         /\ \A c \in ToSet(Candidates(columns, filter, other, similarity, relevance)) :
              Comes(c, columns, filter, other) /\ LooksFor(c, columns, filter)
<1> DEFINE typed == TypedNames(columns, filter)
           n == Len(typed)
           P == Candidate(N, M)
           seqs == [k \in DOMAIN typed |-> Hits(typed[k], other, similarity, relevance)]
<1>1. /\ typed \in Seq(Entries(N, T)) /\ n \in Nat /\ DOMAIN typed = 1 .. n
      /\ \A e \in ToSet(typed) : \E i \in DOMAIN columns :
           /\ IsConsidered(columns, filter, i)
           /\ e.name = columns[i].name /\ e.type \in ToSet(TypesOf(columns[i]))
  <2>1. typed \in Seq(Entries(N, T))
    BY TypedNamesAre
  <2> HIDE DEF typed
  <2> QED BY <2>1, TypedNamesAre, LenProperties DEF typed
<1>2. Candidates(columns, filter, other, similarity, relevance) = FlattenSeq(seqs)
  BY DEF Candidates
<1> HIDE DEF typed
<1>3. ASSUME NEW k \in 1 .. n
      PROVE  /\ seqs[k] \in Seq(P)
             /\ \A c \in ToSet(seqs[k]) :
                  Comes(c, columns, filter, other) /\ typed[k].name = c.left
  <2> DEFINE e == typed[k]
  <2>1. e \in Entries(N, T) /\ e \in ToSet(typed) /\ seqs[k] = Hits(e, other, similarity, relevance)
    <3>1. k \in DOMAIN typed
      BY <1>1
    <3> HIDE DEF n
    <3> QED BY <1>1, <3>1 DEF ToSet
  <2> HIDE DEF e, seqs
  <2>2. /\ Hits(e, other, similarity, relevance) \in Seq(P)
        /\ \A c \in ToSet(Hits(e, other, similarity, relevance)) : \E h \in DOMAIN other :
             /\ c.left = e.name /\ c.right = other[h].name
             /\ e.type \in ToSet(other[h].semantic) \cup {other[h].structural}
    BY <2>1, HitsAre DEF P
  <2>3. PICK i \in DOMAIN columns :
          /\ IsConsidered(columns, filter, i)
          /\ e.name = columns[i].name /\ e.type \in ToSet(TypesOf(columns[i]))
    BY <1>1, <2>1
  <2>4. ASSUME NEW c \in ToSet(seqs[k])
        PROVE  Comes(c, columns, filter, other) /\ e.name = c.left
    <3>1. PICK h \in DOMAIN other :
            /\ c.left = e.name /\ c.right = other[h].name
            /\ e.type \in ToSet(other[h].semantic) \cup {other[h].structural}
      BY <2>1, <2>2
    <3>2. ToSet(TypesOf(columns[i])) \cap (ToSet(other[h].semantic) \cup {other[h].structural}) # {}
      BY <2>3, <3>1
    <3> QED BY <2>3, <3>1, <3>2 DEF Comes
  <2> HIDE DEF P
  <2> QED BY <2>1, <2>2, <2>4 DEF e
<1>4. seqs \in [1 .. n -> Seq(P)]
  <2>1. seqs = [k \in 1 .. n |-> seqs[k]]
    <3> HIDE DEF n
    <3> QED BY <1>1
  <2> HIDE DEF seqs, P
  <2> QED BY <1>3, <2>1
<1> HIDE DEF seqs, P
<1>5. Joint(FlattenSeq(seqs), seqs, n, P)
  BY <1>1, <1>4, FlattenJoins
<1>6. ToSet(FlattenSeq(seqs)) = UNION {ToSet(seqs[k]) : k \in 1 .. n} /\ FlattenSeq(seqs) \in Seq(P)
  BY <1>5 DEF Joint
<1>7. \A c \in ToSet(FlattenSeq(seqs)) :
        Comes(c, columns, filter, other) /\ LooksFor(c, columns, filter)
  <2> SUFFICES ASSUME NEW c \in ToSet(FlattenSeq(seqs))
               PROVE  Comes(c, columns, filter, other) /\ LooksFor(c, columns, filter)
    OBVIOUS
  <2> HIDE DEF n
  <2>1. PICK k \in 1 .. n : c \in ToSet(seqs[k])
    BY <1>6
  <2>2. Comes(c, columns, filter, other) /\ k \in DOMAIN typed /\ typed[k].name = c.left
    BY <1>1, <1>3, <2>1
  <2> QED BY <2>2 DEF LooksFor, typed
<1> QED BY <1>2, <1>6, <1>7 DEF P, typed

(* The candidates in the order of their similarity.                         *)
LEMMA SortedBySimilarity ==
  ASSUME NEW N, NEW M, NEW cs \in Seq(Candidate(N, M))
  PROVE  /\ BySimilarity(cs) \in Seq(Candidate(N, M))
         /\ ToSet(BySimilarity(cs)) = ToSet(cs)
         /\ \A i, j \in DOMAIN BySimilarity(cs) :
              i <= j => BySimilarity(cs)[i].similarity >= BySimilarity(cs)[j].similarity
<1> DEFINE P == Candidate(N, M)
           seqs == [k \in 1 .. Same |-> AsSimilar(cs, Same + 1 - k)]
           flat == FlattenSeq(seqs)
<1>1. ASSUME NEW s
      PROVE  AsSimilar(cs, s) \in Seq(P) /\ ToSet(AsSimilar(cs, s)) = {c \in ToSet(cs) : c.similarity = s}
  <2> DEFINE K == {k \in DOMAIN cs : cs[k].similarity = s}
             parts == [k \in DOMAIN cs |-> When(cs[k].similarity = s, <<cs[k]>>)]
  <2>1. parts = [k \in DOMAIN cs |-> IF k \in K THEN <<cs[k]>> ELSE <<>>]
    BY DEF When
  <2>2. K \in SUBSET (DOMAIN cs)
    OBVIOUS
  <2>3. AsSimilar(cs, s) = FlattenSeq(parts)
    BY DEF AsSimilar
  <2>4. {cs[k] : k \in K} = {c \in ToSet(cs) : c.similarity = s}
    <3> HIDE DEF parts
    <3> QED BY DEF ToSet
  <2> HIDE DEF parts, K, P
  <2>5. FlattenSeq(parts) \in Seq(P) /\ ToSet(FlattenSeq(parts)) = {cs[k] : k \in K}
    <3>1. cs \in Seq(P)
      BY DEF P
    <3> QED BY <2>1, <2>2, <3>1, PartOfList
  <2> QED BY <2>3, <2>4, <2>5
<1>2. \A c \in ToSet(cs) : c \in P /\ c.similarity \in 1 .. Same
  <2>1. \A c \in ToSet(cs) : c \in P
    <3> HIDE DEF P
    <3>1. cs \in Seq(P)
      BY DEF P
    <3> QED BY <3>1 DEF ToSet
  <2> QED BY <2>1 DEF Candidate
<1> HIDE DEF P
<1>3. seqs \in [1 .. Same -> Seq(P)] /\ \A k \in 1 .. Same : seqs[k] = AsSimilar(cs, Same + 1 - k)
  BY <1>1
<1> HIDE DEF seqs
<1>4. Joint(flat, seqs, Same, P)
  BY <1>3, FlattenJoins, SameAssumption
<1> HIDE DEF flat
<1>5. flat \in Seq(P) /\ Len(flat) \in Nat /\ DOMAIN flat = 1 .. Len(flat)
  <2>1. flat \in Seq(P)
    BY <1>4 DEF Joint
  <2> QED BY <2>1, LenProperties
<1>6. ToSet(flat) = ToSet(cs)
  <2>1. ToSet(flat) = UNION {ToSet(seqs[k]) : k \in 1 .. Same}
    BY <1>4 DEF Joint
  <2>2. ASSUME NEW k \in 1 .. Same PROVE ToSet(seqs[k]) \subseteq ToSet(cs)
    BY <1>1, <1>3
  <2>3. ASSUME NEW c \in ToSet(cs) PROVE \E k \in 1 .. Same : c \in ToSet(seqs[k])
    <3>1. c.similarity \in 1 .. Same
      BY <1>2
    <3> DEFINE k == Same + 1 - c.similarity
    <3>2. k \in 1 .. Same /\ Same + 1 - k = c.similarity
      BY <3>1, SameAssumption
    <3> HIDE DEF k
    <3> QED BY <1>1, <1>3, <3>2
  <2> QED BY <2>1, <2>2, <2>3
<1>7. PICK b \in [1 .. Len(flat) -> 1 .. Same] :
        /\ \A i \in 1 .. Len(flat) : flat[i] \in ToSet(seqs[b[i]])
        /\ \A i, j \in 1 .. Len(flat) : i <= j => b[i] <= b[j]
  BY <1>4 DEF Joint
<1>8. \A i \in 1 .. Len(flat) : flat[i].similarity = Same + 1 - b[i]
  BY <1>1, <1>3, <1>7
<1>9. ASSUME NEW i \in DOMAIN flat, NEW j \in DOMAIN flat, i <= j
      PROVE  flat[i].similarity >= flat[j].similarity
  <2>1. b[i] \in 1 .. Same /\ b[j] \in 1 .. Same /\ b[i] <= b[j]
    BY <1>5, <1>7, <1>9
  <2>2. Same + 1 - b[i] >= Same + 1 - b[j]
    BY <2>1, SameAssumption
  <2> QED BY <1>5, <1>8, <2>2
<1>10. BySimilarity(cs) = flat
  BY DEF BySimilarity, flat, seqs
<1> QED BY <1>5, <1>6, <1>9, <1>10 DEF P

(* A list, one longer.                                                      *)
LEMMA Appending ==
  ASSUME NEW A, NEW s \in Seq(A), NEW x \in A
  PROVE  /\ Append(s, x) \in Seq(A) /\ Len(s) \in Nat /\ Len(Append(s, x)) = Len(s) + 1
         /\ DOMAIN s = 1 .. Len(s) /\ DOMAIN Append(s, x) = 1 .. Len(s) + 1
         /\ \A k \in 1 .. Len(s) : Append(s, x)[k] = s[k]
         /\ Append(s, x)[Len(s) + 1] = x
         /\ ToSet(Append(s, x)) = ToSet(s) \cup {x}
<1> DEFINE n == Len(s)
           t == Append(s, x)
<1>1. /\ t \in Seq(A) /\ n \in Nat /\ Len(t) = n + 1
      /\ DOMAIN s = 1 .. n /\ DOMAIN t = 1 .. n + 1
      /\ \A k \in 1 .. n : t[k] = s[k]
      /\ t[n + 1] = x
  OBVIOUS
<1>2. 1 .. n + 1 = (1 .. n) \cup {n + 1}
  BY <1>1
<1> HIDE DEF n, t
<1>3. ToSet(t) \subseteq ToSet(s) \cup {x}
  BY <1>1, <1>2 DEF ToSet
<1>4. ToSet(s) \subseteq ToSet(t)
  BY <1>1, <1>2 DEF ToSet
<1>5. x \in ToSet(t)
  BY <1>1, <1>2 DEF ToSet
<1> QED BY <1>1, <1>3, <1>4, <1>5 DEF n, t

(* What the pairs that are chosen so far are to the candidates.             *)
InPair(p, c) == p.left = c.left \/ p.right = c.right
OneToOne(ps) ==
  \A i, j \in DOMAIN ps : i # j => ps[i].left # ps[j].left /\ ps[i].right # ps[j].right
GaveWay(ps, cs, i) ==
  \A j \in 1 .. i : \E p \in ToSet(ps) : InPair(p, cs[j]) /\ p.similarity >= cs[j].similarity
Choice(ps, cs, i) ==
  /\ OneToOne(ps) /\ GaveWay(ps, cs, i)
  /\ \A p \in ToSet(ps) : \E j \in 1 .. i : p = cs[j]

Chooses(it, cs) ==
  it = [n \in 0 .. Len(cs) |-> IF n = 0 THEN <<>> ELSE Paired(it[n - 1], cs[n])]
LEMMA ChosenIs ==
  ASSUME NEW cs PROVE ChosenPairs(cs) = (CHOOSE it : Chooses(it, cs))[Len(cs)]
BY DEF ChosenPairs, Chooses

LEMMA OneMoreChosen ==
  ASSUME NEW P, NEW cs \in Seq(P), NEW ps \in Seq(P), NEW i \in 0 .. Len(cs) - 1, Choice(ps, cs, i),
         \A c \in P : c.similarity \in Nat,
         \A j, k \in DOMAIN cs : j <= k => cs[j].similarity >= cs[k].similarity
  PROVE  Paired(ps, cs[i + 1]) \in Seq(P) /\ Choice(Paired(ps, cs[i + 1]), cs, i + 1)
<1> DEFINE c == cs[i + 1]
<1>1. /\ i \in Nat /\ i + 1 \in DOMAIN cs /\ DOMAIN cs = 1 .. Len(cs) /\ c \in P
      /\ \A j \in 1 .. i : j \in DOMAIN cs /\ cs[j] \in P
      /\ 1 .. i + 1 = (1 .. i) \cup {i + 1}
  <2>1. i \in Nat /\ i + 1 \in 1 .. Len(cs) /\ DOMAIN cs = 1 .. Len(cs)
    BY LenProperties
  <2> QED BY <2>1
<1>2. ASSUME NEW j \in 1 .. i PROVE cs[j].similarity >= c.similarity
  <2>1. j <= i + 1 /\ j \in DOMAIN cs
    BY <1>1
  <2> QED BY <1>1, <2>1
<1> HIDE DEF c
<1>3. CASE \E p \in ToSet(ps) : InPair(p, c)
  <2>1. Paired(ps, c) = ps
    BY <1>3 DEF Paired, InPair
  <2>2. PICK p \in ToSet(ps) : InPair(p, c)
    BY <1>3
  <2>3. p.similarity >= c.similarity
    <3>1. PICK j \in 1 .. i : p = cs[j]
      BY DEF Choice
    <3> QED BY <1>2, <3>1
  <2>4. GaveWay(ps, cs, i + 1)
    BY <1>1, <2>2, <2>3 DEF Choice, GaveWay, c
  <2>5. Choice(ps, cs, i + 1)
    BY <1>1, <2>4 DEF Choice
  <2> QED BY <2>1, <2>5 DEF c
<1>4. CASE ~ \E p \in ToSet(ps) : InPair(p, c)
  <2> DEFINE new == Append(ps, c)
             n == Len(ps)
  <2>1. Paired(ps, c) = new
    BY <1>4 DEF Paired, InPair
  <2>2. /\ new \in Seq(P) /\ n \in Nat /\ DOMAIN ps = 1 .. n /\ DOMAIN new = 1 .. n + 1
        /\ \A k \in 1 .. n : new[k] = ps[k]
        /\ new[n + 1] = c /\ ToSet(new) = ToSet(ps) \cup {c}
    BY <1>1, Appending
  <2> HIDE DEF new, n
  <2>3. OneToOne(new)
    <3> SUFFICES ASSUME NEW k \in 1 .. n + 1, NEW l \in 1 .. n + 1, k # l
                 PROVE  new[k].left # new[l].left /\ new[k].right # new[l].right
      BY <2>2 DEF OneToOne
    <3>1. \A m \in 1 .. n : new[m] = ps[m] /\ ps[m].left # c.left /\ ps[m].right # c.right
      <4> SUFFICES ASSUME NEW m \in 1 .. n PROVE ps[m].left # c.left /\ ps[m].right # c.right
        BY <2>2
      <4>1. ps[m] \in ToSet(ps)
        BY <2>2 DEF ToSet
      <4> QED BY <1>4, <4>1 DEF InPair
    <3>2. CASE k = n + 1
      <4>1. l \in 1 .. n
        BY <2>2, <3>2
      <4> QED BY <2>2, <3>1, <3>2, <4>1
    <3>3. CASE l = n + 1
      <4>1. k \in 1 .. n
        BY <2>2, <3>3
      <4> QED BY <2>2, <3>1, <3>3, <4>1
    <3>4. CASE k # n + 1 /\ l # n + 1
      <4>1. k \in 1 .. n /\ l \in 1 .. n
        BY <2>2, <3>4
      <4>2. ps[k].left # ps[l].left /\ ps[k].right # ps[l].right
        BY <2>2, <4>1 DEF Choice, OneToOne
      <4> QED BY <3>1, <4>1, <4>2
    <3> QED BY <3>2, <3>3, <3>4
  <2>4. GaveWay(new, cs, i + 1)
    <3>1. InPair(c, c) /\ c.similarity >= c.similarity
      BY <1>1 DEF InPair
    <3>2. \A j \in 1 .. i : \E p \in ToSet(new) : InPair(p, cs[j]) /\ p.similarity >= cs[j].similarity
      BY <2>2 DEF Choice, GaveWay
    <3>3. \E p \in ToSet(new) : InPair(p, cs[i + 1]) /\ p.similarity >= cs[i + 1].similarity
      BY <2>2, <3>1 DEF c
    <3> QED BY <1>1, <3>2, <3>3 DEF GaveWay
  <2>5. \A p \in ToSet(new) : \E j \in 1 .. i + 1 : p = cs[j]
    BY <1>1, <2>2 DEF Choice, c
  <2> QED BY <2>1, <2>2, <2>3, <2>4, <2>5 DEF Choice, c
<1> QED BY <1>3, <1>4

LEMMA ChoiceIs ==
  ASSUME NEW P, NEW cs \in Seq(P),
         \A c \in P : c.similarity \in Nat,
         \A j, k \in DOMAIN cs : j <= k => cs[j].similarity >= cs[k].similarity
  PROVE  ChosenPairs(cs) \in Seq(P) /\ Choice(ChosenPairs(cs), cs, Len(cs))
<1> DEFINE n == Len(cs)
           it == CHOOSE f : Chooses(f, cs)
           V == Seq(P)
           F == [p \in (1 .. n) \X V |-> Paired(p[2], cs[p[1]])]
<1>1. n \in Nat /\ DOMAIN cs = 1 .. n /\ \A i \in 1 .. n : cs[i] \in P
  BY LenProperties
<1>2. ASSUME NEW i \in 1 .. n, NEW ps \in V PROVE Paired(ps, cs[i]) \in V
  <2>1. Append(ps, cs[i]) \in V
    BY <1>1, Appending
  <2> HIDE DEF V
  <2> QED BY <2>1 DEF Paired
<1>3. F \in [(1 .. n) \X V -> V] /\ \A i \in 1 .. n, ps \in V : F[<<i, ps>>] = Paired(ps, cs[i])
  <2>1. \A p \in (1 .. n) \X V : Paired(p[2], cs[p[1]]) \in V
    <3> HIDE DEF V, n
    <3> QED BY <1>2
  <2> HIDE DEF V, n
  <2> QED BY <2>1
<1>4. PICK r : Recurs(r, n, V, <<>>, F)
  <2>1. <<>> \in V
    OBVIOUS
  <2> HIDE DEF F, V, n
  <2> QED BY <1>1, <1>3, <2>1, RecursionExists
<1>5. Chooses(r, cs)
  <2>1. r = [i \in 0 .. n |-> IF i = 0 THEN <<>> ELSE F[<<i, r[i - 1]>>]]
    BY <1>4 DEF Recurs
  <2>2. ASSUME NEW i \in 0 .. n, i # 0 PROVE F[<<i, r[i - 1]>>] = Paired(r[i - 1], cs[i])
    <3>1. i \in 1 .. n
      BY <2>2
    <3>2. r[i - 1] \in V
      BY <1>4, <3>1 DEF Recurs
    <3> HIDE DEF F, V, n
    <3> QED BY <1>3, <3>1, <3>2
  <2>3. r = [i \in 0 .. n |-> IF i = 0 THEN <<>> ELSE Paired(r[i - 1], cs[i])]
    <3> HIDE DEF F, n
    <3> QED BY <2>1, <2>2
  <2> QED BY <2>3 DEF Chooses
<1>6. it = [i \in 0 .. n |-> IF i = 0 THEN <<>> ELSE Paired(it[i - 1], cs[i])]
  <2>1. Chooses(it, cs)
    BY <1>5
  <2> HIDE DEF it
  <2> QED BY <2>1 DEF Chooses
<1> HIDE DEF it, F
<1> DEFINE M == {i \in Nat : i <= n => it[i] \in V /\ Choice(it[i], cs, i)}
<1>7. 0 \in M
  <2>1. it[0] = <<>> /\ <<>> \in V
    BY <1>1, <1>6
  <2>2. ToSet(<<>>) = {} /\ 1 .. 0 = {} /\ DOMAIN <<>> = {}
    BY DEF ToSet
  <2>3. Choice(<<>>, cs, 0)
    BY <2>2 DEF Choice, OneToOne, GaveWay
  <2> QED BY <2>1, <2>3
<1>8. ASSUME NEW i \in 0 .. n - 1, i \in M PROVE i + 1 \in M
  <2>1. i \in Nat /\ i + 1 \in 0 .. n /\ i + 1 # 0 /\ (i + 1) - 1 = i /\ i <= n
    BY <1>1
  <2>2. it[i + 1] = Paired(it[i], cs[i + 1])
    <3> HIDE DEF n
    <3> QED BY <1>6, <2>1
  <2>3. it[i] \in Seq(P) /\ Choice(it[i], cs, i)
    BY <1>8, <2>1
  <2>4. Paired(it[i], cs[i + 1]) \in Seq(P) /\ Choice(Paired(it[i], cs[i + 1]), cs, i + 1)
    BY <2>3, OneMoreChosen
  <2> QED BY <2>1, <2>2, <2>4
<1>9. n \in M
  <2>1. M \in SUBSET Nat /\ n \in 0 .. n
    BY <1>1
  <2> HIDE DEF M, n
  <2> QED BY <1>1, <1>7, <1>8, <2>1, StepInduction
<1>10. ChosenPairs(cs) = it[n]
  BY ChosenIs DEF it
<1>11. n <= n
  BY <1>1
<1> QED BY <1>9, <1>10, <1>11

(* A sum of similarities.                                                   *)
Totals(it, ps) ==
  it = [n \in 0 .. Len(ps) |-> IF n = 0 THEN 0 ELSE it[n - 1] + ps[n].similarity]
LEMMA SimilaritiesAre ==
  ASSUME NEW ps PROVE Similarities(ps) = (CHOOSE it : Totals(it, ps))[Len(ps)]
BY DEF Similarities, Totals

LEMMA SimilaritiesAreBounded ==
  ASSUME NEW P, NEW ps \in Seq(P), \A p \in P : p.similarity \in 0 .. Same
  PROVE  Similarities(ps) \in Nat /\ Similarities(ps) <= Same * Len(ps)
<1> DEFINE n == Len(ps)
           it == CHOOSE f : Totals(f, ps)
           F == [p \in (1 .. n) \X Nat |-> p[2] + ps[p[1]].similarity]
<1>1. n \in Nat /\ \A i \in 1 .. n : ps[i].similarity \in 0 .. Same /\ ps[i].similarity \in Nat
  <2>1. n \in Nat /\ \A i \in 1 .. n : ps[i] \in P
    BY LenProperties
  <2>2. \A s \in 0 .. Same : s \in Nat
    BY SameAssumption
  <2> HIDE DEF n
  <2> QED BY <2>1, <2>2
<1>2. F \in [(1 .. n) \X Nat -> Nat] /\ \A i \in 1 .. n, t \in Nat : F[<<i, t>>] = t + ps[i].similarity
  <2>1. ASSUME NEW p \in (1 .. n) \X Nat PROVE p[2] + ps[p[1]].similarity \in Nat
    <3>1. p[2] \in Nat /\ ps[p[1]].similarity \in Nat
      <4> HIDE DEF n
      <4> QED BY <1>1
    <3> QED BY <3>1
  <2> HIDE DEF n
  <2> QED BY <2>1
<1>3. PICK r : Recurs(r, n, Nat, 0, F)
  <2> HIDE DEF F, n
  <2> QED BY <1>1, <1>2, RecursionExists
<1>4. Totals(r, ps)
  <2>1. r = [i \in 0 .. n |-> IF i = 0 THEN 0 ELSE F[<<i, r[i - 1]>>]]
    BY <1>3 DEF Recurs
  <2>2. ASSUME NEW i \in 0 .. n, i # 0 PROVE F[<<i, r[i - 1]>>] = r[i - 1] + ps[i].similarity
    <3>1. i \in 1 .. n
      BY <2>2
    <3>2. r[i - 1] \in Nat
      BY <1>3, <3>1 DEF Recurs
    <3> HIDE DEF F, n
    <3> QED BY <1>2, <3>1, <3>2
  <2>3. r = [i \in 0 .. n |-> IF i = 0 THEN 0 ELSE r[i - 1] + ps[i].similarity]
    <3> HIDE DEF F, n
    <3> QED BY <2>1, <2>2
  <2> QED BY <2>3 DEF Totals
<1>5. it = [i \in 0 .. n |-> IF i = 0 THEN 0 ELSE it[i - 1] + ps[i].similarity]
  <2>1. Totals(it, ps)
    BY <1>4
  <2> HIDE DEF it
  <2> QED BY <2>1 DEF Totals
<1> HIDE DEF it, F
<1> DEFINE M == {i \in Nat : i <= n => it[i] \in Nat /\ it[i] <= Same * i}
<1>6. 0 \in M
  <2>1. it[0] = 0 /\ Same * 0 = 0
    <3> HIDE DEF n
    <3> QED BY <1>1, <1>5, SameAssumption
  <2> QED BY <2>1
<1>7. ASSUME NEW i \in 0 .. n - 1, i \in M PROVE i + 1 \in M
  <2>1. i \in Nat /\ i + 1 \in 0 .. n /\ i + 1 # 0 /\ (i + 1) - 1 = i /\ i <= n /\ i + 1 \in 1 .. n
    BY <1>1
  <2>2. it[i + 1] = it[i] + ps[i + 1].similarity
    <3> HIDE DEF n
    <3> QED BY <1>5, <2>1
  <2>3. it[i] \in Nat /\ it[i] <= Same * i
    BY <1>7, <2>1
  <2>4. ps[i + 1].similarity \in Nat /\ ps[i + 1].similarity <= Same
    <3>1. \A s \in 0 .. Same : s \in Nat /\ s <= Same
      BY SameAssumption
    <3>2. ps[i + 1].similarity \in 0 .. Same
      <4> HIDE DEF n
      <4> QED BY <1>1, <2>1
    <3> QED BY <3>1, <3>2
  <2>5. \A a, b, s, m \in Nat : a <= s * m /\ b <= s => a + b <= s * (m + 1)
    <3>1. \A s, m \in Nat : s * (m + 1) = s * m + s /\ s * m \in Nat
      OBVIOUS
    <3>2. \A a, b, s, m \in Nat : a <= m /\ b <= s => a + b <= m + s
      OBVIOUS
    <3> QED BY <3>1, <3>2
  <2>6. it[i] + ps[i + 1].similarity <= Same * (i + 1)
    BY <2>1, <2>3, <2>4, <2>5, SameAssumption
  <2>7. it[i] + ps[i + 1].similarity \in Nat
    BY <2>3, <2>4
  <2> QED BY <2>1, <2>2, <2>6, <2>7
<1>8. n \in M
  <2>1. M \in SUBSET Nat /\ n \in 0 .. n
    BY <1>1
  <2> HIDE DEF M, n
  <2> QED BY <1>1, <1>6, <1>7, <2>1, StepInduction
<1>9. Similarities(ps) = it[n]
  BY SimilaritiesAre DEF it
<1>10. n <= n
  BY <1>1
<1> QED BY <1>8, <1>9, <1>10

(* The best of the scores of Elasticsearch is one of them, if there is any. *)
BestRelevance(ps) == Max({0} \cup {p.relevance : p \in ToSet(ps)})
LEMMA ScoreIs == ASSUME NEW ps PROVE Score(ps) = Similarities(ps) * BestRelevance(ps)
BY DEF Score, BestRelevance

LEMMA BestIsOne ==
  ASSUME NEW P, NEW ps \in Seq(P), ps # <<>>, \A p \in P : p.relevance \in Nat
  PROVE  /\ BestRelevance(ps) \in Nat
         /\ \E p \in ToSet(ps) : p.relevance \in Nat /\ BestRelevance(ps) <= p.relevance
<1> DEFINE n == Len(ps)
           R == {p.relevance : p \in ToSet(ps)}
           S == {0} \cup R
<1>1. n \in Nat /\ n # 0 /\ DOMAIN ps = 1 .. n /\ \A i \in 1 .. n : ps[i] \in P
  OBVIOUS
<1> HIDE DEF n
<1>2. \A p \in ToSet(ps) : p.relevance \in Nat
  BY <1>1 DEF ToSet
<1>3. IsFiniteSet(ToSet(ps))
  <2> DEFINE f == [i \in 1 .. n |-> ps[i]]
  <2>1. f \in Surjection(1 .. n, ToSet(ps))
    BY <1>1 DEF Surjection, ToSet
  <2>2. IsFiniteSet(1 .. n)
    BY <1>1, FS_Interval
  <2> HIDE DEF f
  <2> QED BY <2>1, <2>2, FS_Surjection
<1>4. IsFiniteSet(R)
  <2> DEFINE f == [p \in ToSet(ps) |-> p.relevance]
  <2>1. f \in Surjection(ToSet(ps), R)
    BY DEF Surjection
  <2> HIDE DEF f, R
  <2> QED BY <1>3, <2>1, FS_Surjection
<1>5. S \in SUBSET Nat /\ S # {}
  BY <1>2
<1>6. IsFiniteSet(S)
  <2> HIDE DEF R
  <2> QED BY <1>4, FS_Singleton, FS_Union
<1>7. Max(S) \in S
  <2> HIDE DEF S
  <2> QED BY <1>5, <1>6, ExtremesExist
<1>8. BestRelevance(ps) = Max(S)
  BY DEF BestRelevance
<1>9. \E p \in ToSet(ps) : p.relevance \in Nat
  <2>1. 1 \in 1 .. n
    BY <1>1
  <2>2. ps[1] \in ToSet(ps)
    BY <1>1, <2>1 DEF ToSet
  <2> QED BY <1>2, <2>2
<1> DEFINE best == Max(S)
<1>10. best \in Nat /\ (best = 0 \/ \E p \in ToSet(ps) : best = p.relevance)
  <2>1. best \in {0} \cup R
    BY <1>7
  <2>2. best \in Nat
    BY <1>5, <1>7
  <2> HIDE DEF best
  <2> QED BY <2>1, <2>2
<1> HIDE DEF best, S, R
<1>11. CASE best = 0
  <2>1. \A r \in Nat : 0 <= r
    OBVIOUS
  <2> QED BY <1>8, <1>9, <1>11, <2>1 DEF best
<1>12. CASE \E p \in ToSet(ps) : best = p.relevance
  <2>1. best <= best
    BY <1>10
  <2> QED BY <1>8, <1>10, <1>12, <2>1 DEF best
<1> QED BY <1>10, <1>11, <1>12

LEMMA ProductsGrow ==
  ASSUME NEW a \in Nat, NEW b \in Nat, NEW c \in Nat, NEW d \in Nat, a <= b, c <= d
  PROVE  a * c <= b * d
<1>1. PICK k \in Nat : b = a + k
  <2>1. b - a \in Nat /\ b = a + (b - a)
    OBVIOUS
  <2> QED BY <2>1
<1>2. PICK l \in Nat : d = c + l
  <2>1. d - c \in Nat /\ d = c + (d - c)
    OBVIOUS
  <2> QED BY <2>1
<1>3. (a + k) * (c + l) = a * c + a * l + k * c + k * l
  OBVIOUS
<1>4. a * c \in Nat /\ a * l \in Nat /\ k * c \in Nat /\ k * l \in Nat
  OBVIOUS
<1>5. a * c <= a * c + a * l + k * c + k * l
  <2>1. \A p, q, r, t \in Nat : p <= p + q + r + t
    OBVIOUS
  <2> QED BY <1>4, <2>1
<1> QED BY <1>1, <1>2, <1>3, <1>5

(* A name is that of the column that it identifies, and identifies one.     *)
Identifies(found, list, i) ==
  /\ found \in DOMAIN list /\ list[found].name = list[i].name /\ found # -1
  /\ (\A j, k \in DOMAIN list : j # k => list[j].name # list[k].name) => found = i
LEMMA NameIdentifies ==
  ASSUME NEW A, NEW list \in Seq(A), NEW i \in DOMAIN list
  PROVE  Identifies(ColumnIdentifier(list, list[i].name), list, i)
<1> DEFINE name == list[i].name
           S == {j \in DOMAIN list : list[j].name = name}
           found == ColumnIdentifier(list, name)
<1>1. Len(list) \in Nat /\ DOMAIN list = 1 .. Len(list)
  BY LenProperties
<1>2. S \in SUBSET (1 .. Len(list)) /\ i \in S
  BY <1>1
<1>3. Max(S) \in S
  <2> HIDE DEF S
  <2> QED BY <1>1, <1>2, LargestIs
<1>4. found = Max(S)
  BY <1>2 DEF ColumnIdentifier
<1>5. found \in DOMAIN list /\ list[found].name = name
  <2>1. found \in S
    <3> HIDE DEF found, S
    <3> QED BY <1>3, <1>4
  <2> HIDE DEF found
  <2> QED BY <2>1
<1>6. found # -1
  <2> HIDE DEF found
  <2> QED BY <1>1, <1>5
<1>7. ASSUME \A j, k \in DOMAIN list : j # k => list[j].name # list[k].name PROVE found = i
  <2> HIDE DEF found
  <2> QED BY <1>5, <1>7
<1>8. Identifies(found, list, i)
  <2> HIDE DEF found
  <2> QED BY <1>5, <1>6, <1>7 DEF Identifies
<1> QED BY <1>8

(* No more pairs than columns that are looked for.                          *)
LEMMA FewPairs ==
  ASSUME NEW P, NEW E, NEW ps \in Seq(P), NEW es \in Seq(E), OneToOne(ps),
         \A i \in DOMAIN ps : \E k \in DOMAIN es : es[k].name = ps[i].left
  PROVE  Len(ps) <= Len(es)
<1> DEFINE m == Len(ps)
           n == Len(es)
           f == [i \in 1 .. m |-> CHOOSE k \in 1 .. n : es[k].name = ps[i].left]
<1>1. m \in Nat /\ n \in Nat /\ DOMAIN ps = 1 .. m /\ DOMAIN es = 1 .. n
  BY LenProperties
<1> HIDE DEF m, n
<1>2. \A i \in 1 .. m : f[i] \in 1 .. n /\ es[f[i]].name = ps[i].left
  BY <1>1
<1>3. f \in [1 .. m -> 1 .. n]
  <2>1. f = [i \in 1 .. m |-> f[i]]
    OBVIOUS
  <2> HIDE DEF f
  <2> QED BY <1>2, <2>1
<1> HIDE DEF f
<1>4. \A i, j \in 1 .. m : f[i] = f[j] => i = j
  BY <1>1, <1>2 DEF OneToOne
<1>5. f \in Injection(1 .. m, 1 .. n)
  BY <1>3, <1>4 DEF Injection, IsInjective
<1>6. IsFiniteSet(1 .. n) /\ Cardinality(1 .. m) = m /\ Cardinality(1 .. n) = n
  BY <1>1, FS_Interval
<1>7. Cardinality(1 .. m) <= Cardinality(1 .. n)
  BY <1>5, <1>6, FS_Injection
<1> QED BY <1>6, <1>7 DEF m, n

(* The search for unions pairs columns one-to-one and gives way only to     *)
(* pairs that are at least as similar; its scores are parts of that which   *)
(* Elasticsearch gave for one of the pairs, and the columns of its tasks    *)
(* are those that were meant.                                               *)
THEOREM UnionsAreSound ==
  ASSUME NEW N, NEW M, NEW T, NEW columns \in Seq(ColumnsWith(N \cup {"d3mIndex"}, T)), NEW filter,
         NEW other \in Seq(ColumnsWith(M, T)), NEW similarity, AreSimilar(similarity, N, M),
         NEW relevance \in [Entries(N, T) -> Nat]
  PROVE  UnionSound(columns, filter, other, similarity, relevance)
<1> DEFINE P == Candidate(N, M)
           cs == Candidates(columns, filter, other, similarity, relevance)
           sorted == BySimilarity(cs)
           ps == UnionPairs(columns, filter, other, similarity, relevance)
           typed == TypedNames(columns, filter)
<1>1. /\ cs \in Seq(P)
      /\ \A c \in ToSet(cs) : Comes(c, columns, filter, other) /\ LooksFor(c, columns, filter)
  <2>1. cs \in Seq(P)
    BY CandidatesAre
  <2>2. \A c \in ToSet(cs) : Comes(c, columns, filter, other) /\ LooksFor(c, columns, filter)
    BY CandidatesAre
  <2> HIDE DEF cs, P
  <2> QED BY <2>1, <2>2
<1>18. \A p \in P : p.relevance \in Nat
  BY DEF Candidate
<1>2. \A p \in P : p.similarity \in Nat /\ p.similarity \in 0 .. Same
  <2>1. \A s \in 1 .. Same : s \in Nat /\ s \in 0 .. Same
    BY SameAssumption
  <2>2. \A p \in P : p.similarity \in 1 .. Same
    BY DEF Candidate
  <2> HIDE DEF P
  <2> QED BY <2>1, <2>2
<1>3. /\ sorted \in Seq(P) /\ ToSet(sorted) = ToSet(cs)
      /\ \A i, j \in DOMAIN sorted : i <= j => sorted[i].similarity >= sorted[j].similarity
  <2> HIDE DEF cs
  <2> QED BY <1>1, SortedBySimilarity
<1>4. ps = ChosenPairs(sorted)
  BY DEF UnionPairs
<1>5. typed \in Seq(Entries(N, T))
  BY TypedNamesAre
<1> HIDE DEF P, cs, sorted, ps, typed
<1>6. ps \in Seq(P) /\ Choice(ps, sorted, Len(sorted))
  BY <1>2, <1>3, <1>4, ChoiceIs
<1>7. DOMAIN sorted = 1 .. Len(sorted) /\ Len(ps) \in Nat /\ DOMAIN ps = 1 .. Len(ps)
  BY <1>3, <1>6, LenProperties
<1>8. OneToOne(ps)
  BY <1>6 DEF Choice
<1>9. \A p \in ToSet(ps) : p \in ToSet(cs)
  BY <1>3, <1>6, <1>7 DEF Choice, ToSet
<1>10. ASSUME NEW c \in ToSet(cs)
       PROVE  \E p \in ToSet(ps) : (p.left = c.left \/ p.right = c.right) /\ p.similarity >= c.similarity
  <2>1. PICK j \in 1 .. Len(sorted) : c = sorted[j]
    <3>1. c \in ToSet(sorted)
      BY <1>3
    <3> QED BY <1>7, <3>1 DEF ToSet
  <2> QED BY <1>6, <2>1 DEF Choice, GaveWay, InPair
<1>11. ASSUME ~Unionable(ps), NEW p \in ToSet(ps), NEW c \in ToSet(cs)
       PROVE  p.left = c.left \/ p.right = c.right
  <2>1. ~(Len(ps) > 1)
    BY <1>11 DEF Unionable
  <2>2. PICK q \in ToSet(ps) : q.left = c.left \/ q.right = c.right
    BY <1>10
  <2>3. p = q
    <3>1. PICK i \in 1 .. Len(ps), j \in 1 .. Len(ps) : p = ps[i] /\ q = ps[j]
      BY <1>7, <2>2 DEF ToSet
    <3>2. i = j
      BY <1>7, <2>1
    <3> QED BY <3>1, <3>2
  <2> QED BY <2>2, <2>3
<1>12. ASSUME ps # <<>>
       PROVE  \E p \in ToSet(ps) : Score(ps) <= Same * Len(typed) * p.relevance
  <2>1. Similarities(ps) \in Nat /\ Similarities(ps) <= Same * Len(ps)
    BY <1>2, <1>6, SimilaritiesAreBounded
  <2>2. ASSUME NEW i \in DOMAIN ps PROVE \E k \in DOMAIN typed : typed[k].name = ps[i].left
    <3>1. ps[i] \in ToSet(cs)
      BY <1>9 DEF ToSet
    <3> QED BY <1>1, <3>1 DEF LooksFor, typed
  <2>3. Len(ps) <= Len(typed)
    BY <1>5, <1>6, <1>8, <2>2, FewPairs
  <2>4. Len(typed) \in Nat
    BY <1>5, LenProperties
  <2>5. \A s, a, b \in Nat : a <= b => s * a <= s * b /\ s * a \in Nat /\ s * b \in Nat
    OBVIOUS
  <2>6. Same * Len(ps) <= Same * Len(typed) /\ Same * Len(ps) \in Nat /\ Same * Len(typed) \in Nat
    BY <1>7, <2>3, <2>4, <2>5, SameAssumption
  <2> DEFINE total == Similarities(ps)
             bound == Same * Len(typed)
             best == BestRelevance(ps)
  <2>7. total \in Nat /\ bound \in Nat /\ total <= bound
    BY <2>1, <2>6
  <2>8. best \in Nat /\ \E p \in ToSet(ps) : p.relevance \in Nat /\ best <= p.relevance
    BY <1>12, <1>6, <1>18, BestIsOne
  <2>9. Score(ps) = total * best
    BY ScoreIs
  <2> HIDE DEF total, bound, best
  <2>10. PICK p \in ToSet(ps) : p.relevance \in Nat /\ best <= p.relevance
    BY <2>8
  <2> DEFINE r == p.relevance
  <2>11. r \in Nat /\ best <= r
    BY <2>10
  <2> HIDE DEF r
  <2>12. total * best <= bound * r
    BY <2>7, <2>8, <2>11, ProductsGrow
  <2> QED BY <2>9, <2>10, <2>12 DEF r, bound
<1>19. ps # <<>> => \E p \in ToSet(ps) : Score(ps) <= Same * Len(typed) * p.relevance
  BY <1>12
<1> DEFINE left(p) == ColumnIdentifier(columns, p.left)
           right(p) == ColumnIdentifier(other, p.right)
           distinct(list) == \A i, j \in DOMAIN list : i # j => list[i].name # list[j].name
<1>13. ASSUME NEW p \in ToSet(ps)
       PROVE  /\ left(p) # -1 /\ right(p) # -1
              /\ distinct(columns) => filter = {} \/ left(p) \in filter
              /\ distinct(columns) /\ distinct(other) =>
                   ToSet(TypesOf(columns[left(p)]))
                     \cap (ToSet(other[right(p)].semantic) \cup {other[right(p)].structural}) # {}
  <2>1. Comes(p, columns, filter, other)
    BY <1>1, <1>9
  <2>2. PICK i \in DOMAIN columns, h \in DOMAIN other :
          /\ IsConsidered(columns, filter, i)
          /\ p.left = columns[i].name /\ p.right = other[h].name
          /\ ToSet(TypesOf(columns[i])) \cap (ToSet(other[h].semantic) \cup {other[h].structural}) # {}
    BY <2>1 DEF Comes
  <2>3. left(p) # -1 /\ (distinct(columns) => left(p) = i)
    <3>1. Identifies(ColumnIdentifier(columns, columns[i].name), columns, i)
      BY NameIdentifies
    <3> QED BY <2>2, <3>1 DEF Identifies
  <2>4. right(p) # -1 /\ (distinct(other) => right(p) = h)
    <3>1. Identifies(ColumnIdentifier(other, other[h].name), other, h)
      BY NameIdentifies
    <3> QED BY <2>2, <3>1 DEF Identifies
  <2>5. filter = {} \/ i \in filter
    BY <2>2 DEF IsConsidered
  <2> HIDE DEF left, right, distinct
  <2> QED BY <2>2, <2>3, <2>4, <2>5
<1> HIDE DEF left, right, distinct
<1>14. \A p \in ToSet(ps) :
         /\ left(p) # -1 /\ right(p) # -1
         /\ distinct(columns) => filter = {} \/ left(p) \in filter
         /\ distinct(columns) /\ distinct(other) =>
              ToSet(TypesOf(columns[left(p)]))
                \cap (ToSet(other[right(p)].semantic) \cup {other[right(p)].structural}) # {}
  BY <1>13
<1>15. \A i, j \in DOMAIN ps : i # j => ps[i].left # ps[j].left /\ ps[i].right # ps[j].right
  BY <1>8 DEF OneToOne
<1>16. \A c \in ToSet(cs) : \E p \in ToSet(ps) :
         (p.left = c.left \/ p.right = c.right) /\ p.similarity >= c.similarity
  BY <1>10
<1>17. ~Unionable(ps) =>
         \A p \in ToSet(ps), c \in ToSet(cs) : p.left = c.left \/ p.right = c.right
  BY <1>11
<1> QED BY <1>19, <1>14, <1>15, <1>16, <1>17, Zenon DEF UnionSound, ps, cs, typed, left, right, distinct

-----------------------------------------------------------------------------
(* Queries.  A period that a variable asks for is not empty, nor an envelope *)
(* unless it is that of an area.                                            *)
EnvelopeOf(a) == <<<<a[1], a[4]>>, <<a[2], a[3]>>>>
IsSoundFilter(areas, f) ==
  /\ f.type = "temporal" /\ f.period # <<>> => f.period[1] <= f.period[2]
  /\ f.type = "spatial" =>
       IsOrdered(f.envelope) \/ \E a \in DOMAIN areas : f.envelope = EnvelopeOf(areas[a])
IsIll(v) ==
  \/ v.type = "none"
  \/ (v.type = "temporal" /\ Invalid \in {v.start, v.end, v.granularity})
  \/ /\ v.type = "temporal" /\ Given(v.end)
     /\ IF Given(v.start) THEN v.start > v.end ELSE v.end < 0
  \/ (v.type = "geospatial" /\ {Invalid, Whole} \cap ({v.area} \cup ToSet(v.bounds)) # {})
  \/ (v.type = "tabular" /\ Invalid \in v.columns)
(* What a variable is.                                                      *)
IsVariable(v) ==
  /\ v.type = "temporal" => v.start \in Int /\ v.end \in Int
  /\ v.type = "geospatial" => v.bounds \in [1 .. 4 -> Int]
(* A variable is refused for what is ill in it, or gives at most a filter.  *)
Reads(areas, p, v) ==
  /\ p.filters = <<>> \/ \E f : p.filters = <<f>> /\ IsSoundFilter(areas, f)
  /\ p.refused => IsIll(v)

LEMMA TwoExtremes ==
  ASSUME NEW x \in Int, NEW y \in Int
  PROVE  Min({x, y}) <= Max({x, y})
<1>1. (\E m \in {x, y} : \A n \in {x, y} : m >= n) /\ (\E m \in {x, y} : \A n \in {x, y} : m =< n)
  <2>1. CASE x <= y
    BY <2>1
  <2>2. CASE y <= x
    BY <2>2
  <2> QED BY <2>1, <2>2
<1>2. Max({x, y}) \in {x, y} /\ \A n \in {x, y} : Max({x, y}) >= n
  BY <1>1, Zenon DEF Max
<1>3. Min({x, y}) \in {x, y} /\ \A n \in {x, y} : Min({x, y}) =< n
  BY <1>1, Zenon DEF Min
<1>4. Max({x, y}) \in Int /\ Min({x, y}) \in Int /\ Max({x, y}) >= x /\ Min({x, y}) =< x
  BY <1>2, <1>3
<1> QED BY <1>4

LEMMA RefusedReads == ASSUME NEW areas, NEW v, IsIll(v) PROVE Reads(areas, Refused, v)
BY DEF Reads, Refused
LEMMA NoFilterReads == ASSUME NEW areas, NEW v PROVE Reads(areas, Filters(<<>>), v)
BY DEF Reads, Filters
LEMMA FilterReads == ASSUME NEW areas, NEW v, NEW f, IsSoundFilter(areas, f)
  PROVE  Reads(areas, Filters(<<f>>), v)
BY DEF Reads, Filters

LEMMA TemporalReads ==
  ASSUME NEW areas, NEW v, v.type = "temporal", IsVariable(v)
  PROVE  Reads(areas, Temporal(v), v)
<1> DEFINE dated == Given(v.start) \/ Given(v.end)
           ill == Invalid \in {v.start, v.end}
           period == Period(v)
           bad == (dated /\ (ill \/ period[1] > period[2])) \/ v.granularity = Invalid
           f == [type |-> "temporal", period |-> IF dated THEN period ELSE <<>>,
                 granularity |-> v.granularity]
<1>0. v.start \in Int /\ v.end \in Int /\ Now \in Int
  BY SearchAssumption DEF IsVariable
<1>1. /\ period[1] = IF Given(v.start) THEN v.start ELSE 0
      /\ period[2] = IF Given(v.end) THEN v.end
                     ELSE IF period[1] > Now THEN period[1] + 1 ELSE Now
  BY DEF Period
<1>2. Temporal(v) = IF bad THEN Refused ELSE Filters(<<f>>)
  BY DEF Temporal
<1>3. period[1] \in Int /\ period[2] \in Int
  <2> HIDE DEF period
  <2> QED BY <1>0, <1>1
<1> HIDE DEF period
<1>4. CASE bad
  <2>1. CASE v.granularity = Invalid \/ ill
    BY <1>2, <1>4, <2>1, RefusedReads DEF IsIll
  <2>2. CASE dated /\ period[1] > period[2]
    <3>1. Given(v.end)
      <4> SUFFICES ASSUME ~Given(v.end) PROVE FALSE
        OBVIOUS
      <4>1. period[2] = IF period[1] > Now THEN period[1] + 1 ELSE Now
        BY <1>1
      <4> QED BY <1>0, <1>3, <2>2, <4>1
    <3>2. IF Given(v.start) THEN v.start > v.end ELSE v.end < 0
      BY <1>0, <1>1, <2>2, <3>1
    <3>3. IsIll(v)
      BY <3>1, <3>2 DEF IsIll
    <3> QED BY <1>2, <1>4, <3>3, RefusedReads
  <2> QED BY <1>4, <2>1, <2>2
<1>5. CASE ~bad
  <2>1. f.period # <<>> => f.period = period /\ ~(period[1] > period[2])
    BY <1>5
  <2>2. f.type = "temporal"
    OBVIOUS
  <2> HIDE DEF f, dated, ill
  <2>3. IsSoundFilter(areas, f)
    BY <1>3, <2>1, <2>2 DEF IsSoundFilter
  <2> QED BY <1>2, <1>5, <2>3, FilterReads
<1> QED BY <1>4, <1>5

(* The filter of a box, and of the box of an area.                          *)
SpatialFilter(x1, x2, y1, y2) == [type |-> "spatial", envelope |-> <<<<x1, y2>>, <<x2, y1>>>>]
BoxOf(x1, x2, y1, y2) ==
  SpatialFilter(Min({x1, x2}), Max({x1, x2}), Min({y1, y2}), Max({y1, y2}))
LEMMA BoxIsSound ==
  ASSUME NEW areas, NEW x1 \in Int, NEW x2 \in Int, NEW y1 \in Int, NEW y2 \in Int
  PROVE  IsSoundFilter(areas, BoxOf(x1, x2, y1, y2))
<1> DEFINE f == BoxOf(x1, x2, y1, y2)
           a == Min({x1, x2})
           b == Max({x1, x2})
           c == Min({y1, y2})
           d == Max({y1, y2})
<1>1. a <= b /\ c <= d
  BY TwoExtremes
<1>2. f = [type |-> "spatial", envelope |-> <<<<a, d>>, <<b, c>>>>]
  BY DEF BoxOf, SpatialFilter
<1> HIDE DEF a, b, c, d, f
<1>3. f.type = "spatial" /\ f.envelope = <<<<a, d>>, <<b, c>>>>
  BY <1>2
<1>4. IsOrdered(f.envelope)
  BY <1>1, <1>3 DEF IsOrdered
<1>5. IsSoundFilter(areas, f)
  BY <1>3, <1>4 DEF IsSoundFilter
<1> QED BY <1>5 DEF f

LEMMA AreaIsSound ==
  ASSUME NEW areas, NEW a \in DOMAIN areas
  PROVE  IsSoundFilter(areas, SpatialFilter(areas[a][1], areas[a][2], areas[a][3], areas[a][4]))
<1> DEFINE f == SpatialFilter(areas[a][1], areas[a][2], areas[a][3], areas[a][4])
<1>1. f.type = "spatial" /\ f.envelope = EnvelopeOf(areas[a])
  BY DEF SpatialFilter, EnvelopeOf
<1> HIDE DEF f
<1>2. IsSoundFilter(areas, f)
  BY <1>1 DEF IsSoundFilter
<1> QED BY <1>2 DEF f

LEMMA GeospatialReads ==
  ASSUME NEW v, v.type = "geospatial", IsVariable(v), NEW areas
  PROVE  Reads(areas, Geospatial(v, areas), v)
<1> DEFINE b == v.bounds
           a == areas[v.area]
<1>1. Geospatial(v, areas)
        = IF Given(v.area)
          THEN IF v.area = Invalid THEN Refused
               ELSE IF v.area \in DOMAIN areas
               THEN Filters(<<SpatialFilter(a[1], a[2], a[3], a[4])>>)
               ELSE Filters(<<>>)
          ELSE IF \E k \in 1..4 : ~Given(b[k]) THEN Filters(<<>>)
          ELSE IF \E k \in 1..4 : b[k] \in {Invalid, Whole} THEN Refused
          ELSE Filters(<<BoxOf(b[1], b[2], b[3], b[4])>>)
  BY DEF Geospatial, Within, SpatialFilter, BoxOf
<1>2. b \in [1 .. 4 -> Int] /\ \A k \in 1 .. 4 : b[k] \in Int /\ b[k] \in ToSet(b)
  BY DEF IsVariable, ToSet
<1> HIDE DEF b, a
<1>3. CASE Given(v.area) /\ v.area = Invalid
  <2>1. IsIll(v)
    BY <1>3 DEF IsIll
  <2> QED BY <1>1, <1>3, <2>1, RefusedReads
<1>4. CASE Given(v.area) /\ v.area # Invalid /\ v.area \in DOMAIN areas
  <2>1. IsSoundFilter(areas, SpatialFilter(a[1], a[2], a[3], a[4]))
    BY <1>4, AreaIsSound DEF a
  <2> QED BY <1>1, <1>4, <2>1, FilterReads
<1>5. CASE Given(v.area) /\ v.area # Invalid /\ v.area \notin DOMAIN areas
  BY <1>1, <1>5, NoFilterReads
<1>6. CASE ~Given(v.area) /\ \E k \in 1..4 : ~Given(b[k])
  BY <1>1, <1>6, NoFilterReads
<1>7. CASE ~Given(v.area) /\ (\A k \in 1..4 : Given(b[k])) /\ \E k \in 1..4 : b[k] \in {Invalid, Whole}
  <2>1. IsIll(v)
    BY <1>2, <1>7 DEF IsIll, b
  <2> QED BY <1>1, <1>7, <2>1, RefusedReads
<1>8. CASE ~Given(v.area) /\ (\A k \in 1..4 : Given(b[k])) /\ \A k \in 1..4 : b[k] \notin {Invalid, Whole}
  <2>1. b[1] \in Int /\ b[2] \in Int /\ b[3] \in Int /\ b[4] \in Int
    BY <1>2
  <2> QED BY <1>1, <1>8, <2>1, BoxIsSound, FilterReads
<1> QED BY <1>3, <1>4, <1>5, <1>6, <1>7, <1>8

LEMMA VariableReads ==
  ASSUME NEW v, IsVariable(v), NEW areas
  PROVE  Reads(areas, ParseVariable(v, areas), v)
<1>1. CASE v.type = "temporal"
  <2>1. ParseVariable(v, areas) = Temporal(v)
    BY <1>1 DEF ParseVariable
  <2> QED BY <1>1, <2>1, TemporalReads
<1>2. CASE v.type = "geospatial"
  <2>1. ParseVariable(v, areas) = Geospatial(v, areas)
    BY <1>2 DEF ParseVariable
  <2> QED BY <1>2, <2>1, GeospatialReads
<1>3. CASE v.type = "tabular"
  <2>1. ParseVariable(v, areas) = Tabular(v)
    BY <1>3 DEF ParseVariable
  <2>2. CASE Invalid \in v.columns
    <3>1. IsIll(v)
      BY <1>3, <2>2 DEF IsIll
    <3> QED BY <2>1, <2>2, <3>1, RefusedReads DEF Tabular
  <2>3. CASE Invalid \notin v.columns
    <3> DEFINE p == [Filters(<<>>) EXCEPT !.tabular = v.columns]
    <3>1. p.filters = <<>> /\ p.refused = FALSE
      BY DEF Filters
    <3>2. Tabular(v) = p
      BY <2>3 DEF Tabular
    <3> HIDE DEF p
    <3> QED BY <2>1, <3>1, <3>2 DEF Reads
  <2> QED BY <2>2, <2>3
<1>4. CASE v.type = "none"
  <2>1. ParseVariable(v, areas) = Refused
    BY <1>4 DEF ParseVariable
  <2> QED BY <1>4, <2>1, RefusedReads DEF IsIll
<1>5. CASE v.type \notin {"temporal", "geospatial", "tabular", "none"}
  <2>1. ParseVariable(v, areas) = Filters(<<>>)
    BY <1>5 DEF ParseVariable
  <2> QED BY <2>1, NoFilterReads
<1> QED BY <1>1, <1>2, <1>3, <1>4, <1>5

-----------------------------------------------------------------------------
(* A query is read variable by variable.                                    *)
TextsOf(query) == {k \in 1..3 : Given(Lists(query)[k])}
ParsedOf(query, areas) ==
  [k \in DOMAIN query.variables |-> ParseVariable(query.variables[k], areas)]
MainOf(query, areas) ==
  [k \in 1..Cardinality(TextsOf(query)) |-> [type |-> "text"]]
    \o FlattenSeq([k \in DOMAIN ParsedOf(query, areas) |-> ParsedOf(query, areas)[k].filters])
LEMMA ParseQueryIs ==
  ASSUME NEW query, NEW areas
  PROVE  /\ ParseQuery(query, areas).main = MainOf(query, areas)
         /\ ParseQuery(query, areas).refused =>
              \/ \E k \in TextsOf(query) : Lists(query)[k] = Invalid
              \/ \E k \in DOMAIN ParsedOf(query, areas) : ParsedOf(query, areas)[k].refused
BY DEF ParseQuery, MainOf, TextsOf, ParsedOf

LEMMA MainIsSound ==
  ASSUME NEW query, query.variables \in Seq({v \in ToSet(query.variables) : IsVariable(v)}),
         NEW areas
  PROVE  \A k \in DOMAIN MainOf(query, areas) : IsSoundFilter(areas, MainOf(query, areas)[k])
<1> DEFINE vs == query.variables
           n == Len(vs)
           parsed == ParsedOf(query, areas)
           seqs == [k \in DOMAIN parsed |-> parsed[k].filters]
           text == [type |-> "text"]
           A == {text} \cup UNION {ToSet(seqs[k]) : k \in 1 .. n}
           m == Cardinality(TextsOf(query))
           texts == [k \in 1 .. m |-> text]
<1>1. n \in Nat /\ DOMAIN vs = 1 .. n /\ \A k \in 1 .. n : IsVariable(vs[k])
  <2> DEFINE V == {v \in ToSet(vs) : IsVariable(v)}
  <2>1. vs \in Seq(V) /\ \A v \in V : IsVariable(v)
    OBVIOUS
  <2> HIDE DEF V, vs
  <2>2. n \in Nat /\ DOMAIN vs = 1 .. n /\ \A k \in 1 .. n : vs[k] \in V
    BY <2>1
  <2> QED BY <2>1, <2>2
<1> HIDE DEF n
<1>2. DOMAIN parsed = 1 .. n /\ \A k \in 1 .. n : parsed[k] = ParseVariable(vs[k], areas)
  BY <1>1 DEF ParsedOf
<1>3. \A k \in 1 .. n : Reads(areas, parsed[k], vs[k])
  <2> HIDE DEF parsed, vs
  <2> QED BY <1>1, <1>2, VariableReads
<1> HIDE DEF parsed, vs
<1>4. DOMAIN seqs = 1 .. n /\ \A k \in 1 .. n : seqs[k] = parsed[k].filters
  BY <1>2
<1> HIDE DEF seqs
<1>5. ASSUME NEW k \in 1 .. n
      PROVE  seqs[k] \in Seq(A) /\ \A f \in ToSet(seqs[k]) : IsSoundFilter(areas, f)
  <2>1. CASE seqs[k] = <<>>
    <3>1. <<>> \in Seq(A) /\ ToSet(<<>>) = {}
      BY DEF ToSet
    <3> HIDE DEF A
    <3> QED BY <2>1, <3>1
  <2>2. ASSUME NEW f, seqs[k] = <<f>>, IsSoundFilter(areas, f)
        PROVE  seqs[k] \in Seq(A) /\ \A g \in ToSet(seqs[k]) : IsSoundFilter(areas, g)
    <3>1. DOMAIN <<f>> = {1} /\ <<f>>[1] = f
      OBVIOUS
    <3>2. ToSet(<<f>>) = {f}
      BY <3>1 DEF ToSet
    <3>3. f \in A
      BY <2>2, <3>2
    <3> HIDE DEF A
    <3>4. <<f>> \in Seq(A)
      BY <3>3
    <3> QED BY <2>2, <3>2, <3>4
  <2>3. seqs[k] = <<>> \/ \E f : seqs[k] = <<f>> /\ IsSoundFilter(areas, f)
    BY <1>3, <1>4 DEF Reads
  <2> HIDE DEF A
  <2> QED BY <2>1, <2>2, <2>3
<1>6. text \in A /\ IsSoundFilter(areas, text)
  <2>1. text.type = "text" /\ "text" # "temporal" /\ "text" # "spatial"
    OBVIOUS
  <2> QED BY <2>1 DEF IsSoundFilter
<1>7. \A f \in A : IsSoundFilter(areas, f)
  <2> SUFFICES ASSUME NEW f \in A PROVE IsSoundFilter(areas, f)
    OBVIOUS
  <2>1. f = text \/ \E k \in 1 .. n : f \in ToSet(seqs[k])
    <3> HIDE DEF text
    <3> QED OBVIOUS
  <2> HIDE DEF text, A
  <2> QED BY <1>5, <1>6, <2>1
<1> HIDE DEF A, text
<1>8. seqs \in [1 .. n -> Seq(A)]
  <2>1. seqs = [k \in 1 .. n |-> seqs[k]]
    BY <1>4 DEF seqs
  <2> QED BY <1>5, <2>1
<1>9. FlattenSeq(seqs) \in Seq(A)
  <2>1. Joint(FlattenSeq(seqs), seqs, n, A)
    BY <1>1, <1>8, FlattenJoins
  <2> QED BY <2>1 DEF Joint
<1>10. texts \in Seq(A)
  <2>1. m \in Nat
    <3>1. IsFiniteSet(1 .. 3) /\ TextsOf(query) \subseteq 1 .. 3
      <4>1. IsFiniteSet(1 .. 3)
        <5>1. \A k \in Nat : IsFiniteSet(1 .. k)
          BY FS_Interval
        <5> QED BY <5>1, Zenon
      <4> QED BY <4>1 DEF TextsOf
    <3>2. IsFiniteSet(TextsOf(query))
      BY <3>1, FS_Subset
    <3> QED BY <3>2, FS_CardinalityType
  <2> HIDE DEF m
  <2>2. texts \in [1 .. m -> A]
    BY <1>6
  <2> HIDE DEF texts
  <2> QED BY <2>1, <2>2
<1>11. MainOf(query, areas) = texts \o FlattenSeq(seqs)
  BY DEF MainOf, texts, m, seqs, text, parsed
<1>12. MainOf(query, areas) \in Seq(A)
  <2> HIDE DEF texts
  <2> QED BY <1>9, <1>10, <1>11, Joining
<1>13. \A k \in DOMAIN MainOf(query, areas) : MainOf(query, areas)[k] \in A
  BY <1>12
<1> QED BY <1>7, <1>13

(* A query that is not ill, and has no bounds without a fraction, is        *)
(* accepted, and then its periods are not empty, nor its envelopes, but     *)
(* those of areas, which are used as they are.                              *)
THEOREM QueriesAreRead ==
  ASSUME NEW query, query.variables \in Seq({v \in ToSet(query.variables) : IsVariable(v)}),
         NEW areas
  PROVE  FiltersSound(query, areas)
<1> DEFINE vs == query.variables
           parsed == ParseQuery(query, areas)
<1>1. \A k \in DOMAIN parsed.main : IsSoundFilter(areas, parsed.main[k])
  <2>1. parsed.main = MainOf(query, areas)
    BY ParseQueryIs
  <2> HIDE DEF parsed
  <2> QED BY <2>1, MainIsSound
<1>2. ASSUME parsed.refused
      PROVE  Invalid \in ToSet(Lists(query)) \/ \E v \in ToSet(vs) : IsIll(v)
  <2>1. CASE \E k \in TextsOf(query) : Lists(query)[k] = Invalid
    <3>1. PICK k \in 1 .. 3 : Lists(query)[k] = Invalid
      BY <2>1 DEF TextsOf
    <3>2. DOMAIN Lists(query) = 1 .. 3
      BY DEF Lists
    <3> QED BY <3>1, <3>2 DEF ToSet
  <2>2. CASE \E k \in DOMAIN ParsedOf(query, areas) : ParsedOf(query, areas)[k].refused
    <3>1. PICK k \in DOMAIN vs : ParseVariable(vs[k], areas).refused
      BY <2>2 DEF ParsedOf
    <3>2. vs[k] \in ToSet(vs) /\ IsVariable(vs[k])
      <4> DEFINE V == {v \in ToSet(vs) : IsVariable(v)}
      <4>1. vs \in Seq(V) /\ \A v \in V : v \in ToSet(vs) /\ IsVariable(v)
        OBVIOUS
      <4> HIDE DEF V, vs
      <4>2. vs[k] \in V
        BY <4>1
      <4> QED BY <4>1, <4>2
    <3>3. Reads(areas, ParseVariable(vs[k], areas), vs[k])
      BY <3>2, VariableReads
    <3>4. IsIll(vs[k])
      BY <3>1, <3>3 DEF Reads
    <3> QED BY <3>2, <3>4
  <2> QED BY <1>2, <2>1, <2>2, ParseQueryIs
<1> HIDE DEF parsed
<1>3. ~parsed.refused =>
        \A k \in DOMAIN parsed.main :
          LET f == parsed.main[k]
          IN /\ f.type = "temporal" /\ f.period # <<>> => f.period[1] <= f.period[2]
             /\ f.type = "spatial" =>
                  \/ IsOrdered(f.envelope)
                  \/ \E a \in DOMAIN areas :
                       f.envelope = <<<<areas[a][1], areas[a][4]>>, <<areas[a][2], areas[a][3]>>>>
  BY <1>1 DEF IsSoundFilter, EnvelopeOf
<1>4. parsed.refused =>
        \/ Invalid \in ToSet(Lists(query))
        \/ \E v \in ToSet(vs) :
             \/ v.type = "none"
             \/ (v.type = "temporal" /\ Invalid \in {v.start, v.end, v.granularity})
             \/ /\ v.type = "temporal" /\ Given(v.end)
                /\ IF Given(v.start) THEN v.start > v.end ELSE v.end < 0
             \/ (v.type = "geospatial" /\ {Invalid, Whole} \cap ({v.area} \cup ToSet(v.bounds)) # {})
             \/ (v.type = "tabular" /\ Invalid \in v.columns)
  <2> SUFFICES ASSUME parsed.refused, Invalid \notin ToSet(Lists(query))
               PROVE  \E v \in ToSet(vs) : IsIll(v)
    BY DEF IsIll
  <2> QED BY <1>2
<1> QED BY <1>3, <1>4, Zenon DEF FiltersSound, parsed, vs

(* A search with an input looks for augmentations of that one input; one    *)
(* without is refused when no part of its query became a filter.            *)
THEOREM RequestsAreAnswered ==
  ASSUME NEW request, NEW areas
  PROVE  AnswersSound(request, areas)
<1> DEFINE inputs == {k \in {"data", "id", "profile"} : Given(request[k])}
           query == request.query[1]
           parsed == ParseQuery(query, areas)
           asked == request.query # <<>>
           answer == Answer(request, areas)
<1>1. answer = IF request.content = "other" THEN 400
               ELSE IF request.profile = Unusable THEN 404
               ELSE IF Cardinality(inputs) > 1 \/ request.id = Unusable THEN 400
               ELSE IF asked /\ (parsed.refused \/ query.augmentation = Invalid) THEN 400
               ELSE IF inputs = {} THEN IF asked /\ parsed.main # <<>> THEN 0 ELSE 400
               ELSE 1
  BY DEF Answer
<1>2. IsFiniteSet(inputs)
  <2>1. IsFiniteSet({"data", "id", "profile"})
    <3>1. {"data", "id", "profile"} = ({"data"} \cup {"id"}) \cup {"profile"}
      OBVIOUS
    <3>2. IsFiniteSet({"data"}) /\ IsFiniteSet({"id"}) /\ IsFiniteSet({"profile"})
      BY FS_Singleton
    <3>3. IsFiniteSet({"data"} \cup {"id"})
      BY <3>2, FS_Union
    <3> QED BY <3>1, <3>2, <3>3, FS_Union
  <2>2. inputs \subseteq {"data", "id", "profile"}
    OBVIOUS
  <2> QED BY <2>1, <2>2, FS_Subset
<1>3. Cardinality(inputs) \in Nat /\ (inputs # {} => Cardinality(inputs) # 0)
  BY <1>2, FS_CardinalityType, FS_EmptySet
<1> HIDE DEF inputs, parsed, answer, query
<1>4. answer = 1 => Cardinality(inputs) = 1
  BY <1>1, <1>3
<1>5. answer = 0 => parsed.main # <<>>
  BY <1>1
<1> QED BY <1>4, <1>5, Zenon DEF AnswersSound, inputs, parsed, answer, query

-----------------------------------------------------------------------------
(* Results that are mixed.  What comes from a list is the first part of it  *)
(* when c counts it.                                                        *)
Counts(c, mixed, list, n) ==
  /\ c \in [0 .. n -> 0 .. Len(list)] /\ c[0] = 0
  /\ \A k \in 1 .. n :
       IF mixed[k] \in ToSet(list) THEN c[k] = c[k - 1] + 1 /\ mixed[k] = list[c[k]]
       ELSE c[k] = c[k - 1]

LEMMA FirstOfList ==
  ASSUME NEW A, NEW mixed \in Seq(A), NEW list \in Seq(A), NEW c, Counts(c, mixed, list, Len(mixed))
  PROVE  ResultsFrom(mixed, list) = SubSeq(list, 1, c[Len(mixed)])
<1> DEFINE n == Len(mixed)
           seqs == [k \in DOMAIN mixed |-> IF mixed[k] \in ToSet(list) THEN <<mixed[k]>> ELSE <<>>]
<1>1. n \in Nat /\ DOMAIN mixed = 1 .. n /\ Len(list) \in Nat /\ \A k \in 1 .. n : mixed[k] \in A
  BY LenProperties
<1> HIDE DEF n
<1>2. seqs \in [1 .. n -> Seq(A)]
       /\ \A k \in 1 .. n : seqs[k] = IF mixed[k] \in ToSet(list) THEN <<mixed[k]>> ELSE <<>>
  <2>1. \A k \in 1 .. n : <<mixed[k]>> \in Seq(A) /\ <<>> \in Seq(A)
    BY <1>1
  <2> QED BY <1>1, <2>1
<1>3. ResultsFrom(mixed, list) = FlattenSeq(seqs)
  BY DEF ResultsFrom
<1> HIDE DEF seqs
<1>4. PICK r : Joins(r, seqs, n, A)
  BY <1>1, <1>2, FlattenSteps
<1>5. /\ c \in [0 .. n -> 0 .. Len(list)] /\ c[0] = 0
      /\ \A k \in 1 .. n :
           IF mixed[k] \in ToSet(list) THEN c[k] = c[k - 1] + 1 /\ mixed[k] = list[c[k]]
           ELSE c[k] = c[k - 1]
  BY DEF Counts, n
<1> DEFINE M == {k \in Nat : k <= n => r[k] = SubSeq(list, 1, c[k])}
<1>6. 0 \in M
  <2>1. SubSeq(list, 1, 0) = <<>>
    BY SubSeqEmpty
  <2> QED BY <1>4, <1>5, <2>1 DEF Joins
<1>7. ASSUME NEW k \in 0 .. n - 1, k \in M PROVE k + 1 \in M
  <2> DEFINE i == k + 1
  <2>1. i \in 1 .. n /\ i - 1 = k /\ i - 1 \in 0 .. n /\ k <= n /\ i \in Nat
    BY <1>1
  <2> HIDE DEF i
  <2>2. r[i] = r[i - 1] \o seqs[i]
    BY <1>4, <2>1 DEF Joins
  <2>3. r[i - 1] = SubSeq(list, 1, c[i - 1])
    BY <1>7, <2>1
  <2>4. c[i - 1] \in Nat /\ c[i] \in 0 .. Len(list) /\ c[i - 1] \in 0 .. Len(list)
    <3>1. i \in 0 .. n
      BY <1>1, <2>1
    <3> QED BY <1>5, <2>1, <3>1
  <2>5. CASE mixed[i] \in ToSet(list)
    <3>1. c[i] = c[i - 1] + 1 /\ mixed[i] = list[c[i]] /\ seqs[i] = <<mixed[i]>>
      BY <1>2, <1>5, <2>1, <2>5
    <3> DEFINE m == c[i]
    <3>2. m \in 1 .. Len(list) /\ m - 1 = c[i - 1]
      BY <1>1, <2>4, <3>1
    <3>3. SubSeq(list, 1, m) = SubSeq(list, 1, m - 1) \o <<list[m]>>
      <4>1. 1 \in 1 .. Len(list) /\ m \in 1 .. Len(list)
        BY <1>1, <3>2
      <4> HIDE DEF m
      <4> QED BY <4>1, SubSeqRecursiveSecond
    <3>4. r[i] = SubSeq(list, 1, c[i])
      BY <2>2, <2>3, <3>1, <3>2, <3>3
    <3> QED BY <2>1, <3>4 DEF i
  <2>6. CASE mixed[i] \notin ToSet(list)
    <3>1. c[i] = c[i - 1] /\ seqs[i] = <<>>
      BY <1>2, <1>5, <2>1, <2>6
    <3>2. r[i - 1] \in Seq(A)
      BY <1>4, <2>1 DEF Joins
    <3>3. r[i - 1] \o <<>> = r[i - 1]
      BY <3>2
    <3>4. r[i] = SubSeq(list, 1, c[i])
      BY <2>2, <2>3, <3>1, <3>3
    <3> QED BY <2>1, <3>4 DEF i
  <2> QED BY <2>5, <2>6
<1>8. n \in M
  <2>1. M \in SUBSET Nat /\ n \in 0 .. n
    BY <1>1
  <2> HIDE DEF M
  <2> QED BY <1>1, <1>6, <1>7, <2>1, StepInduction
<1>9. r[n] = SubSeq(list, 1, c[n])
  BY <1>1, <1>8
<1> QED BY <1>3, <1>4, <1>9 DEF Joins, n

LEMMA PartOfIs ==
  ASSUME NEW A, NEW s \in Seq(A), NEW from \in Nat, 1 <= from, NEW to \in 0 .. Len(s)
  PROVE  /\ SubSeq(s, from, to) \in Seq(A)
         /\ Len(SubSeq(s, from, to)) = IF from <= to THEN to - from + 1 ELSE 0
         /\ \A i \in 1 .. to - from + 1 : SubSeq(s, from, to)[i] = s[from + i - 1]
<1>1. Len(s) \in Nat
  OBVIOUS
<1>2. from \in Int /\ to \in Int /\ \A i \in from .. to : s[i] \in A
  BY <1>1
<1> QED BY <1>2, SubSeqProperties

(* How many of the first k results are joins, when there are a joins and b  *)
(* unions.                                                                  *)
JoinsIn(a, b, k) ==
  IF a <= b THEN IF k <= 2 * a THEN (k + 1) \div 2 ELSE a
  ELSE IF k <= 2 * b THEN (k + 1) \div 2 ELSE k - b

(* The k-th result is the next join, or the next union.                     *)
IsNextResult(x, joins, unions, k) ==
  LET a == Len(joins)
      b == Len(unions)
      j == JoinsIn(a, b, k)
  IN \/ j = JoinsIn(a, b, k - 1) + 1 /\ j \in 1 .. a /\ x = joins[j]
     \/ j = JoinsIn(a, b, k - 1) /\ k - j \in 1 .. b /\ x = unions[k - j]

LEMMA JoinsCount ==
  \A a, b \in Nat :
    /\ JoinsIn(a, b, 0) = 0
    /\ \A k \in 1 .. a + b :
         /\ JoinsIn(a, b, k) \in 0 .. a /\ k - JoinsIn(a, b, k) \in 0 .. b
         /\ JoinsIn(a, b, k - 1) \in {JoinsIn(a, b, k), JoinsIn(a, b, k) - 1}
BY DEF JoinsIn

(* The parts of the list of all results.                                    *)
LEMMA MixedIs ==
  ASSUME NEW A, NEW joins \in Seq(A), NEW unions \in Seq(A)
  PROVE  /\ Mixed(joins, unions) \in Seq(A)
         /\ Len(Mixed(joins, unions)) = Min({TopK, Len(joins) + Len(unions)})
         /\ \A k \in 1 .. Len(Mixed(joins, unions)) :
              k <= Len(joins) + Len(unions) /\ IsNextResult(Mixed(joins, unions)[k], joins, unions, k)
<1> DEFINE a == Len(joins)
           b == Len(unions)
           size == Min({a, b})
           pairs == [k \in 1 .. (2 * size) |-> IF k % 2 = 1 THEN joins[(k + 1) \div 2] ELSE unions[k \div 2]]
           js == SubSeq(joins, size + 1, a)
           us == SubSeq(unions, size + 1, b)
           all == pairs \o js \o us
<1>1. /\ a \in Nat /\ b \in Nat /\ TopK \in Nat
      /\ \A i \in 1 .. a : joins[i] \in A
      /\ \A i \in 1 .. b : unions[i] \in A
  BY SearchAssumption
<1>2. size = IF a <= b THEN a ELSE b
  <2>1. a \in Int /\ b \in Int
    BY <1>1
  <2> HIDE DEF a, b
  <2> QED BY <2>1, LeastOfTwo
<1>3. Mixed(joins, unions) = SubSeq(all, 1, Min({TopK, Len(all)}))
  BY DEF Mixed
<1> HIDE DEF size
<1>4. /\ js \in Seq(A) /\ Len(js) = a - size
      /\ \A i \in 1 .. a - size : js[i] = joins[size + i]
  <2>1. size + 1 \in Nat /\ 1 <= size + 1 /\ a \in 0 .. Len(joins)
    BY <1>1, <1>2
  <2>2. /\ SubSeq(joins, size + 1, a) \in Seq(A)
        /\ Len(SubSeq(joins, size + 1, a)) = IF size + 1 <= a THEN a - (size + 1) + 1 ELSE 0
        /\ \A i \in 1 .. a - (size + 1) + 1 : SubSeq(joins, size + 1, a)[i] = joins[(size + 1) + i - 1]
    <3> HIDE DEF a
    <3> QED BY <2>1, PartOfIs
  <2>3. a - (size + 1) + 1 = a - size /\ \A i \in 1 .. a - size : (size + 1) + i - 1 = size + i
    BY <1>1, <1>2
  <2>4. a - size = IF size + 1 <= a THEN a - (size + 1) + 1 ELSE 0
    <3>1. size \in Int /\ a \in Int /\ b \in Int /\ size <= a
      BY <1>1, <1>2
    <3> HIDE DEF a, b
    <3> QED BY <3>1
  <2> HIDE DEF a
  <2>5. \A i \in 1 .. a - size : SubSeq(joins, size + 1, a)[i] = joins[size + i]
    <3> HIDE DEF size
    <3> QED BY <2>2, <2>3
  <2> QED BY <2>2, <2>4, <2>5
<1>5. /\ us \in Seq(A) /\ Len(us) = b - size
      /\ \A i \in 1 .. b - size : us[i] = unions[size + i]
  <2>1. size + 1 \in Nat /\ 1 <= size + 1 /\ b \in 0 .. Len(unions)
    BY <1>1, <1>2
  <2>2. /\ SubSeq(unions, size + 1, b) \in Seq(A)
        /\ Len(SubSeq(unions, size + 1, b)) = IF size + 1 <= b THEN b - (size + 1) + 1 ELSE 0
        /\ \A i \in 1 .. b - (size + 1) + 1 : SubSeq(unions, size + 1, b)[i] = unions[(size + 1) + i - 1]
    <3> HIDE DEF b
    <3> QED BY <2>1, PartOfIs
  <2>3. b - (size + 1) + 1 = b - size /\ \A i \in 1 .. b - size : (size + 1) + i - 1 = size + i
    BY <1>1, <1>2
  <2>4. b - size = IF size + 1 <= b THEN b - (size + 1) + 1 ELSE 0
    <3>1. size \in Int /\ a \in Int /\ b \in Int /\ size <= b
      BY <1>1, <1>2
    <3> HIDE DEF a, b
    <3> QED BY <3>1
  <2> HIDE DEF b
  <2>5. \A i \in 1 .. b - size : SubSeq(unions, size + 1, b)[i] = unions[size + i]
    <3> HIDE DEF size
    <3> QED BY <2>2, <2>3
  <2> QED BY <2>2, <2>4, <2>5
<1> HIDE DEF js, us, a, b
<1>6. size \in Nat /\ size <= a /\ size <= b
  BY <1>1, <1>2
<1>7. /\ pairs \in Seq(A) /\ Len(pairs) = 2 * size
      /\ \A k \in 1 .. 2 * size :
           pairs[k] = IF k % 2 = 1 THEN joins[(k + 1) \div 2] ELSE unions[k \div 2]
  <2>1. \A k \in 1 .. 2 * size : k % 2 = 1 => (k + 1) \div 2 \in 1 .. a
    BY <1>1, <1>6
  <2>2. \A k \in 1 .. 2 * size : k % 2 # 1 => k \div 2 \in 1 .. b
    BY <1>1, <1>6
  <2>3. pairs \in [1 .. 2 * size -> A] /\ 2 * size \in Nat
    BY <1>1, <1>6, <2>1, <2>2
  <2>4. pairs \in Seq(A) /\ Len(pairs) = 2 * size
    <3> HIDE DEF pairs
    <3> QED BY <2>3
  <2> QED BY <2>4
<1> HIDE DEF pairs
<1> DEFINE first == pairs \o js
<1>8. /\ first \in Seq(A) /\ Len(first) = size + a
      /\ \A k \in 1 .. 2 * size : first[k] = pairs[k]
      /\ \A k \in 1 .. size + a : k > 2 * size => first[k] = joins[k - size]
  <2>1. /\ first \in Seq(A)
        /\ Len(pairs) = 2 * size /\ Len(js) = a - size
        /\ Len(first) = Len(pairs) + Len(js)
        /\ \A k \in 1 .. Len(pairs) : first[k] = pairs[k]
        /\ \A k \in 1 .. Len(pairs) + Len(js) : k > Len(pairs) =>
             k - Len(pairs) \in 1 .. Len(js) /\ first[k] = js[k - Len(pairs)]
    <3> HIDE DEF first
    <3>1. first = pairs \o js
      BY DEF first
    <3> QED BY <1>4, <1>7, <3>1, Joining
  <2> HIDE DEF first
  <2>2. 2 * size + (a - size) = size + a
    BY <1>1, <1>6
  <2>3. ASSUME NEW k \in 1 .. size + a, k > 2 * size PROVE first[k] = joins[k - size]
    <3>1. k - 2 * size \in 1 .. a - size /\ first[k] = js[k - 2 * size] /\ size + (k - 2 * size) = k - size
      BY <1>1, <1>6, <2>1, <2>2, <2>3
    <3> QED BY <1>4, <3>1
  <2> QED BY <2>1, <2>2, <2>3
<1>9. /\ all \in Seq(A) /\ Len(all) = a + b
      /\ \A k \in 1 .. 2 * size : all[k] = pairs[k]
      /\ \A k \in 1 .. size + a : k > 2 * size => all[k] = joins[k - size]
      /\ \A k \in 1 .. a + b : k > size + a => all[k] = unions[k - a]
  <2>1. /\ all \in Seq(A)
        /\ Len(first) = size + a /\ Len(us) = b - size
        /\ Len(all) = Len(first) + Len(us)
        /\ \A k \in 1 .. Len(first) : all[k] = first[k]
        /\ \A k \in 1 .. Len(first) + Len(us) : k > Len(first) =>
             k - Len(first) \in 1 .. Len(us) /\ all[k] = us[k - Len(first)]
    <3>1. all = first \o us
      BY DEF all
    <3> HIDE DEF all, first
    <3> QED BY <1>5, <1>8, <3>1, Joining
  <2> HIDE DEF all, first
  <2>2. (size + a) + (b - size) = a + b
    BY <1>1, <1>6
  <2>3. ASSUME NEW k \in 1 .. a + b, k > size + a PROVE all[k] = unions[k - a]
    <3>1. k - (size + a) \in 1 .. b - size /\ all[k] = us[k - (size + a)] /\ size + (k - (size + a)) = k - a
      BY <1>1, <1>6, <2>1, <2>2, <2>3
    <3> QED BY <1>5, <3>1
  <2>4. ASSUME NEW k \in 1 .. 2 * size PROVE all[k] = pairs[k]
    <3>1. k \in 1 .. size + a
      BY <1>1, <1>6
    <3> QED BY <1>8, <2>1, <3>1
  <2> QED BY <1>8, <2>1, <2>2, <2>3, <2>4
<1> HIDE DEF all
<1> DEFINE n == Min({TopK, Len(all)})
<1>10. n = (IF TopK <= a + b THEN TopK ELSE a + b) /\ n \in 0 .. a + b /\ n \in Nat
  <2>1. TopK \in Int /\ Len(all) \in Int
    BY <1>1, <1>9
  <2>2. n = IF TopK <= Len(all) THEN TopK ELSE Len(all)
    BY <2>1, LeastOfTwo
  <2> QED BY <1>1, <1>9, <2>2
<1> DEFINE mixed == SubSeq(all, 1, n)
<1>11. mixed \in Seq(A) /\ Len(mixed) = n /\ \A k \in 1 .. n : mixed[k] = all[k]
  <2>1. n \in 0 .. Len(all) /\ 1 \in Nat /\ 1 <= 1
    BY <1>9, <1>10
  <2>2. n - 1 + 1 = n /\ \A k \in 1 .. n : 1 + k - 1 = k
    BY <1>10
  <2> HIDE DEF n
  <2>3. /\ SubSeq(all, 1, n) \in Seq(A)
        /\ Len(SubSeq(all, 1, n)) = IF 1 <= n THEN n - 1 + 1 ELSE 0
        /\ \A k \in 1 .. n - 1 + 1 : SubSeq(all, 1, n)[k] = all[1 + k - 1]
    BY <1>9, <2>1, PartOfIs
  <2> QED BY <1>10, <2>2, <2>3
<1>12. ASSUME NEW k \in 1 .. n
       PROVE k \in 1 .. a + b /\ IsNextResult(all[k], joins, unions, k)
  <2>1. k \in 1 .. a + b
    BY <1>1, <1>10
  <2> HIDE DEF n
  <2> DEFINE j == JoinsIn(a, b, k)
             i == JoinsIn(a, b, k - 1)
  <2>2. \/ j = i + 1 /\ j \in 1 .. a /\ all[k] = joins[j]
        \/ j = i /\ k - j \in 1 .. b /\ all[k] = unions[k - j]
    <3>1. CASE k \in 1 .. 2 * size /\ k % 2 = 1
      <4>1. j = (k + 1) \div 2 /\ i = k \div 2 /\ j = i + 1 /\ j \in 1 .. a
        BY <1>1, <1>2, <3>1 DEF JoinsIn
      <4>2. all[k] = joins[(k + 1) \div 2]
        BY <1>7, <1>9, <3>1
      <4> QED BY <4>1, <4>2
    <3>2. CASE k \in 1 .. 2 * size /\ k % 2 # 1
      <4>1. j = k \div 2 /\ i = j /\ k - j = k \div 2 /\ k - j \in 1 .. b
        BY <1>1, <1>2, <3>2 DEF JoinsIn
      <4>2. all[k] = unions[k \div 2]
        BY <1>7, <1>9, <3>2
      <4> QED BY <4>1, <4>2
    <3>3. CASE k > 2 * size /\ a <= b
      <4>1. j = a /\ i = a /\ k > size + a /\ k - j \in 1 .. b
        BY <1>1, <1>2, <2>1, <3>3 DEF JoinsIn
      <4>2. all[k] = unions[k - a]
        BY <1>9, <2>1, <4>1
      <4> QED BY <4>1, <4>2
    <3>4. CASE k > 2 * size /\ b < a
      <4>1. j = k - b /\ i = j - 1 /\ j \in 1 .. a /\ k \in 1 .. size + a /\ size = b
        BY <1>1, <1>2, <2>1, <3>4 DEF JoinsIn
      <4>2. all[k] = joins[k - b]
        BY <1>9, <3>4, <4>1
      <4> QED BY <4>1, <4>2
    <3>5. k \in 1 .. 2 * size \/ k > 2 * size
      BY <1>6, <2>1
    <3>6. a <= b \/ b < a
      BY <1>1
    <3> QED BY <3>1, <3>2, <3>3, <3>4, <3>5, <3>6
  <2> HIDE DEF j, i
  <2>3. Len(joins) = a /\ Len(unions) = b
    BY DEF a, b
  <2> QED BY <2>1, <2>2, <2>3 DEF IsNextResult, j, i
<1>13. Mixed(joins, unions) = mixed
  BY <1>3
<1>14. n = Min({TopK, a + b})
  BY <1>9
<1> HIDE DEF n, mixed
<1>15. \A k \in 1 .. n : k <= a + b
  BY <1>12
<1> QED BY <1>11, <1>12, <1>13, <1>14, <1>15 DEF a, b, mixed

LEMMA FairShares ==
  \A a, b \in Nat : \A n \in 0 .. a + b :
    LET j == JoinsIn(a, b, n)
    IN /\ j < a => j - (n - j) \in {0, 1} \/ n - j = b
       /\ n - j < b => j - (n - j) \in {0, 1} \/ j = a
BY DEF JoinsIn

LEMMA FirstPart ==
  ASSUME NEW A, NEW s \in Seq(A), NEW m \in 0 .. Len(s)
  PROVE  /\ Len(SubSeq(s, 1, m)) = m
         /\ IsPrefix(SubSeq(s, 1, m), s)
         /\ m = Len(s) => SubSeq(s, 1, m) = s
<1> DEFINE t == SubSeq(s, 1, m)
<1>1. m \in Nat /\ m <= Len(s)
  BY LenProperties
<1>2. t \in Seq(A) /\ Len(t) = m
  <2>1. 1 \in Nat /\ 1 <= 1 /\ m - 1 + 1 = m
    BY <1>1
  <2>2. /\ SubSeq(s, 1, m) \in Seq(A)
        /\ Len(SubSeq(s, 1, m)) = IF 1 <= m THEN m - 1 + 1 ELSE 0
    BY <2>1, PartOfIs
  <2> QED BY <1>1, <2>1, <2>2
<1>3. m = Len(s) => t = s
  BY SubSeqFull
<1>4. SubSeq(t, 1, Len(t)) = t
  <2> HIDE DEF t
  <2> QED BY <1>2, SubSeqFull
<1>5. IsPrefix(t, s)
  <2>1. SubSeq(t, 1, Len(t)) = SubSeq(s, 1, Len(t)) /\ Len(t) <= Len(s)
    <3>1. t = SubSeq(s, 1, Len(t))
      BY <1>2
    <3> HIDE DEF t
    <3> QED BY <1>1, <1>2, <1>4, <3>1
  <2> HIDE DEF t
  <2> QED BY <2>1 DEF IsPrefix
<1> QED BY <1>2, <1>3, <1>5

(* Joins and unions in turn: the results of a search have the first of the  *)
(* joins and of the unions, in their order and as many of each as there     *)
(* are, for every two lists without a result in common                      *)
(* (get_augmentation_search_results()).                                     *)
THEOREM ResultsAreMixed ==
  ASSUME NEW A, NEW joins \in Seq(A), NEW unions \in Seq(A),
         ToSet(joins) \cap ToSet(unions) = {}
  PROVE  MixedFairly(joins, unions)
<1> DEFINE mixed == Mixed(joins, unions)
           n == Len(mixed)
           a == Len(joins)
           b == Len(unions)
           cj == [k \in 0 .. n |-> JoinsIn(a, b, k)]
           cu == [k \in 0 .. n |-> k - JoinsIn(a, b, k)]
           J == JoinsIn(a, b, n)
<1>1. /\ mixed \in Seq(A) /\ n = Min({TopK, a + b})
      /\ \A k \in 1 .. n : k <= a + b /\ IsNextResult(mixed[k], joins, unions, k)
  BY MixedIs
<1>2. /\ a \in Nat /\ b \in Nat
      /\ \A i \in 1 .. a : joins[i] \in ToSet(joins)
      /\ \A i \in 1 .. b : unions[i] \in ToSet(unions)
  BY DEF ToSet
<1> HIDE DEF mixed
<1>3. n \in Nat /\ n <= a + b
  <2>1. n \in Nat
    BY <1>1
  <2>2. CASE n = 0
    BY <1>2, <2>2
  <2>3. CASE n # 0
    <3>1. n \in 1 .. n
      BY <2>1, <2>3
    <3> HIDE DEF n
    <3> QED BY <1>1, <2>1, <3>1
  <2> QED BY <2>1, <2>2, <2>3
<1> HIDE DEF n
<1>4. ASSUME NEW k \in 1 .. n
      PROVE LET j == JoinsIn(a, b, k)
                i == JoinsIn(a, b, k - 1)
            IN \/ j = i + 1 /\ j \in 1 .. a /\ mixed[k] = joins[j]
               \/ j = i /\ k - j \in 1 .. b /\ mixed[k] = unions[k - j]
  BY <1>1 DEF IsNextResult
<1>5. ASSUME NEW k \in 0 .. n
      PROVE JoinsIn(a, b, k) \in 0 .. a /\ k - JoinsIn(a, b, k) \in 0 .. b
  <2>1. CASE k = 0
    <3>1. JoinsIn(a, b, 0) = 0
      BY <1>2, JoinsCount
    <3> QED BY <1>2, <2>1, <3>1
  <2>2. CASE k # 0
    <3>1. k \in 1 .. a + b
      BY <1>2, <1>3, <2>2
    <3> HIDE DEF a, b
    <3> QED BY <1>2, <3>1, JoinsCount
  <2> QED BY <2>1, <2>2
<1>6. JoinsIn(a, b, 0) = 0
  BY <1>2, JoinsCount
<1>7. Counts(cj, mixed, joins, n)
  <2>1. cj \in [0 .. n -> 0 .. a] /\ cj[0] = 0
    <3>1. 0 \in 0 .. n /\ \A k \in 0 .. n : JoinsIn(a, b, k) \in 0 .. a
      BY <1>3, <1>5
    <3> HIDE DEF a, b
    <3>2. cj \in [0 .. n -> 0 .. a]
      BY <3>1
    <3>3. cj[0] = 0
      BY <1>6, <3>1
    <3> QED BY <3>2, <3>3
  <2>2. ASSUME NEW k \in 1 .. n
        PROVE IF mixed[k] \in ToSet(joins) THEN cj[k] = cj[k - 1] + 1 /\ mixed[k] = joins[cj[k]]
              ELSE cj[k] = cj[k - 1]
    <3>1. cj[k] = JoinsIn(a, b, k) /\ cj[k - 1] = JoinsIn(a, b, k - 1)
      BY <1>3
    <3>2. CASE /\ cj[k] = cj[k - 1] + 1 /\ cj[k] \in 1 .. a /\ mixed[k] = joins[cj[k]]
      BY <1>2, <3>2
    <3>3. CASE /\ cj[k] = cj[k - 1] /\ k - cj[k] \in 1 .. b /\ mixed[k] = unions[k - cj[k]]
      <4>1. mixed[k] \in ToSet(unions)
        BY <1>2, <3>3
      <4> HIDE DEF cj
      <4> QED BY <3>3, <4>1
    <3> HIDE DEF cj
    <3> QED BY <1>4, <3>1, <3>2, <3>3
  <2> HIDE DEF cj
  <2> QED BY <2>1, <2>2 DEF Counts
<1>8. Counts(cu, mixed, unions, n)
  <2>1. cu \in [0 .. n -> 0 .. b] /\ cu[0] = 0
    <3>1. 0 \in 0 .. n /\ \A k \in 0 .. n : k - JoinsIn(a, b, k) \in 0 .. b
      BY <1>3, <1>5
    <3> HIDE DEF a, b
    <3>2. cu \in [0 .. n -> 0 .. b]
      BY <3>1
    <3>3. cu[0] = 0
      BY <1>6, <3>1
    <3> QED BY <3>2, <3>3
  <2>2. ASSUME NEW k \in 1 .. n
        PROVE IF mixed[k] \in ToSet(unions) THEN cu[k] = cu[k - 1] + 1 /\ mixed[k] = unions[cu[k]]
              ELSE cu[k] = cu[k - 1]
    <3> DEFINE j == JoinsIn(a, b, k)
               i == JoinsIn(a, b, k - 1)
    <3>1. cu[k] = k - j /\ cu[k - 1] = (k - 1) - i
      BY <1>3
    <3>0. i \in Int /\ j \in Int /\ k \in Int
      <4>1. k \in 0 .. n /\ k - 1 \in 0 .. n
        BY <1>3
      <4> QED BY <1>5, <4>1
    <3>2. CASE j = i + 1 /\ j \in 1 .. a /\ mixed[k] = joins[j]
      <4>1. mixed[k] \in ToSet(joins)
        BY <1>2, <3>2
      <4>2. cu[k] = cu[k - 1]
        <5> HIDE DEF i, j, cu
        <5> QED BY <3>0, <3>1, <3>2
      <4> HIDE DEF cu, j, i
      <4> QED BY <4>1, <4>2
    <3>3. CASE j = i /\ k - j \in 1 .. b /\ mixed[k] = unions[k - j]
      <4>1. mixed[k] \in ToSet(unions)
        BY <1>2, <3>3
      <4>2. cu[k] = cu[k - 1] + 1
        <5> HIDE DEF i, j, cu
        <5> QED BY <3>0, <3>1, <3>3
      <4> HIDE DEF cu, j, i
      <4> QED BY <3>1, <3>3, <4>1, <4>2
    <3> HIDE DEF cu
    <3> QED BY <1>4, <3>2, <3>3
  <2> HIDE DEF cu
  <2> QED BY <2>1, <2>2 DEF Counts
<1>9. ResultsFrom(mixed, joins) = SubSeq(joins, 1, J)
  <2>1. ResultsFrom(mixed, joins) = SubSeq(joins, 1, cj[n])
    <3> HIDE DEF cj
    <3> QED BY <1>1, <1>7, FirstOfList DEF n
  <2>2. cj[n] = J
    BY <1>3
  <2> QED BY <2>1, <2>2
<1>10. ResultsFrom(mixed, unions) = SubSeq(unions, 1, n - J)
  <2>1. ResultsFrom(mixed, unions) = SubSeq(unions, 1, cu[n])
    <3> HIDE DEF cu
    <3> QED BY <1>1, <1>8, FirstOfList DEF n
  <2>2. cu[n] = n - J
    BY <1>3
  <2> QED BY <2>1, <2>2
<1>11. J \in 0 .. a /\ n - J \in 0 .. b
  BY <1>3, <1>5
<1>12. /\ J < a => J - (n - J) \in {0, 1} \/ n - J = b
       /\ n - J < b => J - (n - J) \in {0, 1} \/ J = a
  <2>1. n \in 0 .. a + b
    BY <1>2, <1>3
  <2> HIDE DEF a, b
  <2> QED BY <1>2, <2>1, FairShares
<1> HIDE DEF J
<1> DEFINE js == SubSeq(joins, 1, J)
           us == SubSeq(unions, 1, n - J)
<1>13. Len(js) = J /\ IsPrefix(js, joins) /\ (J = a => js = joins)
  BY <1>11, FirstPart
<1> DEFINE m == n - J
<1>14. Len(us) = m /\ IsPrefix(us, unions) /\ (m = b => us = unions)
  <2>1. m \in 0 .. b
    BY <1>11
  <2>2. us = SubSeq(unions, 1, m)
    OBVIOUS
  <2> HIDE DEF us, m
  <2> QED BY <2>1, <2>2, FirstPart
<1> HIDE DEF js, us
<1>15. /\ Len(js) < a => (Len(js) - Len(us) \in {0, 1} \/ us = unions)
       /\ Len(us) < b => (Len(js) - Len(us) \in {0, 1} \/ js = joins)
  BY <1>12, <1>13, <1>14
<1>16. ResultsFrom(mixed, joins) = js /\ ResultsFrom(mixed, unions) = us
  BY <1>9, <1>10 DEF js, us
<1>17. Len(mixed) = Min({TopK, Len(joins) + Len(unions)})
  BY <1>1 DEF n
<1> HIDE DEF m
<1> QED BY <1>13, <1>14, <1>15, <1>16, <1>17 DEF MixedFairly, mixed

Keys == {"year", "month", "day"}
LEMMA KeysAre ==
  /\ DOMAIN Resolutions = 1 .. 3 /\ Len(Resolutions) = 3
  /\ Resolutions[1] = "year" /\ Resolutions[2] = "month" /\ Resolutions[3] = "day"
  /\ ToSet(Resolutions) = Keys
<1>1. /\ DOMAIN Resolutions = 1 .. 3 /\ Len(Resolutions) = 3
      /\ Resolutions[1] = "year" /\ Resolutions[2] = "month" /\ Resolutions[3] = "day"
  BY DEF Resolutions
<1>2. ToSet(Resolutions) = {Resolutions[1], Resolutions[2], Resolutions[3]}
  <2>1. 1 .. 3 = {1, 2, 3}
    OBVIOUS
  <2> QED BY <1>1, <2>1 DEF ToSet
<1> QED BY <1>1, <1>2 DEF Keys

LEMMA PriorityIs == Priority("year") = 1 /\ Priority("month") = 2 /\ Priority("day") = 3
<1> USE KeysAre
<1>1. "year" # "month" /\ "year" # "day" /\ "month" # "day"
  OBVIOUS
<1>2. \A i \in 1 .. 3 : i = 1 \/ i = 2 \/ i = 3
  OBVIOUS
<1>3. /\ \A i \in 1 .. 3 : Resolutions[i] = "year" <=> i = 1
      /\ \A i \in 1 .. 3 : Resolutions[i] = "month" <=> i = 2
      /\ \A i \in 1 .. 3 : Resolutions[i] = "day" <=> i = 3
  BY <1>1, <1>2
<1> QED BY <1>3 DEF Priority

Reversed(r) == SelectInSeq(Reverse(Resolutions), LAMBDA x : x = r)
LEMMA ReversedIs == Reversed("year") = 3 /\ Reversed("month") = 2 /\ Reversed("day") = 1
<1> DEFINE R == Reverse(Resolutions)
           I(r) == {i \in 1 .. Len(R) : R[i] = r}
<1>1. Len(R) = 3 /\ R[1] = "day" /\ R[2] = "month" /\ R[3] = "year"
  <2>1. R = [i \in 1 .. 3 |-> Resolutions[(3 - i) + 1]]
    BY KeysAre DEF Reverse
  <2>2. R \in [1 .. 3 -> {Resolutions[1], Resolutions[2], Resolutions[3]}]
    <3>1. \A i \in 1 .. 3 : (3 - i) + 1 = 1 \/ (3 - i) + 1 = 2 \/ (3 - i) + 1 = 3
      OBVIOUS
    <3> QED BY <2>1, <3>1
  <2>3. R \in Seq({Resolutions[1], Resolutions[2], Resolutions[3]}) /\ Len(R) = 3
    <3> DEFINE A == {Resolutions[1], Resolutions[2], Resolutions[3]}
    <3>1. R \in [1 .. 3 -> A] /\ 3 \in Nat
      BY <2>2
    <3> HIDE DEF A, R
    <3>2. \A n \in Nat : \A f \in [1 .. n -> A] : f \in Seq(A) /\ Len(f) = n
      OBVIOUS
    <3>3. R \in Seq(A) /\ Len(R) = 3
      BY <3>1, <3>2
    <3> QED BY <3>3 DEF A
  <2>4. R[1] = Resolutions[3] /\ R[2] = Resolutions[2] /\ R[3] = Resolutions[1]
    BY <2>1
  <2> QED BY <2>3, <2>4, KeysAre
<1>2. ASSUME NEW r PROVE Reversed(r) = IF I(r) # {} THEN Min(I(r)) ELSE 0
  BY DEF Reversed, SelectInSeq
<1> HIDE DEF R
<1>3. ASSUME NEW x \in Int PROVE Min({x}) = x
  <2>1. {x} = {x, x}
    OBVIOUS
  <2>2. x <= x
    OBVIOUS
  <2>3. Min({x, x}) \in {x, x}
    <3>1. \E m \in {x, x} : \A n \in {x, x} : m =< n
      BY <2>2
    <3> QED BY <3>1, Zenon DEF Min
  <2> QED BY <2>1, <2>3
<1>4. I("year") = {3} /\ I("month") = {2} /\ I("day") = {1}
  <2>1. \A i \in 1 .. 3 : i = 1 \/ i = 2 \/ i = 3
    OBVIOUS
  <2>2. "year" # "month" /\ "year" # "day" /\ "month" # "day"
    OBVIOUS
  <2> QED BY <1>1, <2>1, <2>2
<1> HIDE DEF I
<1>5. I("year") # {} /\ I("month") # {} /\ I("day") # {}
  BY <1>4
<1> QED BY <1>2, <1>3, <1>4, <1>5

LEMMA ResolutionsAgree ==
  ASSUME NEW left \in {"none"} \cup Keys, NEW right \in {"none"} \cup Keys
  PROVE  JoinResolution(left, right) = IF "none" \in {left, right} THEN "none" ELSE Coarser(left, right)
<1>1. JoinResolution(left, right) =
        IF "none" \in {left, right} THEN "none"
        ELSE IF Reversed(left) > Reversed(right) THEN left ELSE right
  BY DEF JoinResolution, Reversed
<1>2. CASE "none" \in {left, right}
  BY <1>1, <1>2
<1>3. CASE "none" \notin {left, right}
  <2>1. \A r \in Keys : Reversed(r) = 4 - Priority(r) /\ Priority(r) \in Int
    BY PriorityIs, ReversedIs DEF Keys
  <2>2. left \in Keys /\ right \in Keys
    BY <1>3
  <2>3. Reversed(left) > Reversed(right) <=> Priority(left) < Priority(right)
    BY <2>1, <2>2
  <2> QED BY <1>1, <1>3, <2>3 DEF Coarser
<1> QED BY <1>2, <1>3

LEMMA OrderedByScore ==
  ASSUME NEW H, NEW hits \in Seq(H), \A h \in H : h.score \in Int
  PROVE  LET order == ByScore(hits)
             D     == DOMAIN hits
         IN /\ order \in [D -> D]
            /\ \A i, j \in D : i < j => hits[order[i]].score >= hits[order[j]].score
            /\ \A k \in D : \E i \in D : order[i] = k
<1> DEFINE D == DOMAIN hits
           n == Len(hits)
           R == {p \in D \X D : Better(hits, p[1], p[2])}
           order == ByScore(hits)
<1>1. /\ n \in Nat /\ D = 1 .. n /\ IsFiniteSet(D) /\ Cardinality(D) = n /\ 1 .. Cardinality(D) = D
      /\ \A k \in D : k \in Nat /\ hits[k].score \in Int
  <2>1. n \in Nat /\ D = 1 .. n /\ \A k \in D : hits[k] \in H
    OBVIOUS
  <2>2. IsFiniteSet(1 .. n) /\ Cardinality(1 .. n) = n
    BY <2>1, FS_Interval
  <2>3. \A k \in D : hits[k].score \in Int
    BY <2>1
  <2> HIDE DEF D, n
  <2> QED BY <2>1, <2>2, <2>3
<1>2. \A i, j \in D : <<i, j>> \in R <=> Better(hits, i, j)
  OBVIOUS
<1>3. Orders(R, D)
  <2> HIDE DEF R, D
  <2>1. \A i, j \in D : i # j => Better(hits, i, j) \/ Better(hits, j, i)
    BY <1>1 DEF Better
  <2>2. \A i, j, k \in D : Better(hits, i, j) /\ Better(hits, j, k) => Better(hits, i, k)
    BY <1>1 DEF Better
  <2>3. \A i \in D : ~ Better(hits, i, i)
    BY <1>1 DEF Better
  <2> QED BY <1>2, <2>1, <2>2, <2>3 DEF Orders
<1>4. \E f \in [D -> D] : \A i, j \in D : i < j => Better(hits, f[i], f[j])
  <2>1. PICK f : InOrder(f, R, D)
    <3> HIDE DEF R, D
    <3> QED BY <1>1, <1>3, ListExists
  <2>2. f \in [D -> D] /\ \A i, j \in D : i < j => <<f[i], f[j]>> \in R
    <3> HIDE DEF R, D
    <3> QED BY <1>1, <2>1 DEF InOrder
  <2>3. \A i, j \in D : i < j => Better(hits, f[i], f[j])
    <3> HIDE DEF R, D
    <3> QED BY <1>2, <2>2
  <2> QED BY <2>2, <2>3
<1>5. order \in [D -> D] /\ \A i, j \in D : i < j => Better(hits, order[i], order[j])
  <2>1. order = CHOOSE f \in [D -> D] : \A i, j \in D : i < j => Better(hits, f[i], f[j])
    BY DEF ByScore
  <2> HIDE DEF order, D
  <2> QED BY <1>4, <2>1
<1>6. InOrder(order, R, D)
  <2> HIDE DEF order, R, D
  <2> QED BY <1>1, <1>2, <1>5 DEF InOrder
<1>7. \A k \in D : \E i \in D : order[i] = k
  <2> HIDE DEF order, R, D
  <2>1. \A k \in D : \E i \in 1 .. Cardinality(D) : order[i] = k
    <3>1. IsFiniteSet(D)
      BY <1>1
    <3> QED BY <3>1, <1>3, <1>6, ListHasAll
  <2> QED BY <1>1, <2>1
<1>8. ASSUME NEW i \in D, NEW j \in D, i < j PROVE hits[order[i]].score >= hits[order[j]].score
  <2> HIDE DEF order, D
  <2>1. Better(hits, order[i], order[j])
    BY <1>5, <1>8
  <2>2. hits[order[i]].score \in Int /\ hits[order[j]].score \in Int
    BY <1>1, <1>5
  <2> QED BY <2>1, <2>2 DEF Better
<1> HIDE DEF order, D
<1>9. /\ order \in [D -> D]
      /\ \A i, j \in D : i < j => hits[order[i]].score >= hits[order[j]].score
      /\ \A k \in D : \E i \in D : order[i] = k
  BY <1>5, <1>7, <1>8
<1> QED BY <1>9 DEF order, D

(* The hits of a search for joins become tasks: in the order of their       *)
(* scores, none is lost, and each has the resolution that the augmentation  *)
(* library would choose, for every list of hits whose scores are numbers    *)
(* and whose resolutions are those that the profiler gives                  *)
(* (get_joinable_datasets(), match_column_temporal_resolutions()).          *)
THEOREM TasksAreSound ==
  ASSUME NEW profile, NEW H, NEW hits \in Seq(H),
         \A h \in H : /\ h.score \in Int
                      /\ h.resolution \in {"none"} \cup ToSet(Resolutions)
                      /\ LeftResolution(profile, h.companion) \in {"none"} \cup ToSet(Resolutions)
  PROVE  TasksSound(profile, hits)
<1> DEFINE order == ByScore(hits)
           tasks == Tasks(profile, hits)
           D == DOMAIN hits
<1>1. /\ order \in [D -> D]
      /\ \A i, j \in D : i < j => hits[order[i]].score >= hits[order[j]].score
      /\ \A k \in D : \E i \in D : order[i] = k
  BY OrderedByScore
<1>2. DOMAIN tasks = D /\ \A k \in D : tasks[k] = Task(profile, hits[order[k]])
  BY DEF Tasks
<1>3. \A k \in D : hits[k] \in H
  OBVIOUS
<1> HIDE DEF order, tasks, D
<1>4. ASSUME NEW j \in D, NEW k \in D, j < k PROVE tasks[j].score >= tasks[k].score
  <2>1. tasks[j].score = hits[order[j]].score /\ tasks[k].score = hits[order[k]].score
    BY <1>2 DEF Task
  <2> QED BY <1>1, <1>4, <2>1
<1>5. ASSUME NEW hit \in ToSet(hits)
      PROVE  LET left == LeftResolution(profile, hit.companion)
             IN \E task \in ToSet(tasks) :
                  /\ task.id = hit.dataset /\ task.left = hit.companion
                  /\ task.right = hit.indexes
                  /\ task.resolution = IF "none" \in {left, hit.resolution} THEN "none"
                                       ELSE Coarser(left, hit.resolution)
  <2>1. PICK k \in D : hits[k] = hit
    BY DEF ToSet, D
  <2>2. PICK i \in D : order[i] = k
    BY <1>1
  <2>3. tasks[i] = Task(profile, hit) /\ tasks[i] \in ToSet(tasks)
    BY <1>2, <2>1, <2>2 DEF ToSet
  <2> DEFINE task == Task(profile, hit)
             left == LeftResolution(profile, hit.companion)
  <2>4. left \in {"none"} \cup Keys /\ hit.resolution \in {"none"} \cup Keys
    BY <1>3, <2>1, KeysAre
  <2>5. task.resolution = JoinResolution(left, hit.resolution)
    BY DEF Task
  <2>6. task.id = hit.dataset /\ task.left = hit.companion /\ task.right = hit.indexes
    BY DEF Task
  <2> HIDE DEF task, left
  <2>7. task.resolution = IF "none" \in {left, hit.resolution} THEN "none"
                          ELSE Coarser(left, hit.resolution)
    BY <2>4, <2>5, ResolutionsAgree
  <2>8. task \in ToSet(tasks)
    BY <2>3 DEF task
  <2> QED BY <2>6, <2>7, <2>8 DEF left
<1> QED BY <1>2, <1>4, <1>5 DEF TasksSound, tasks

-----------------------------------------------------------------------------
(* The inputs of the run.                                                   *)
Searches == {"query", "request", "augmentations", "texts", "results", "score", "areas", "coverage", "tasks", "unions"}
LEMMA OthersAsk ==
  /\ ConvertFile \/ IndexFile \/ DescribeFile \/ OpenSession \/ DownloadFile \/ UploadFile => input'.of \notin Searches
  /\ ResolveAddresses \/ DownloadPages \/ AverageDates \/ MakeYears \/ DiscoverSeries \/ SplitIndicators
       \/ IndicatorSources => input'.of \notin Searches
  /\ JoinKeys \/ JoinDates \/ UnionTables \/ TypeColumn \/ PairColumns => input'.of \notin Searches
  /\ ProcessFiles \/ RangeNumbers \/ RangePoints \/ SplitName \/ TruncateString => input'.of \notin Searches
  /\ NameFiles \/ ExportIndex \/ ResendDatasets => input'.of \notin Searches
<1>1. ASSUME ConvertFile \/ IndexFile \/ DescribeFile \/ OpenSession \/ DownloadFile \/ UploadFile
      PROVE  input'.of \in {"file", "index", "document", "session", "download", "upload"}
  <2>1. ASSUME ConvertFile PROVE input'.of = "file"
    <3>1. PICK raw, guess : input' = [of |-> "file", raw |-> raw, guess |-> guess]
      BY <2>1, ZenonT(20) DEF ConvertFile
    <3> QED BY <3>1
  <2>2. (IndexFile => input'.of = "index") /\ (DescribeFile => input'.of = "document")
    BY DEF IndexFile, DescribeFile
  <2>3. (OpenSession => input'.of = "session") /\ (UploadFile => input'.of = "upload")
    BY DEF OpenSession, UploadFile
  <2>4. ASSUME DownloadFile PROVE input'.of = "download"
    <3>1. PICK index, task, arguments :
            input' = [of |-> "download", index |-> index, task |-> task, arguments |-> arguments]
      BY <2>4, ZenonT(20) DEF DownloadFile
    <3> QED BY <3>1
  <2> QED BY <1>1, <2>1, <2>2, <2>3, <2>4
<1>2. ASSUME ResolveAddresses \/ DownloadPages \/ AverageDates \/ MakeYears \/ DiscoverSeries \/ SplitIndicators
               \/ IndicatorSources
      PROVE  input'.of \in {"addresses", "pages", "averages", "years", "series", "indicators"}
  <2>1. (ResolveAddresses => input'.of = "addresses") /\ (DownloadPages => input'.of = "pages")
    BY DEF ResolveAddresses, DownloadPages
  <2>2. (AverageDates => input'.of = "averages") /\ (MakeYears => input'.of = "years")
    BY DEF AverageDates, MakeYears
  <2>3. (DiscoverSeries => input'.of = "series") /\ (SplitIndicators => input'.of = "indicators")
    BY DEF DiscoverSeries, SplitIndicators
  <2>4. IndicatorSources => input'.of = "indicators"
    BY DEF IndicatorSources
  <2> QED BY <1>2, <2>1, <2>2, <2>3, <2>4
<1>3. ASSUME JoinKeys \/ JoinDates \/ UnionTables \/ TypeColumn \/ PairColumns
      PROVE  input'.of \in {"join", "union", "types", "pairs"}
  <2>1. JoinKeys => input'.of = "join"
    BY DEF JoinKeys, JoinOn
  <2>2. JoinDates => input'.of = "join"
    BY DEF JoinDates, JoinOn
  <2>3. UnionTables => input'.of = "union"
    BY DEF UnionTables
  <2>4. ASSUME TypeColumn PROVE input'.of = "types"
    <3>1. PICK column : input' = [of |-> "types", column |-> column, types |-> IdentifyTypes(column)]
      BY <2>4, ZenonT(20) DEF TypeColumn
    <3> QED BY <3>1
  <2>5. PairColumns => input'.of = "pairs"
    BY DEF PairColumns
  <2> QED BY <1>3, <2>1, <2>2, <2>3, <2>4, <2>5
<1>4. ASSUME ProcessFiles \/ RangeNumbers \/ RangePoints \/ SplitName \/ TruncateString
      PROVE  input'.of \in {"process", "numbers", "points", "name", "string"}
  <2>1. (ProcessFiles => input'.of = "process") /\ (RangeNumbers => input'.of = "numbers")
    BY DEF ProcessFiles, RangeNumbers
  <2>2. (RangePoints => input'.of = "points") /\ (TruncateString => input'.of = "string")
    BY DEF RangePoints, TruncateString
  <2>3. ASSUME SplitName PROVE input'.of = "name"
    <3>1. PICK name : input' = [of |-> "name", name |-> name]
      BY <2>3, ZenonT(20) DEF SplitName
    <3> QED BY <3>1
  <2> QED BY <1>4, <2>1, <2>2, <2>3
<1>5. ASSUME NameFiles \/ ExportIndex \/ ResendDatasets
      PROVE  input'.of \in {"identifier", "export", "resend"}
  <2>1. NameFiles => input'.of = "identifier"
    BY DEF NameFiles
  <2>2. ExportIndex => input'.of = "export"
    BY DEF ExportIndex
  <2>3. ResendDatasets => input'.of = "resend"
    BY DEF ResendDatasets
  <2> QED BY <1>5, <2>1, <2>2, <2>3
<1> DEFINE o == input'.of
<1> HIDE DEF o
<1>6. /\ o \in {"file", "index", "document", "session", "download", "upload"} => o \notin Searches
      /\ o \in {"addresses", "pages", "averages", "years", "series", "indicators"} => o \notin Searches
      /\ o \in {"join", "union", "types", "pairs"} => o \notin Searches
      /\ o \in {"process", "numbers", "points", "name", "string"} => o \notin Searches
      /\ o \in {"identifier", "export", "resend"} => o \notin Searches
  BY DEF Searches
<1> QED BY <1>1, <1>2, <1>3, <1>4, <1>5, <1>6 DEF o

LEMMA SearchesAsk ==
  /\ ParseQueries => input'.of = "query"
  /\ AnswerSearches => input'.of = "request"
  /\ MixResults => input'.of = "results"
  /\ AskAugmentations => input'.of = "augmentations"
  /\ ScoreRanges => input'.of = "score"
  /\ ScoreAreas => input'.of = "areas"
  /\ CoverColumns => input'.of = "coverage"
  /\ MakeTasks => input'.of = "tasks"
  /\ FindUnions => input'.of = "unions"
  /\ FindTexts => input'.of = "texts"
<1>1. ParseQueries => input'.of = "query"
  BY DEF ParseQueries
<1>2. AnswerSearches => input'.of = "request"
  BY DEF AnswerSearches
<1>3. MixResults => input'.of = "results"
  BY DEF MixResults
<1>4. AskAugmentations => input'.of = "augmentations"
  BY DEF AskAugmentations
<1>5. ScoreRanges => input'.of = "score"
  BY DEF ScoreRanges
<1>6. ScoreAreas => input'.of = "areas"
  BY DEF ScoreAreas
<1>7. CoverColumns => input'.of = "coverage"
  BY DEF CoverColumns
<1>8. MakeTasks => input'.of = "tasks"
  BY DEF MakeTasks
<1>9. FindUnions => input'.of = "unions"
  BY DEF FindUnions
<1>10. FindTexts => input'.of = "texts"
  BY DEF FindTexts
<1> QED BY <1>1, <1>2, <1>3, <1>4, <1>5, <1>6, <1>7, <1>8, <1>9, <1>10

LEMMA UpToAre ==
  ASSUME NEW S, NEW n \in Nat, NEW s \in UpTo(S, n)
  PROVE  s \in Seq(S)
<1>1. PICK k \in 0 .. n : s \in [1 .. k -> S]
  BY DEF UpTo
<1>2. k \in Nat
  OBVIOUS
<1> QED BY <1>1, <1>2

LEMMA OneToAre ==
  ASSUME NEW S, NEW n \in Nat, NEW s \in OneTo(S, n)
  PROVE  s \in Seq(S)
<1>1. PICK k \in 1 .. n : s \in [1 .. k -> S]
  BY DEF OneTo
<1>2. k \in Nat
  OBVIOUS
<1> QED BY <1>1, <1>2

LEMMA VariablesAre == ASSUME NEW v \in Variables PROVE IsVariable(v)
<1> DEFINE A == {Absent, Invalid, 0, 2, 5}
           B == {Absent, Invalid, -1, 2, 5}
           C == {Absent, Invalid, Whole, 0, 1}
<1>1. A \subseteq Int /\ B \subseteq Int /\ C \subseteq Int
  BY DEF Absent, Invalid, Whole
<1>2. CASE v \in [type : {"temporal"}, start : A, end : B, granularity : Fields]
  <2> HIDE DEF A, B
  <2>1. v.type = "temporal" /\ v.start \in A /\ v.end \in B
    BY <1>2
  <2> QED BY <1>1, <2>1 DEF IsVariable
<1>3. CASE v \in [type : {"geospatial"}, area : Fields \cup {2, 3}, bounds : [1 .. 4 -> C]]
  <2> HIDE DEF C
  <2>1. v.type = "geospatial" /\ v.bounds \in [1 .. 4 -> C]
    BY <1>3
  <2>2. v.bounds \in [1 .. 4 -> Int]
    BY <1>1, <2>1
  <2> QED BY <2>1, <2>2 DEF IsVariable
<1>4. CASE v \in [type : {"tabular"}, columns : SUBSET {Invalid, 1, 2}]
  <2>1. v.type = "tabular"
    BY <1>4
  <2> QED BY <2>1 DEF IsVariable
<1>5. CASE v \in [type : {"none", "other"}]
  <2>1. v.type \in {"none", "other"}
    BY <1>5
  <2> QED BY <2>1 DEF IsVariable
<1> QED BY <1>2, <1>3, <1>4, <1>5 DEF Variables

LEMMA QueriesAsked ==
  ASSUME ParseQueries
  PROVE  input'.query.variables \in Seq({v \in ToSet(input'.query.variables) : IsVariable(v)})
<1>1. PICK v \in Variables, query \in Queries({<<v>> : v \in Variables}) :
        input' = [of |-> "query", query |-> query] /\ query.variables = <<v>>
  <2>1. PICK query \in Queries({<<v>> : v \in Variables}) : input' = [of |-> "query", query |-> query]
    BY ZenonT(20) DEF ParseQueries
  <2>2. query.variables \in {<<v>> : v \in Variables}
    BY DEF Queries
  <2>3. PICK v \in Variables : query.variables = <<v>>
    BY <2>2
  <2> QED BY <2>1, <2>3
<1> DEFINE vs == <<v>>
           V == {w \in ToSet(vs) : IsVariable(w)}
<1>2. input'.query.variables = vs
  BY <1>1
<1>3. v \in V
  <2>1. DOMAIN vs = 1 .. 1 /\ vs[1] = v
    OBVIOUS
  <2>2. v \in ToSet(vs)
    <3>1. 1 \in DOMAIN vs
      BY <2>1
    <3> HIDE DEF vs
    <3> QED BY <2>1, <3>1 DEF ToSet
  <2> QED BY <2>2, VariablesAre
<1>4. vs \in Seq(V)
  <2> HIDE DEF V
  <2> QED BY <1>3
<1> HIDE DEF vs
<1> QED BY <1>2, <1>4

LEMMA TwoAreFinite ==
  ASSUME NEW x, NEW y
  PROVE  IsFiniteSet({x, y})
<1>1. IsFiniteSet({x})
  BY FS_Singleton
<1>2. IsFiniteSet({x} \cup {y})
  BY <1>1, FS_AddElement
<1>3. {x, y} = {x} \cup {y}
  OBVIOUS
<1> QED BY <1>2, <1>3

LEMMA DatasetsAreFew ==
  IsFiniteSet(ManyDatasets)
<1> DEFINE S == BOOLEAN \X {1, 2, 20}
           f == [p \in S |-> [keywords |-> p[1], source |-> TRUE, types |-> TRUE, variables |-> TRUE,
                              part |-> p[2]]]
<1>1. IsFiniteSet({1, 2, 20})
  <2>1. IsFiniteSet({1, 2} \cup {20})
    BY TwoAreFinite, FS_AddElement
  <2>2. {1, 2, 20} = {1, 2} \cup {20}
    OBVIOUS
  <2> QED BY <2>1, <2>2
<1>2. IsFiniteSet(BOOLEAN)
  <2>1. BOOLEAN = {TRUE} \cup {FALSE}
    OBVIOUS
  <2>2. IsFiniteSet({TRUE}) /\ IsFiniteSet({FALSE})
    BY FS_Singleton
  <2> QED BY <2>1, <2>2, FS_Union
<1>3. IsFiniteSet(S)
  BY <1>1, <1>2, FS_Product
<1>4. \A d \in ManyDatasets : \E p \in S : f[p] = d
  <2> SUFFICES ASSUME NEW d \in ManyDatasets PROVE \E p \in S : f[p] = d
    OBVIOUS
  <2>1. /\ d.keywords \in BOOLEAN /\ d.part \in {1, 2, 20}
        /\ d = [keywords |-> d.keywords, source |-> TRUE, types |-> TRUE, variables |-> TRUE,
                part |-> d.part]
    BY DEF ManyDatasets
  <2> DEFINE p == <<d.keywords, d.part>>
  <2>2. p \in S /\ f[p] = d
    BY <2>1
  <2> QED BY <2>2
<1>5. \A p \in S : f[p] \in ManyDatasets
  BY DEF ManyDatasets
<1>6. f \in Surjection(S, ManyDatasets)
  <2>1. f = [p \in S |-> f[p]]
    OBVIOUS
  <2> HIDE DEF f, S
  <2>2. f \in [S -> ManyDatasets]
    BY <1>5, <2>1
  <2> QED BY <1>4, <2>2 DEF Surjection
<1> HIDE DEF f, S
<1> QED BY <1>3, <1>6, FS_Surjection

LEMMA AugmentationsAsked ==
  ASSUME AskAugmentations
  PROVE  input'.datasets \in SUBSET SomeMatches /\ IsFiniteSet(input'.datasets)
<1>1. PICK query \in AskedQueries, datasets \in AskedDatasets, wanted \in SUBSET {"join", "union"} :
        input' = [of |-> "augmentations", query |-> query, datasets |-> datasets, wanted |-> wanted]
  BY DEF AskAugmentations
<1>2. input'.datasets = datasets
  BY <1>1
<1>3. SomeDatasets \subseteq SomeMatches /\ ManyDatasets \subseteq SomeMatches
  <2>1. ASSUME NEW d \in SomeDatasets \cup ManyDatasets PROVE d \in SomeMatches
    <3>1. /\ d = [keywords |-> d.keywords, source |-> d.source, types |-> d.types, variables |-> d.variables,
                  part |-> d.part]
          /\ d.keywords \in BOOLEAN /\ d.source \in BOOLEAN /\ d.types \in BOOLEAN /\ d.variables \in BOOLEAN
          /\ d.part \in Nat
      <4>1. CASE d \in SomeDatasets
        BY <4>1 DEF SomeDatasets
      <4>2. CASE d \in ManyDatasets
        <5>1. /\ d = [keywords |-> d.keywords, source |-> d.source, types |-> d.types,
                      variables |-> d.variables, part |-> d.part]
              /\ d.keywords \in BOOLEAN
              /\ d.source \in {TRUE} /\ d.types \in {TRUE} /\ d.variables \in {TRUE} /\ d.part \in {1, 2, 20}
          BY <4>2, Zenon DEF ManyDatasets
        <5>2. TRUE \in BOOLEAN /\ {1, 2, 20} \subseteq Nat
          OBVIOUS
        <5>3. d.source = TRUE /\ d.types = TRUE /\ d.variables = TRUE
          BY <5>1, Zenon
        <5>4. d.part \in Nat
          BY <5>1
        <5> QED BY <5>1, <5>2, <5>3, <5>4, Zenon
      <4> QED BY <4>1, <4>2
    <3> DEFINE k == d.keywords
               s == d.source
               t == d.types
               v == d.variables
               part == d.part
    <3>2. d = [keywords |-> k, source |-> s, types |-> t, variables |-> v, part |-> part]
      BY <3>1
    <3>3. k \in BOOLEAN /\ s \in BOOLEAN /\ t \in BOOLEAN /\ v \in BOOLEAN /\ part \in Nat
      BY <3>1
    <3> HIDE DEF k, s, t, v, part
    <3> QED BY <3>2, <3>3, Zenon DEF SomeMatches
  <2> QED BY <2>1
<1>4. CASE datasets \in {{d, e} : d, e \in SomeDatasets}
  <2>1. PICK d \in SomeDatasets, e \in SomeDatasets : datasets = {d, e}
    BY <1>4
  <2>2. IsFiniteSet({d, e})
    BY TwoAreFinite
  <2> QED BY <1>2, <1>3, <2>1, <2>2
<1>5. CASE datasets \in UNION {kSubset(k, ManyDatasets) : k \in 3 .. 5}
  <2>1. datasets \in SUBSET ManyDatasets
    BY <1>5 DEF kSubset
  <2>2. IsFiniteSet(datasets)
    BY <2>1, DatasetsAreFew, FS_Subset
  <2> QED BY <1>2, <1>3, <2>1, <2>2
<1> QED BY <1>4, <1>5 DEF AskedDatasets

LEMMA TextsAsked ==
  ASSUME FindTexts
  PROVE  /\ \A d \in DOMAIN input'.names : input'.names[d] \in Seq({"a", "b"})
         /\ input'.results \in Seq([dataset : {"d", "e"}, name : {"a", "b"}, score : Nat])
<1> DEFINE D == {"d", "e"}
           N == {"a", "b"}
           R == [dataset : D, name : N, score : {2, 30}]
           T == [dataset : D, name : N, score : Nat]
           F == [{"d"} -> UpTo(N, 3)] \cup [{"d", "e"} -> UpTo(N, 2)]
<1>1. PICK matching, passing : \E results \in UpTo(R, 2), names \in F :
        input' = [of |-> "texts", results |-> results, names |-> names, matching |-> matching,
                  passing |-> passing]
  BY ZenonT(20) DEF FindTexts
<1> HIDE DEF R, T, F, N, D
<1>2. PICK results \in UpTo(R, 2), names \in F :
        input' = [of |-> "texts", results |-> results, names |-> names, matching |-> matching,
                  passing |-> passing]
  BY <1>1
<1>3. input'.results = results /\ input'.names = names
  BY <1>2
<1>4. results \in Seq(T)
  <2>1. results \in Seq(R)
    BY UpToAre
  <2>2. R \subseteq T
    BY DEF R, T
  <2> QED BY <2>1, <2>2
<1>5. \A d \in DOMAIN names : names[d] \in Seq(N)
  <2>1. \A d \in DOMAIN names : names[d] \in UpTo(N, 3) \/ names[d] \in UpTo(N, 2)
    BY DEF F
  <2>2. \A s \in UpTo(N, 3) : s \in Seq(N)
    BY UpToAre
  <2>3. \A s \in UpTo(N, 2) : s \in Seq(N)
    BY UpToAre
  <2> QED BY <2>1, <2>2, <2>3
<1> QED BY <1>3, <1>4, <1>5 DEF T, N, D

LEMMA ResultsAsked ==
  ASSUME MixResults
  PROVE  /\ input'.joins \in Seq(Nat) /\ input'.unions \in Seq(Nat)
         /\ ToSet(input'.joins) \cap ToSet(input'.unions) = {}
<1>1. PICK j \in 0 .. 6, u \in 0 .. 6 :
        input' = [of |-> "results", joins |-> [i \in 1 .. j |-> i], unions |-> [i \in 1 .. u |-> 10 + i]]
  BY ZenonT(20) DEF MixResults
<1> DEFINE joins == [i \in 1 .. j |-> i]
           unions == [i \in 1 .. u |-> 10 + i]
<1>2. input'.joins = joins /\ input'.unions = unions
  BY <1>1
<1>3. j \in Nat /\ u \in Nat
  OBVIOUS
<1>4. joins \in Seq(Nat) /\ unions \in Seq(Nat)
  <2>1. joins \in [1 .. j -> Nat] /\ unions \in [1 .. u -> Nat]
    BY <1>3
  <2> HIDE DEF joins, unions
  <2> QED BY <1>3, <2>1
<1>5. ToSet(joins) \cap ToSet(unions) = {}
  <2>1. \A a \in 1 .. j, b \in 1 .. u : joins[a] # unions[b]
    OBVIOUS
  <2>2. DOMAIN joins = 1 .. j /\ DOMAIN unions = 1 .. u
    OBVIOUS
  <2> HIDE DEF joins, unions
  <2> QED BY <2>1, <2>2 DEF ToSet
<1> HIDE DEF joins, unions
<1> QED BY <1>2, <1>4, <1>5

LEMMA IntervalsAre ==
  ASSUME NEW l \in RangeLists
  PROVE  l \in ListsOfRanges /\ RangesApart(l)
<1>1. l \in OneTo(Intervals, 2) /\ \A i, j \in DOMAIN l : i < j => l[i][2] < l[j][1]
  BY DEF RangeLists
<1>2. l \in Seq(Intervals)
  BY <1>1, OneToAre
<1>3. \A r \in Intervals : r \in Int \X Int /\ r[1] <= r[2]
  BY DEF Intervals
<1>4. DOMAIN l = 1 .. Len(l) /\ Len(l) \in Nat /\ \A i \in DOMAIN l : l[i] \in Intervals
  BY <1>2
<1>5. l \in Seq(Int \X Int)
  BY <1>2, <1>3
<1>6. \A i \in DOMAIN l : l[i][1] \in Int /\ l[i][2] \in Int /\ l[i][1] <= l[i][2]
  BY <1>3, <1>4
<1>7. \A i, j \in DOMAIN l : i # j => l[i][2] < l[j][1] \/ l[j][2] < l[i][1]
  <2>1. \A i, j \in DOMAIN l : i # j => i < j \/ j < i
    BY <1>4
  <2> QED BY <1>1, <2>1
<1> QED BY <1>5, <1>6, <1>7 DEF ListsOfRanges, RangesApart

LEMMA RangesAsked ==
  ASSUME ScoreRanges
  PROVE  /\ input'.ranges \in ListsOfRanges /\ RangesApart(input'.ranges)
         /\ input'.document \in ListsOfRanges /\ RangesApart(input'.document)
<1>1. PICK ranges \in RangeLists, document \in RangeLists :
        input' = [of |-> "score", ranges |-> ranges, document |-> document]
  BY DEF ScoreRanges
<1>2. input'.ranges = ranges /\ input'.document = document
  BY <1>1
<1> QED BY <1>2, IntervalsAre

LEMMA EnvelopesAre ==
  ASSUME NEW e \in Envelopes
  PROVE  e \in AllEnvelopes
<1> DEFINE S == {r \in (0 .. 2) \X (0 .. 2) : r[1] < r[2]}
<1>1. PICK x \in S, y \in S : e = Envelope(x[1], x[2], y[1], y[2])
  BY DEF Envelopes
<1>2. x[1] \in Int /\ x[2] \in Int /\ y[1] \in Int /\ y[2] \in Int /\ x[1] < x[2] /\ y[1] < y[2]
  OBVIOUS
<1>3. e = <<<<x[1], y[2]>>, <<x[2], y[1]>>>>
  BY <1>1 DEF Envelope
<1>4. Across(e) = <<x[1], x[2]>> /\ Down(e) = <<y[1], y[2]>>
  BY <1>3 DEF Across, Down
<1>5. e \in (Int \X Int) \X (Int \X Int)
  BY <1>2, <1>3
<1>6. Across(e)[1] <= Across(e)[2] /\ Down(e)[1] <= Down(e)[2]
  BY <1>2, <1>4
<1> QED BY <1>5, <1>6 DEF AllEnvelopes

LEMMA EnvelopesAsked ==
  ASSUME ScoreAreas
  PROVE  input'.ranges \in Seq(AllEnvelopes) /\ input'.document \in Seq(AllEnvelopes)
<1>1. PICK ranges \in OneTo(Envelopes, 2), document \in OneTo(Envelopes, 2) :
        input' = [of |-> "areas", ranges |-> ranges, document |-> document]
  BY DEF ScoreAreas
<1>2. input'.ranges = ranges /\ input'.document = document
  BY <1>1
<1>3. ranges \in Seq(Envelopes) /\ document \in Seq(Envelopes)
  BY OneToAre
<1>4. Envelopes \subseteq AllEnvelopes
  BY EnvelopesAre
<1> QED BY <1>2, <1>3, <1>4

LEMMA TasksAsked ==
  ASSUME MakeTasks
  PROVE  \E H : /\ input'.hits \in Seq(H)
                /\ \A h \in H : /\ h.score \in Int
                                /\ h.resolution \in {"none"} \cup ToSet(Resolutions)
                                /\ LeftResolution(input'.profile, h.companion) \in {"none"} \cup ToSet(Resolutions)
<1> DEFINE H == [companion : {<<1>>, <<1, 2>>}, score : 1 .. 2, dataset : {"x", "y"}, indexes : {<<1>>},
                 resolution : ResolutionNames]
           Profile(resolution) == [columns |-> <<[resolution |-> resolution], [resolution |-> "none"]>>,
                                   spatial |-> <<>>]
<1>1. PICK resolution \in ResolutionNames, hits \in UpTo(H, 2) :
        input' = [of |-> "tasks", hits |-> hits, profile |-> Profile(resolution)]
  BY DEF MakeTasks
<1>2. input'.hits = hits /\ input'.profile = Profile(resolution)
  BY <1>1
<1>3. hits \in Seq(H)
  <2> HIDE DEF H
  <2> QED BY UpToAre
<1>4. Profile(resolution).columns[1].resolution = resolution
  OBVIOUS
<1> HIDE DEF Profile
<1>5. ASSUME NEW h \in H
      PROVE  /\ h.score \in Int
             /\ h.resolution \in {"none"} \cup ToSet(Resolutions)
             /\ LeftResolution(Profile(resolution), h.companion) \in {"none"} \cup ToSet(Resolutions)
  <2>1. h.companion \in {<<1>>, <<1, 2>>} /\ h.score \in 1 .. 2 /\ h.resolution \in ResolutionNames
    OBVIOUS
  <2>2. ResolutionNames = {"none"} \cup ToSet(Resolutions)
    BY DEF ResolutionNames
  <2>3. CASE h.companion = <<1>>
    <3>1. h.companion[1] = 1 /\ Len(h.companion) = 1
      BY <2>3
    <3>2. LeftResolution(Profile(resolution), h.companion) = resolution
      BY <1>4, <3>1 DEF LeftResolution
    <3> QED BY <2>1, <2>2, <3>2
  <2>4. CASE h.companion = <<1, 2>>
    <3>1. Len(h.companion) = 2
      BY <2>4
    <3>2. LeftResolution(Profile(resolution), h.companion) = "none"
      BY <3>1 DEF LeftResolution
    <3> QED BY <2>1, <2>2, <3>2
  <2> QED BY <2>1, <2>3, <2>4
<1> HIDE DEF H
<1> QED BY <1>2, <1>3, <1>5

LEMMA ThreeListed ==
  ASSUME NEW S, NEW x \in S, NEW y \in S, NEW z \in S
  PROVE  <<x, y, z>> \in Seq(S)
OBVIOUS

LEMMA TypedAre ==
  ASSUME NEW S, NEW names \in Seq(S), NEW columns \in Typed(names), NEW T,
         "text" \in T, "categorical" \in T, "datetime" \in T
  PROVE  columns \in Seq(ColumnsWith(S, T))
<1> DEFINE D == DOMAIN names
           X == {<<>>, <<"categorical", "datetime">>}
           C == ColumnsWith(S, T)
<1>1. PICK types \in [D -> X] :
        columns = [i \in D |-> [name |-> names[i], structural |-> "text", semantic |-> types[i]]]
  BY DEF Typed
<1>2. X \subseteq Seq(T)
  OBVIOUS
<1>3. D = 1 .. Len(names) /\ Len(names) \in Nat /\ \A i \in D : names[i] \in S
  OBVIOUS
<1> HIDE DEF X, D
<1>4. columns \in [D -> C]
  BY <1>1, <1>2, <1>3 DEF ColumnsWith
<1> HIDE DEF C
<1>5. columns \in Seq(C)
  BY <1>3, <1>4
<1> QED BY <1>5 DEF C

LEMMA UnionsAsked ==
  ASSUME FindUnions
  PROVE  \E N, M, T : /\ input'.columns \in Seq(ColumnsWith(N \cup {"d3mIndex"}, T))
                      /\ input'.other \in Seq(ColumnsWith(M, T))
                      /\ AreSimilar(input'.similarity, N, M)
                      /\ input'.relevance \in [Entries(N, T) -> Nat]
<1> DEFINE N == {"a", "b"}
           M == {"c", "d"}
           T == {"text", "categorical", "datetime"}
           I == N \cup {"d3mIndex"}
           lists == {<<"b", "d3mIndex", "a">>, <<"a", "a", "b">>}
           others == {<<"c", "d">>, <<"c", "d", "c">>}
           L == UNION {Typed(names) : names \in lists}
           O == UNION {Typed(names) : names \in others}
           F == [N \X M -> 0 .. Same]
           R == {[e \in UnionEntries |-> 1], [e \in UnionEntries |-> IF e.name = "a" THEN 3 ELSE 2]}
<1>1. PICK columns \in L, other \in O, similarity \in F, filter \in {{}, {1, 3}}, relevance \in R :
        input' = [of |-> "unions", columns |-> columns, other |-> other,
                  similarity |-> similarity, filter |-> filter, relevance |-> relevance]
  BY DEF FindUnions
<1>2. /\ input'.columns = columns /\ input'.other = other /\ input'.similarity = similarity
      /\ input'.relevance = relevance
  BY <1>1
<1>9. relevance \in [Entries(N, T) -> Nat]
  <2>1. UnionEntries = Entries(N, T)
    BY DEF UnionEntries, Entries
  <2>2. relevance \in [UnionEntries -> Nat]
    OBVIOUS
  <2> QED BY <2>1, <2>2
<1> HIDE DEF R
<1>3. \A names \in lists : names \in Seq(I)
  <2>1. "a" \in I /\ "b" \in I /\ "d3mIndex" \in I
    OBVIOUS
  <2> HIDE DEF I
  <2>2. \A x, y, z \in I : <<x, y, z>> \in Seq(I)
    BY ThreeListed
  <2>3. <<"b", "d3mIndex", "a">> \in Seq(I) /\ <<"a", "a", "b">> \in Seq(I)
    BY <2>1, <2>2
  <2> QED BY <2>3
<1>4. \A names \in others : names \in Seq(M)
  <2>1. "c" \in M /\ "d" \in M
    OBVIOUS
  <2> HIDE DEF M
  <2>2. <<"c", "d">> \in Seq(M)
    BY <2>1
  <2>3. \A x, y, z \in M : <<x, y, z>> \in Seq(M)
    BY ThreeListed
  <2>4. <<"c", "d", "c">> \in Seq(M)
    BY <2>1, <2>3
  <2> QED BY <2>2, <2>4
<1>5. "text" \in T /\ "categorical" \in T /\ "datetime" \in T
  OBVIOUS
<1> HIDE DEF T, I
<1>6. columns \in Seq(ColumnsWith(I, T))
  <2>1. PICK names \in lists : columns \in Typed(names)
    OBVIOUS
  <2>2. names \in Seq(I)
    BY <1>3
  <2> HIDE DEF lists
  <2> QED BY <1>5, <2>1, <2>2, TypedAre
<1> HIDE DEF M
<1>7. other \in Seq(ColumnsWith(M, T))
  <2>1. PICK names \in others : other \in Typed(names)
    OBVIOUS
  <2>2. names \in Seq(M)
    BY <1>4
  <2> HIDE DEF others
  <2> QED BY <1>5, <2>1, <2>2, TypedAre
<1>8. AreSimilar(similarity, N, M)
  BY DEF AreSimilar
<1> HIDE DEF N
<1> QED BY <1>2, <1>6, <1>7, <1>8, <1>9 DEF I

(* What a search is asked, finds and makes of it is as it should be, for    *)
(* the inputs of the run and the theorems above.                            *)
THEOREM SearchesAreSound == Spec => []SearchesSound
<1>1. Init => SearchesSound
  BY DEF Init, None, SearchesSound
<1>2. SearchesSound /\ [Next]_<<family, input>> => SearchesSound'
  <2>0. ASSUME Next, input'.of \in Searches
        PROVE  \/ ParseQueries \/ AnswerSearches \/ MixResults \/ AskAugmentations \/ ScoreRanges
               \/ ScoreAreas \/ CoverColumns \/ MakeTasks \/ FindUnions \/ FindTexts
    BY <2>0, OthersAsk DEF Next
  <2> DEFINE o == input'.of
  <2>1. ASSUME Next, o = "query" PROVE FiltersSound(input'.query, KnownAreas)
    <3>1. o \in Searches
      BY <2>1 DEF Searches
    <3>2. ParseQueries
      BY <2>0, <2>1, <3>1, SearchesAsk
    <3> QED BY <3>2, QueriesAsked, QueriesAreRead
  <2>2. ASSUME Next, o = "request" PROVE AnswersSound(input', KnownAreas)
    BY RequestsAreAnswered
  <2>3. ASSUME Next, o = "augmentations"
        PROVE  AugmentationsPass(input'.query, KnownAreas, input'.datasets, input'.wanted)
    <3>1. o \in Searches
      BY <2>3 DEF Searches
    <3>2. AskAugmentations
      BY <2>0, <2>3, <3>1, SearchesAsk
    <3> QED BY <3>2, AugmentationsAsked, FiltersAreApplied
  <2>4. ASSUME Next, o = "texts"
        PROVE  TextualSound(input'.results, input'.names, input'.matching, input'.passing)
    <3>1. o \in Searches
      BY <2>4 DEF Searches
    <3>2. FindTexts
      BY <2>0, <2>4, <3>1, SearchesAsk
    <3> QED BY <3>2, TextsAsked, TextsAreSound
  <2>5. ASSUME Next, o = "results" PROVE MixedFairly(input'.joins, input'.unions)
    <3>1. o \in Searches
      BY <2>5 DEF Searches
    <3>2. MixResults
      BY <2>0, <2>5, <3>1, SearchesAsk
    <3> QED BY <3>2, ResultsAsked, ResultsAreMixed
  <2>6. ASSUME Next, o = "score" PROVE ScoresSound(input'.ranges, input'.document)
    <3>1. o \in Searches
      BY <2>6 DEF Searches
    <3>2. ScoreRanges
      BY <2>0, <2>6, <3>1, SearchesAsk
    <3> QED BY <3>2, RangesAsked, ScoresAreParts
  <2>7. ASSUME Next, o = "areas" PROVE AreaScoresSound(input'.ranges, input'.document)
    <3>1. o \in Searches
      BY <2>7 DEF Searches
    <3>2. ScoreAreas
      BY <2>0, <2>7, <3>1, SearchesAsk
    <3> QED BY <3>2, EnvelopesAsked, AreaScoresAreParts
  <2>8. ASSUME Next, o = "coverage" PROVE CoverageSound(input'.profile, input'.filter)
    BY CoverageIsSound
  <2>9. ASSUME Next, o = "tasks" PROVE TasksSound(input'.profile, input'.hits)
    <3>1. o \in Searches
      BY <2>9 DEF Searches
    <3>2. MakeTasks
      BY <2>0, <2>9, <3>1, SearchesAsk
    <3> QED BY <3>2, TasksAsked, TasksAreSound
  <2>10. ASSUME Next, o = "unions"
         PROVE  UnionSound(input'.columns, input'.filter, input'.other, input'.similarity, input'.relevance)
    <3>1. o \in Searches
      BY <2>10 DEF Searches
    <3>2. FindUnions
      BY <2>0, <2>10, <3>1, SearchesAsk
    <3> QED BY <3>2, UnionsAsked, UnionsAreSound
  <2>11. ASSUME UNCHANGED <<family, input>>, SearchesSound PROVE SearchesSound'
    BY <2>11 DEF SearchesSound
  <2> QED BY <2>1, <2>2, <2>3, <2>4, <2>5, <2>6, <2>7, <2>8, <2>9, <2>10, <2>11, Zenon DEF SearchesSound
<1> QED BY <1>1, <1>2, PTL DEF Spec
=============================================================================
