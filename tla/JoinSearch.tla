----------------------------- MODULE JoinSearch -----------------------------
(***************************************************************************)
(* The search for joins (apiserver/apiserver/search/join.py): which        *)
(* columns of the data are looked for, how Elasticsearch scores the        *)
(* documents of the two supplementary indices, and the tasks that the      *)
(* results become.                                                         *)
(*                                                                         *)
(* A column of a profile is [name, structural, semantic, ranges, lazo,     *)
(* resolution], where no ranges mean that there is no coverage; `spatial`  *)
(* gives sequences of column positions their envelopes.                    *)
(***************************************************************************)
EXTENDS Augmentation, Functions, SearchQuery

InFilter(indexes, filter) == filter = {} \/ ToSet(indexes) \subseteq filter

-----------------------------------------------------------------------------
(* get_column_coverage(): identifiers, integers and dates.                  *)
CoverageType(column) ==
  CASE "id" \in column.semantic -> "id"
    [] column.structural = "integer" /\ "id" \notin column.semantic -> "integer"
    [] /\ "datetime" \in column.semantic
       /\ column.structural # "integer" /\ "id" \notin column.semantic -> "datetime"
    [] OTHER -> "none"
NumericalCoverage(profile, filter) ==
  {indexes \in {<<i>> : i \in DOMAIN profile.columns} :
     LET column == profile.columns[indexes[1]]
     IN /\ column.ranges # <<>>
        /\ InFilter(indexes, filter)
        /\ column.name # "d3mIndex"
        /\ CoverageType(column) # "none"}
SpatialCoverage(profile, filter) ==
  {indexes \in DOMAIN profile.spatial : InFilter(indexes, filter)}
(* Envelopes of a column replace its ranges.                                *)
ColumnCoverage(profile, filter) ==
  [indexes \in NumericalCoverage(profile, filter) \cup SpatialCoverage(profile, filter) |->
     IF indexes \in DOMAIN profile.spatial
     THEN [type |-> "spatial", ranges |-> profile.spatial[indexes]]
     ELSE [type |-> CoverageType(profile.columns[indexes[1]]),
           ranges |-> profile.columns[indexes[1]].ranges]]

(* get_lazo_sketches().                                                     *)
LazoSketches(profile, filter) ==
  {indexes \in {<<i>> : i \in DOMAIN profile.columns} :
     profile.columns[indexes[1]].lazo /\ InFilter(indexes, filter)}

-----------------------------------------------------------------------------
(* How Elasticsearch runs the queries: a score is a sum over the ranges     *)
(* asked for and the ranges of a document that intersect, divided by the    *)
(* coverage of the ranges asked for (which is left out here), and           *)
(* multiplied by the weight of the keywords if the document matches them.   *)
Size(range) == range[2] - range[1] + 1
Overlap(a, b) == <<Max({a[1], b[1]}), Min({a[2], b[2]})>>
SumOver(S, op(_)) == MapThenSumSet(op, S)
(* get_numerical_join_search_results().                                     *)
Covered(ranges, document) ==
  SumOver({p \in (DOMAIN ranges) \X (DOMAIN document) :
           LET o == Overlap(ranges[p[1]], document[p[2]]) IN o[1] <= o[2]},
        LAMBDA p : Size(Overlap(ranges[p[1]], document[p[2]])))
NumericalScore(ranges, document, matches) == Weight(matches) * Covered(ranges, document)
NumericalTotal(ranges) == SumOver(DOMAIN ranges, LAMBDA i : Size(ranges[i]))

(* get_spatial_join_search_results().  The corners of an envelope are those *)
(* of the North-West and the South-East.                                    *)
Across(e) == <<e[1][1], e[2][1]>>
Down(e) == <<e[2][2], e[1][2]>>
AreaOf(x, y) == (x[2] - x[1]) * (y[2] - y[1])
AreaCovered(ranges, document) ==
  SumOver({p \in (DOMAIN ranges) \X (DOMAIN document) :
           LET x == Overlap(Across(ranges[p[1]]), Across(document[p[2]]))
               y == Overlap(Down(ranges[p[1]]), Down(document[p[2]]))
           IN x[1] <= x[2] /\ y[1] <= y[2]},
        LAMBDA p : AreaOf(Overlap(Across(ranges[p[1]]), Across(document[p[2]])),
                          Overlap(Down(ranges[p[1]]), Down(document[p[2]]))))
SpatialScore(ranges, document, matches) == Weight(matches) * AreaCovered(ranges, document)
SpatialTotal(ranges) ==
  SumOver(DOMAIN ranges, LAMBDA i : AreaOf(Across(ranges[i]), Down(ranges[i])))

-----------------------------------------------------------------------------
(* get_joinable_datasets(): a hit is [companion, score, dataset, indexes,   *)
(* resolution], of a column document or of a coverage document.             *)

JoinResolution(left, right) ==
  LET priority(r) == SelectInSeq(Reverse(Resolutions), LAMBDA x : x = r)
  IN IF "none" \in {left, right} THEN "none"
     ELSE IF priority(left) > priority(right) THEN left ELSE right

LeftResolution(profile, companion) ==
  IF Len(companion) = 1 THEN profile.columns[companion[1]].resolution ELSE "none"
Task(profile, hit) ==
  [id |-> hit.dataset, score |-> hit.score,
   left |-> hit.companion, right |-> hit.indexes,
   resolution |-> JoinResolution(LeftResolution(profile, hit.companion), hit.resolution)]
Better(hits, i, j) ==
  hits[i].score > hits[j].score \/ (hits[i].score = hits[j].score /\ i < j)
ByScore(hits) ==                     \* a stable sort
  CHOOSE order \in [DOMAIN hits -> DOMAIN hits] :
    \A i, j \in DOMAIN hits : i < j => Better(hits, order[i], order[j])

(* get_textual_join_search_results(): Lazo's results are [dataset, name,    *)
(* score], and `names` gives the names of the columns of each dataset that  *)
(* is indexed.  Without keywords and filters, the position of the column is *)
(* looked up by its name, -1 if there is none.  With them, Elasticsearch    *)
(* looks among the columns of the datasets that pass the filters, and       *)
(* multiplies the score by the weight of the keywords for those that match. *)
PositionsOf(names, r) == {i \in DOMAIN names[r.dataset] : names[r.dataset][i] = r.name}
TextualByName(results, names) ==
  {[dataset |-> r.dataset, score |-> r.score,
    index |-> IF PositionsOf(names, r) = {} THEN -1 ELSE Max(PositionsOf(names, r))] :
     r \in ToSet(results)}
TextualHits(results, names, matching, passing) ==
  UNION {{[dataset |-> r.dataset, index |-> i,
           score |-> Weight(<<r.dataset, r.name>> \in matching) * r.score] :
            i \in PositionsOf(names, r)} :
           r \in {x \in ToSet(results) : x.dataset \in DOMAIN names /\ x.dataset \in passing}}
TextualByQuery(results, names, matching, passing) ==
  Returned(TextualHits(results, names, matching, passing))

(* es.get() of a dataset that only the supplementary indices have raises.   *)
SearchRaises(hits, indexed) == \E k \in DOMAIN hits : hits[k].dataset \notin indexed
Tasks(profile, hits) ==
  [k \in DOMAIN hits |-> Task(profile, hits[ByScore(hits)[k]])]

-----------------------------------------------------------------------------
(* A score is at most the weight of the keywords, times the part of the     *)
(* ranges asked for that the document covers, and the document of the data  *)
(* itself has the highest: for whole numbers, whose ranges are apart.       *)
ScoresSound(ranges, document) ==
  \A matches \in BOOLEAN :
    /\ NumericalScore(ranges, document, matches) \in 0..(Weight(matches) * NumericalTotal(ranges))
    /\ NumericalScore(ranges, ranges, matches) = Weight(matches) * NumericalTotal(ranges)

(* Areas may overlap, and what is in several of them counts several times:  *)
(* a document cannot score more than each of its areas could, and only when *)
(* these are apart no more than the data itself.                            *)
AreasApart(l) ==
  \A i, j \in DOMAIN l : i # j =>
    \/ Across(l[i])[2] <= Across(l[j])[1] \/ Across(l[j])[2] <= Across(l[i])[1]
    \/ Down(l[i])[2] <= Down(l[j])[1] \/ Down(l[j])[2] <= Down(l[i])[1]
AreaScoresSound(ranges, document) ==
  \A matches \in BOOLEAN :
    LET score(d) == SpatialScore(ranges, d, matches)
        all == Weight(matches) * SpatialTotal(ranges)
    IN /\ score(document) \in 0..(Len(document) * all)
       /\ score(ranges) >= all
       /\ AreasApart(document) => score(document) <= all
       /\ AreasApart(ranges) => score(ranges) = all

(* A column is looked for in one way, and only those in the filter are;     *)
(* the row index of D3M is not matched as a number.                         *)
CoverageSound(profile, filter) ==
  LET coverage == ColumnCoverage(profile, filter)
  IN /\ \A indexes \in DOMAIN coverage \cup LazoSketches(profile, filter) :
          filter # {} => ToSet(indexes) \subseteq filter
     /\ \A indexes \in DOMAIN coverage :
          /\ coverage[indexes].type # "spatial" => Len(indexes) = 1
          /\ \A i \in ToSet(indexes) : profile.columns[i].name = "d3mIndex"
               => coverage[indexes].type = "spatial"

(* Keywords change the order of the results, and with filters only columns  *)
(* that pass them are results: those that are found without a query, where  *)
(* the sketches of Lazo are of columns that are indexed and that no other   *)
(* has the name of, unless TopK others are at least as good.                *)
TextualSound(results, names, matching, passing) ==
  LET indexed == \A r \in ToSet(results) : r.dataset \in DOMAIN names
      score(r) == Weight(<<r.dataset, r.name>> \in matching) * r.score
      isAmong(r, i, hits) == \E h \in hits : h.dataset = r.dataset /\ h.index = i
  IN \A hits \in TextualByQuery(results, names, matching, passing) :
       /\ \A h \in hits : /\ h.dataset \in passing
                         /\ \E r \in ToSet(results) : r.dataset = h.dataset /\ h.index \in PositionsOf(names, r)
       /\ indexed =>
            \A r \in ToSet(results), n \in TextualByName(results, names) :
              r.dataset \in passing /\ n.dataset = r.dataset /\ n.index \in PositionsOf(names, r) =>
                \/ isAmong(r, n.index, hits)
                \/ Cardinality(hits) = TopK /\ \A h \in hits : h.score >= score(r)

(* The task of a result has the resolution that the augmentation library    *)
(* would choose (match_column_temporal_resolutions()), and results are in   *)
(* the order of their scores.                                               *)
TasksSound(profile, hits) ==
  LET tasks == Tasks(profile, hits)
  IN /\ \A j, k \in DOMAIN tasks : j < k => tasks[j].score >= tasks[k].score
     /\ \A hit \in ToSet(hits) :
          LET left == LeftResolution(profile, hit.companion)
          IN \E task \in ToSet(tasks) :
               /\ task.id = hit.dataset /\ task.left = hit.companion
               /\ task.right = hit.indexes
               /\ task.resolution = IF "none" \in {left, hit.resolution} THEN "none"
                                    ELSE Coarser(left, hit.resolution)
=============================================================================
