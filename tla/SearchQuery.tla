----------------------------- MODULE SearchQuery -----------------------------
(***************************************************************************)
(* The /search endpoint (apiserver/apiserver/search/__init__.py): what a   *)
(* request is answered, how the variables of a query become filters, and   *)
(* how the results of the join and union searches are mixed.               *)
(*                                                                         *)
(* A variable is [type, ...], of numbers: a field that is not given is     *)
(* Absent, one that cannot be parsed is Invalid, and a JSON number without *)
(* a fraction, where only a float is accepted, is Whole.                   *)
(***************************************************************************)
EXTENDS Integers, Sequences, SequencesExt, FiniteSetsExt

CONSTANTS Now,      \* the date of the search
          TopK      \* TOP_K_SIZE
ASSUME SearchAssumption == Now \in Int /\ TopK \in Nat

Absent == -100
Invalid == -200
Whole == -400
Given(field) == field # Absent

-----------------------------------------------------------------------------
(* parse_query_variables(), one variable at a time: it is `refused`, or it  *)
(* gives filters and the `tabular` columns that the search is limited to.   *)
Refused == [refused |-> TRUE, filters |-> <<>>, tabular |-> {}]
Filters(filters) == [refused |-> FALSE, filters |-> filters, tabular |-> {}]

Period(variable) ==
  LET start == IF Given(variable.start) THEN variable.start ELSE 0
  IN <<start, IF Given(variable.end) THEN variable.end
              ELSE IF start > Now THEN start + 1 ELSE Now>>

Temporal(variable) ==
  LET dated == Given(variable.start) \/ Given(variable.end)
      ill == Invalid \in {variable.start, variable.end}
      period == Period(variable)
  IN IF (dated /\ (ill \/ period[1] > period[2])) \/ variable.granularity = Invalid
     THEN Refused
     ELSE Filters(<<[type |-> "temporal", period |-> IF dated THEN period ELSE <<>>,
                     granularity |-> variable.granularity]>>)

(* An area that is not known, or an incomplete envelope, is no filter.      *)
(* Bounds are two longitudes, then two latitudes: those of an area are      *)
(* taken as they are, those of the query are put in order.                  *)
Within(x1, x2, y1, y2) ==
  Filters(<<[type |-> "spatial", envelope |-> <<<<x1, y2>>, <<x2, y1>>>>]>>)
Geospatial(variable, areas) ==
  LET b == variable.bounds
  IN IF Given(variable.area)
     THEN IF variable.area = Invalid THEN Refused
          ELSE IF variable.area \in DOMAIN areas
          THEN LET a == areas[variable.area] IN Within(a[1], a[2], a[3], a[4])
          ELSE Filters(<<>>)
     ELSE IF \E k \in 1..4 : ~Given(b[k]) THEN Filters(<<>>)
     ELSE IF \E k \in 1..4 : b[k] \in {Invalid, Whole} THEN Refused
     ELSE Within(Min({b[1], b[2]}), Max({b[1], b[2]}), Min({b[3], b[4]}), Max({b[3], b[4]}))

Tabular(variable) ==
  IF Invalid \in variable.columns THEN Refused
  ELSE [Filters(<<>>) EXCEPT !.tabular = variable.columns]

ParseVariable(variable, areas) ==
  CASE variable.type = "temporal" -> Temporal(variable)
    [] variable.type = "geospatial" -> Geospatial(variable, areas)
    [] variable.type = "tabular" -> Tabular(variable)
    [] variable.type = "none" -> Refused
    [] OTHER -> Filters(<<>>)

(* parse_query(): a query has `keywords`, a `source` and `types`, each      *)
(* Absent, Invalid or given, an `augmentation` type, and variables.         *)
Lists(query) == <<query.keywords, query.source, query.types>>
ParseQuery(query, areas) ==
  LET parsed == [k \in DOMAIN query.variables |-> ParseVariable(query.variables[k], areas)]
      texts == {k \in 1..3 : Given(Lists(query)[k])}
      refused == \/ \E k \in texts : Lists(query)[k] = Invalid
                 \/ \E k \in DOMAIN parsed : parsed[k].refused
  IN [refused |-> refused,
      main |-> [k \in 1..Cardinality(texts) |-> [type |-> "text"]]
               \o FlattenSeq([k \in DOMAIN parsed |-> parsed[k].filters]),
      tabular |-> UNION {parsed[k].tabular : k \in DOMAIN parsed}]

(* parse_keyword_query_sup_index(): for joins, the keywords are a function  *)
(* that multiplies the score of what they match, a source and types are     *)
(* filters, and the variables are not used.                                 *)
KeywordWeight == 10
Weight(matches) == IF matches THEN KeywordWeight ELSE 1
SupFilters(query) == {f \in {"source", "types"} : Given(query[f])}
MainFilters(query, areas) ==
  {f \in {"keywords", "source", "types"} : Given(query[f])}
    \cup IF \E k \in DOMAIN query.variables :
              ParseVariable(query.variables[k], areas).filters # <<>> THEN {"variables"} ELSE {}

(* What Elasticsearch may answer to a search of TOP_K_SIZE hits: the best   *)
(* ones, ties being broken in any way.                                      *)
Returned(hits) ==
  {kept \in SUBSET hits : /\ Cardinality(kept) = Min({TopK, Cardinality(hits)})
                          /\ \A t \in kept, h \in hits \ kept : t.score >= h.score}

(* get_augmentation_search_results(), of the joins with one column of the   *)
(* data and of the unions, whose search has no limit.  A dataset says which *)
(* of `keywords`, `source`, `types` and `variables` it matches, and the     *)
(* `part` of the column that it covers.                                     *)
JoinHit(query, d) == [dataset |-> d, score |-> Weight(Given(query.keywords) /\ d.keywords) * d.part]
AugmentationResults(query, areas, datasets, wanted) ==
  LET passing(filters) == {d \in datasets : \A f \in filters : d[f]}
  IN [joins : IF "join" \in wanted
              THEN Returned({JoinHit(query, d) : d \in passing(SupFilters(query))}) ELSE {{}},
      unions : {IF "union" \in wanted THEN passing(MainFilters(query, areas)) ELSE {}}]

-----------------------------------------------------------------------------
(* Search.post(): at most one query, and three inputs.  A `profile` may be  *)
(* an expired token, and an `id` unknown.  The answer is an HTTP error, or  *)
(* a search for keywords (0) or for augmentations (1).                      *)
Unusable == -300
Answer(request, areas) ==
  LET inputs == {k \in {"data", "id", "profile"} : Given(request[k])}
      query == request.query[1]
      parsed == ParseQuery(query, areas)
      asked == request.query # <<>>
  IN IF request.content = "other" THEN 400
     ELSE IF request.profile = Unusable THEN 404
     ELSE IF Cardinality(inputs) > 1 \/ request.id = Unusable THEN 400
     ELSE IF asked /\ (parsed.refused \/ query.augmentation = Invalid) THEN 400
     ELSE IF inputs = {} THEN IF asked /\ parsed.main # <<>> THEN 0 ELSE 400
     ELSE 1

(* get_augmentation_search_results(): a join and a union in turn, then what *)
(* is left of the longer list.                                              *)
Mixed(joins, unions) ==
  LET size == Min({Len(joins), Len(unions)})
      pairs == [k \in 1..(2 * size) |-> IF k % 2 = 1 THEN joins[(k + 1) \div 2] ELSE unions[k \div 2]]
      all == pairs \o SubSeq(joins, size + 1, Len(joins)) \o SubSeq(unions, size + 1, Len(unions))
  IN SubSeq(all, 1, Min({TopK, Len(all)}))

-----------------------------------------------------------------------------
(* A query that is accepted has periods and envelopes that are not empty    *)
(* (unless the bounds of an area are out of order): it finds what it asks   *)
(* for, and a search "from" a date in the future is no error.  Bounds       *)
(* without a fraction are refused, although they are numbers.               *)
IsOrdered(envelope) == envelope[1][1] <= envelope[2][1] /\ envelope[2][2] <= envelope[1][2]
FiltersSound(query, areas) ==
  LET parsed == ParseQuery(query, areas)
  IN /\ ~parsed.refused =>
          \A k \in DOMAIN parsed.main :
            LET f == parsed.main[k]
            IN /\ f.type = "temporal" /\ f.period # <<>> => f.period[1] <= f.period[2]
               /\ f.type = "spatial" =>
                    \/ IsOrdered(f.envelope)
                    \/ \E a \in DOMAIN areas :
                         f.envelope = <<<<areas[a][1], areas[a][4]>>, <<areas[a][2], areas[a][3]>>>>
     /\ parsed.refused =>
          \/ Invalid \in ToSet(Lists(query))
          \/ \E v \in ToSet(query.variables) :
               \/ v.type = "none"
               \/ (v.type = "temporal" /\ Invalid \in {v.start, v.end, v.granularity})
               \/ /\ v.type = "temporal" /\ Given(v.end)
                  /\ IF Given(v.start) THEN v.start > v.end ELSE v.end < 0
               \/ (v.type = "geospatial" /\ {Invalid, Whole} \cap ({v.area} \cup ToSet(v.bounds)) # {})
               \/ (v.type = "tabular" /\ Invalid \in v.columns)

(* A search with an input looks for augmentations, whatever its query asks; *)
(* one without is refused when no part of its query became a filter.        *)
AnswersSound(request, areas) ==
  LET answer == Answer(request, areas)
  IN /\ answer = 1 =>
          Cardinality({k \in {"data", "id", "profile"} : Given(request[k])}) = 1
     /\ answer = 0 => ParseQuery(request.query[1], areas).main # <<>>

(* No augmentation comes from a source or has types that were not asked     *)
(* for, unions are the datasets that a search without data would find, and  *)
(* each of these that is missing among the joins gave way to TopK others,   *)
(* that cover as much and match the keywords, or cover ten times as much.   *)
AugmentationsPass(query, areas, datasets, wanted) ==
  LET asked == {d \in datasets : \A f \in MainFilters(query, areas) : d[f]}
  IN ~ParseQuery(query, areas).refused =>
       \A results \in AugmentationResults(query, areas, datasets, wanted) :
         LET joins == {h.dataset : h \in results.joins}
         IN /\ \A d \in joins \cup results.unions, f \in {"source", "types"} : Given(query[f]) => d[f]
            /\ "union" \in wanted => results.unions = asked
            /\ \A d \in joins \ asked : ~d.keywords \/ ~d.variables
            /\ "join" \in wanted => \A d \in asked \ joins :
                 /\ Cardinality(results.joins) = TopK
                 /\ \A e \in joins : IF Given(query.keywords) /\ ~e.keywords
                                     THEN e.part >= KeywordWeight * d.part ELSE e.part >= d.part

(* The first results are the best joins and the best unions, in their       *)
(* order, as many of each as there are or one more join.                    *)
ResultsFrom(mixed, list) ==
  FlattenSeq([k \in DOMAIN mixed |-> IF mixed[k] \in ToSet(list) THEN <<mixed[k]>> ELSE <<>>])
MixedFairly(joins, unions) ==
  LET mixed == Mixed(joins, unions)
      js == ResultsFrom(mixed, joins)
      us == ResultsFrom(mixed, unions)
  IN /\ IsPrefix(js, joins) /\ IsPrefix(us, unions)
     /\ Len(mixed) = Min({TopK, Len(joins) + Len(unions)})
     /\ Len(js) < Len(joins) => (Len(js) - Len(us) \in {0, 1} \/ us = unions)
     /\ Len(us) < Len(unions) => (Len(js) - Len(us) \in {0, 1} \/ js = joins)
=============================================================================
