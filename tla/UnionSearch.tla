----------------------------- MODULE UnionSearch -----------------------------
(***************************************************************************)
(* The search for unions (apiserver/apiserver/search/union.py): columns of *)
(* the same type with similar names are paired, and a dataset that has at  *)
(* least two pairs is a result.                                            *)
(*                                                                         *)
(* A column is [name, structural, semantic], where `semantic` is a         *)
(* sequence.  `similarity` gives two names a number up to `Same`, and zero *)
(* when the fuzzy query does not match them; `relevance` is the score that *)
(* Elasticsearch gives to the dataset for a type and a name, one if there  *)
(* is no query.                                                            *)
(***************************************************************************)
EXTENDS Integers, Sequences, SequencesExt, FiniteSetsExt

CONSTANT Same      \* the similarity of equal names
ASSUME SameAssumption == Same \in Nat

-----------------------------------------------------------------------------
TypesOf(column) == IF column.semantic = <<>> THEN <<column.structural>> ELSE column.semantic

(* get_columns_by_type(): a column is there once for each of its types, and *)
(* types are in the order in which they are met.                            *)
When(condition, list) == IF condition THEN list ELSE <<>>
IsConsidered(columns, filter, i) ==
  (filter = {} \/ i \in filter) /\ columns[i].name # "d3mIndex"
NamesWithTypes(columns, filter) ==
  FlattenSeq([i \in DOMAIN columns |->
    When(IsConsidered(columns, filter, i),
         [t \in DOMAIN TypesOf(columns[i]) |->
            [type |-> TypesOf(columns[i])[t], name |-> columns[i].name]])])
IsMet(typed, k) == \E j \in 1..(k - 1) : typed[j].type = typed[k].type
WithType(typed, type) ==
  FlattenSeq([k \in DOMAIN typed |-> When(typed[k].type = type, <<typed[k]>>)])
GroupedByType(typed) ==
  FlattenSeq([k \in DOMAIN typed |-> When(~IsMet(typed, k), WithType(typed, typed[k].type))])
TypedNames(columns, filter) == GroupedByType(NamesWithTypes(columns, filter))

(* The hits: columns of the dataset that have the type and a similar name.  *)
IsHit(e, c, similarity) ==
  e.type \in ToSet(c.semantic) \cup {c.structural} /\ similarity[e.name, c.name] > 0
Hits(e, other, similarity, relevance) ==
  FlattenSeq([h \in DOMAIN other |->
    When(IsHit(e, other[h], similarity),
         <<[left |-> e.name, right |-> other[h].name,
            similarity |-> similarity[e.name, other[h].name], relevance |-> relevance[e]]>>)])
Candidates(columns, filter, other, similarity, relevance) ==
  LET typed == TypedNames(columns, filter)
  IN FlattenSeq([k \in DOMAIN typed |-> Hits(typed[k], other, similarity, relevance)])

(* Mutant: a column of the dataset may be in two pairs.                     *)
PairedOnce(pairs, candidate) ==
  IF \E p \in ToSet(pairs) : p.left = candidate.left THEN pairs
  ELSE Append(pairs, candidate)
(* "Choose pairs with higher similarity": one candidate after another.      *)
Paired(pairs, candidate) ==
  IF \E p \in ToSet(pairs) : p.left = candidate.left \/ p.right = candidate.right THEN pairs
  ELSE Append(pairs, candidate)
AsSimilar(candidates, s) ==
  FlattenSeq([k \in DOMAIN candidates |-> When(candidates[k].similarity = s, <<candidates[k]>>)])
BySimilarity(candidates) ==
  FlattenSeq([k \in 1..Same |-> AsSimilar(candidates, Same + 1 - k)])     \* a stable sort
ChosenPairs(candidates) ==
  LET chosen[n \in 0..Len(candidates)] ==
        IF n = 0 THEN <<>> ELSE Paired(chosen[n - 1], candidates[n])
  IN chosen[Len(candidates)]
UnionPairs(columns, filter, other, similarity, relevance) ==
  ChosenPairs(BySimilarity(Candidates(columns, filter, other, similarity, relevance)))
Unionable(pairs) == Len(pairs) > 1

(* The score, to be divided by n_columns: the similarities, times the best  *)
(* of the scores of Elasticsearch.                                          *)
Similarities(pairs) ==
  LET total[n \in 0..Len(pairs)] == IF n = 0 THEN 0 ELSE total[n - 1] + pairs[n].similarity
  IN total[Len(pairs)]
Score(pairs) == Similarities(pairs) * Max({0} \cup {p.relevance : p \in ToSet(pairs)})

(* get_column_identifiers(), of one name: the last column that has it.      *)
ColumnIdentifier(columns, name) ==
  LET found == {i \in DOMAIN columns : columns[i].name = name}
  IN IF found = {} THEN -1 ELSE Max(found)

-----------------------------------------------------------------------------
(* The pairs of a result are one-to-one.  Every candidate that is no pair   *)
(* gave way to one at least as similar; a dataset is no result when they    *)
(* all gave way to one, even if two others could be paired.  The score is   *)
(* at most that which Elasticsearch gave to the dataset for one of the      *)
(* pairs, so at most one without a query.  The columns of the task are      *)
(* found; with distinct names they are those that the query is limited to,  *)
(* and share a type.                                                        *)
UnionSound(columns, filter, other, similarity, relevance) ==
  LET pairs == UnionPairs(columns, filter, other, similarity, relevance)
      candidates == ToSet(Candidates(columns, filter, other, similarity, relevance))
      left(p) == ColumnIdentifier(columns, p.left)
      right(p) == ColumnIdentifier(other, p.right)
      distinct(list) == \A i, j \in DOMAIN list : i # j => list[i].name # list[j].name
  IN /\ \A i, j \in DOMAIN pairs : i # j => /\ pairs[i].left # pairs[j].left
                                            /\ pairs[i].right # pairs[j].right
     /\ \A c \in candidates : \E p \in ToSet(pairs) :
          (p.left = c.left \/ p.right = c.right) /\ p.similarity >= c.similarity
     /\ ~Unionable(pairs) =>
          \A p \in ToSet(pairs), c \in candidates : p.left = c.left \/ p.right = c.right
     /\ pairs # <<>> =>
          \E p \in ToSet(pairs) : Score(pairs) <= Same * Len(TypedNames(columns, filter)) * p.relevance
     /\ \A p \in ToSet(pairs) :
          /\ left(p) # -1 /\ right(p) # -1
          /\ distinct(columns) => filter = {} \/ left(p) \in filter
          /\ distinct(columns) /\ distinct(other) =>
               ToSet(TypesOf(columns[left(p)]))
                 \cap (ToSet(other[right(p)].semantic) \cup {other[right(p)].structural}) # {}
=============================================================================
