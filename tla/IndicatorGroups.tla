---------------------------- MODULE IndicatorGroups ----------------------------
(***************************************************************************)
(* How the database of UAZ is split into datasets: discover_indicators()   *)
(* of discovery/uaz_indicators/uaz_indicators.py.  Variables are read in   *)
(* the order of SQLite, which compares codes of characters; those next to  *)
(* each other with the same source and the same text before their first    *)
(* comma make a dataset, whose identifier is that prefix and the source.   *)
(*                                                                         *)
(* A variable is [source, name], its name a sequence of codes; its units   *)
(* do not change its place.                                                *)
(***************************************************************************)
EXTENDS Integers, Sequences, SequencesExt, FiniteSetsExt

Comma == 44

Prefix(name) ==
  LET commas == {i \in DOMAIN name : name[i] = Comma}
  IN IF commas = {} THEN name ELSE SubSeq(name, 1, Min(commas) - 1)

(* ORDER BY Source, Variable: at the first place where two names differ.    *)
Before(a, b) ==
  \E i \in DOMAIN b : /\ \A j \in 1..(i - 1) : j \in DOMAIN a /\ a[j] = b[j]
                      /\ i \in DOMAIN a => a[i] < b[i]
Precedes(v, w) == v.source < w.source \/ (v.source = w.source /\ Before(v.name, w.name))
Ordered(variables) ==
  CHOOSE order \in [1..Cardinality(variables) -> variables] :
    \A i, j \in DOMAIN order : i < j => Precedes(order[i], order[j])

(* The loop: `made` are the datasets, in the order in which they are made.  *)
Dataset(state) ==
  [prefix |-> state.prefix, source |-> state.source, variables |-> state.variables]
ReadVariable(state, v) ==
  LET prefix == Prefix(v.name)
  IN IF state.variables = <<>> \/ (prefix = state.prefix /\ v.source = state.source)
     THEN [state EXCEPT !.prefix = prefix, !.source = v.source, !.variables = Append(@, v)]
     ELSE [prefix |-> prefix, source |-> v.source, variables |-> <<v>>,
           made |-> Append(state.made, Dataset(state))]
DiscoverIndicators(variables) ==
  LET last == FoldLeft(ReadVariable, [prefix |-> <<>>, source |-> 0, variables |-> <<>>, made |-> <<>>],
                       Ordered(variables))
  IN IF last.variables = <<>> THEN <<>> ELSE Append(last.made, Dataset(last))

(* make_indicator_dataset(): a dataset with the same identifier replaces    *)
(* what is in shared storage.                                               *)
Stored(made, prefix, source) ==
  LET same == {k \in DOMAIN made : made[k].prefix = prefix /\ made[k].source = source}
  IN IF same = {} THEN <<>> ELSE made[Max(same)].variables

-----------------------------------------------------------------------------
(* Every variable is in the dataset of its prefix, and in no other, unless  *)
(* the dataset is made a second time: which happens only if the name of     *)
(* another prefix is this one with characters that sort before the comma,   *)
(* such as a space.                                                         *)
Splits(variables, v) ==
  \E w \in variables :
    /\ w.source = v.source
    /\ IsStrictPrefix(Prefix(v.name), Prefix(w.name))
    /\ Prefix(w.name)[Len(Prefix(v.name)) + 1] < Comma
IndicatorsKept(variables) ==
  LET made == DiscoverIndicators(variables)
  IN \A v \in variables :
       /\ v \in ToSet(Stored(made, Prefix(v.name), v.source)) \/ Splits(variables, v)
       /\ \A k \in DOMAIN made :
            v \in ToSet(made[k].variables) => made[k].prefix = Prefix(v.name) /\ made[k].source = v.source
=============================================================================
