----------------------------- MODULE Augmentation -----------------------------
(***************************************************************************)
(* Joins and unions (lib_augmentation/datamart_augmentation/               *)
(* augmentation.py).  The augmentation data is streamed: a join is made    *)
(* with each chunk, and what a row was joined with is then aggregated.     *)
(*                                                                         *)
(* A table has `columns`, a sequence of names, and `rows`, sequences of    *)
(* numbers or NaN.  Columns are given by their positions.                  *)
(***************************************************************************)
EXTENDS Integers, Sequences, SequencesExt, FiniteSetsExt

NaN == -1

-----------------------------------------------------------------------------
(* Temporal resolutions, of dates that are numbers of days.                 *)

Resolutions == <<"year", "month", "day">>     \* temporal_aggregation_keys
Days == [year |-> 4, month |-> 2, day |-> 1]
Aligned(date, resolution) ==
  IF resolution = "none" \/ date = NaN THEN date ELSE date \div Days[resolution]
Priority(resolution) == CHOOSE i \in DOMAIN Resolutions : Resolutions[i] = resolution

(* get_temporal_resolution(): 5 % tolerance on the dates in a bin.          *)
TemporalResolution(dates) ==
  LET bins(i) == {Aligned(d, Resolutions[i]) : d \in dates}
      fits == {i \in DOMAIN Resolutions : 100 * Cardinality(dates) < 105 * Cardinality(bins(i))}
  IN IF fits = {} THEN "day" ELSE Resolutions[Min(fits)]

(* match_column_temporal_resolutions(): the coarser one.                    *)
Coarser(left, right) == IF Priority(left) < Priority(right) THEN left ELSE right

-----------------------------------------------------------------------------
(* AGGREGATION_FUNCTIONS.  An aggregate is <<>> for NaN, and a sum and a    *)
(* number of values for the mean.                                           *)

(* Mutant: numpy.sum(), which is 0 when all the values are NaN.             *)
AggregateWithZero(function, values) ==
  LET numbers == SelectSeq(values, LAMBDA v : v # NaN)
  IN CASE function = "first" -> IF values[1] = NaN THEN <<>> ELSE <<values[1]>>
       [] function = "count" -> <<Len(numbers)>>
       [] OTHER -> <<FoldLeft(LAMBDA a, b : a + b, 0, numbers)>>
Aggregate(function, values) ==
  LET numbers == SelectSeq(values, LAMBDA v : v # NaN)
      sum == FoldLeft(LAMBDA a, b : a + b, 0, numbers)
  IN CASE function = "first" -> IF values[1] = NaN THEN <<>> ELSE <<values[1]>>
       [] function = "count" -> <<Len(numbers)>>
       [] function \notin {"first", "count"} /\ numbers = <<>> -> <<>>
       [] function = "mean" /\ numbers # <<>> -> <<sum, Len(numbers)>>
       [] function = "sum" /\ numbers # <<>> -> <<sum>>
       [] function = "max" /\ numbers # <<>> -> <<Max(ToSet(numbers))>>
       [] function = "min" /\ numbers # <<>> -> <<Min(ToSet(numbers))>>

-----------------------------------------------------------------------------
(* join().  A `task` has the columns to join on, `left` and `right`, the    *)
(* `requested` columns, the aggregation `functions` of each column (<<>>:   *)
(* the default ones), the `numeric` columns, and the `resolution`: "none"   *)
(* when the columns are no dates, "guess", or a resolution.                 *)

Key(row, columns, resolution) ==
  [k \in DOMAIN columns |-> Aligned(row[columns[k]], resolution)]

(* match_temporal_resolutions(): with the first chunk, for all of them.     *)
Resolution(original, rows, task) ==
  LET dates(data, columns) == {data[i][columns[1]] : i \in DOMAIN data} \ {NaN}
  IN IF task.resolution # "guess" THEN task.resolution
     ELSE Coarser(TemporalResolution(dates(original.rows, task.left)),
                  TemporalResolution(dates(rows, task.right)))

(* drop_columns has the names of the requested columns, from which it takes *)
(* away positions: the requested columns are dropped (see RequestedKept).   *)
NewColumns(augment, task) ==
  SelectSeq([i \in DOMAIN augment.columns |-> i],
            LAMBDA c : ~Contains(task.right, c) /\ c \notin task.requested)

(* perform_aggregations(): which functions there are for each new column;   *)
(* when some are given, columns without any are left out.                   *)
Functions(column, task) ==
  IF task.functions # <<>>
  THEN IF column \in DOMAIN task.functions THEN task.functions[column] ELSE <<>>
  ELSE IF column \in task.numeric THEN <<"mean", "sum", "max", "min">> ELSE <<"first">>

(* Names that are not there, of columns that became the index: KeyError.    *)
JoinRaises(task) ==
  \E c \in ToSet(task.right) : c \in task.requested \/ c \in DOMAIN task.functions

(* The rows of a chunk that a row is joined with; a row of NaN if none.     *)
JoinChunk(row, chunk, width, task, resolution) ==
  LET matches == SelectSeq(chunk, LAMBDA r :
                   Key(r, task.right, resolution) = Key(row, task.left, resolution))
  IN IF matches = <<>> THEN <<[c \in 1..width |-> NaN]>> ELSE matches

Join(original, augment, chunks, task) ==
  LET resolution == Resolution(original, chunks[1], task)
      joined(row) ==
        FlattenSeq([k \in DOMAIN chunks |->
          JoinChunk(row, chunks[k], Len(augment.columns), task, resolution)])
      new(row, c) ==
        LET functions == Functions(c, task)
            rows == joined(row)
            values == [i \in DOMAIN rows |-> rows[i][c]]
        IN [f \in DOMAIN functions |-> Aggregate(functions[f], values)]
      columns == NewColumns(augment, task)
  IN [i \in DOMAIN original.rows |->
        [old |-> original.rows[i],
         new |-> FlattenSeq([k \in DOMAIN columns |-> new(original.rows[i], columns[k])])]]

-----------------------------------------------------------------------------
(* union().  `pairs` maps columns of the augmentation data to columns of    *)
(* the original data.                                                       *)

Renamed(original, augment, pairs) ==
  [c \in DOMAIN augment.columns |->
     IF c \in DOMAIN pairs THEN original.columns[pairs[c]] ELSE augment.columns[c]]
(* Computed with the names from before the columns were renamed.            *)
Missing(original, augment) == ToSet(original.columns) \ ToSet(augment.columns)

(* The cells of a row in the column of that name: a missing column replaces *)
(* one that was renamed to it, and 'd3mIndex' itself.                       *)
Cells(name, row, index, original, augment, pairs) ==
  LET renamed == Renamed(original, augment, pairs)
      sources == SelectSeq([c \in DOMAIN renamed |-> c], LAMBDA c : renamed[c] = name)
  IN IF name \in Missing(original, augment) THEN <<NaN>>
     ELSE IF name = "d3mIndex" THEN <<index>>
     ELSE [k \in DOMAIN sources |-> row[sources[k]]]

UnionRaises(original, augment, pairs) ==      \* KeyError
  \E n \in ToSet(original.columns) \ (Missing(original, augment) \cup {"d3mIndex"}) :
    ~Contains(Renamed(original, augment, pairs), n)

(* The indices of the original data, and the one that follows the greatest; *)
(* but they are read as strings: of at most two digits, "9" is greater than *)
(* "10".                                                                    *)
Indices(original) ==
  LET position == CHOOSE c \in DOMAIN original.columns : original.columns[c] = "d3mIndex"
  IN {original.rows[i][position] : i \in DOMAIN original.rows}
AsString(n) == IF n < 10 THEN 20 * n ELSE 2 * n + 1
NextIndex(original) ==
  1 + CHOOSE n \in Indices(original) : \A m \in Indices(original) : AsString(n) >= AsString(m)

(* The rows that are appended.                                              *)
Union(original, augment, pairs) ==
  LET columns == original.columns
      first == IF Contains(columns, "d3mIndex") THEN NextIndex(original) ELSE 0
      cells(i, c) == Cells(columns[c], augment.rows[i], first + i - 1, original, augment, pairs)
  IN [i \in DOMAIN augment.rows |-> FlattenSeq([c \in DOMAIN columns |-> cells(i, c)])]

-----------------------------------------------------------------------------
(* However the data is cut into chunks, a row keeps its values and gets, in *)
(* every column that is not dropped, the aggregate of all the rows that it  *)
(* matches.  Two things depend on the first chunk: the resolution that is   *)
(* guessed, and the first value, which is NaN when a row only has a match   *)
(* in a later chunk.                                                        *)
JoinExact(original, augment, chunks, task) ==
  LET result == Join(original, augment, chunks, task)
      resolution == Resolution(original, augment.rows, task)
      matches(row, rows) ==
        {i \in DOMAIN rows : Key(rows[i], task.right, resolution) = Key(row, task.left, resolution)}
      numbers(row, c) == {i \in matches(row, augment.rows) : augment.rows[i][c] # NaN}
      total(row, c) == MapThenSumSet(LAMBDA i : augment.rows[i][c], numbers(row, c))
      value(row, c, f) ==
        CASE f = "count" -> <<Cardinality(numbers(row, c))>>
          [] f = "first" /\ matches(row, chunks[1]) # {} ->
               LET v == augment.rows[Min(matches(row, augment.rows))][c]
               IN IF v = NaN THEN <<>> ELSE <<v>>
          [] f = "mean" /\ numbers(row, c) # {} -> <<total(row, c), Cardinality(numbers(row, c))>>
          [] f = "sum" /\ numbers(row, c) # {} -> <<total(row, c)>>
          [] f = "max" /\ numbers(row, c) # {} -> <<Max({augment.rows[i][c] : i \in numbers(row, c)})>>
          [] f = "min" /\ numbers(row, c) # {} -> <<Min({augment.rows[i][c] : i \in numbers(row, c)})>>
          [] OTHER -> <<>>
      columns == NewColumns(augment, task)
      expected(row) ==
        FlattenSeq([k \in DOMAIN columns |->
          LET functions == Functions(columns[k], task)
          IN [f \in DOMAIN functions |-> value(row, columns[k], functions[f])]])
  IN ~JoinRaises(task) =>
       /\ [i \in DOMAIN result |-> result[i].old] = original.rows
       /\ Resolution(original, chunks[1], task) = resolution =>
            \A i \in DOMAIN result : result[i].new = expected(original.rows[i])

(* What the comment before drop_columns and the documentation of `columns`  *)
(* say: the requested columns are those that are added to the data.         *)
RequestedKept(augment, task) ==
  task.requested # {} /\ ~JoinRaises(task) =>
    ToSet(NewColumns(augment, task)) = task.requested \ ToSet(task.right)

(* A column that is paired, or has the same name, gets its values; but not  *)
(* when its name changes, and the index continues only when the other table *)
(* has an index, too, and while the indices have one digit.  A column that  *)
(* is renamed to or from the name of another one makes the row too long, or *)
(* the union fail.                                                          *)
UnionExact(original, augment, pairs) ==
  LET result == Union(original, augment, pairs)
      names == ToSet(augment.columns)
      changes == {c \in DOMAIN pairs : augment.columns[c] # original.columns[pairs[c]]}
      clashes == {c \in changes : original.columns[pairs[c]] \in names
                                    \/ augment.columns[c] \in ToSet(original.columns)}
      source(c) == {s \in DOMAIN augment.columns \ changes : augment.columns[s] = original.columns[c]}
      value(i, c) ==
        IF source(c) = {} THEN NaN
        ELSE IF original.columns[c] = "d3mIndex" THEN Max(Indices(original)) + i
        ELSE augment.rows[i][CHOOSE s \in source(c) : TRUE]
      oneDigit == Contains(original.columns, "d3mIndex") => Max(Indices(original)) < 10
  IN clashes = {} /\ oneDigit =>
       /\ ~UnionRaises(original, augment, pairs)
       /\ Len(result) = Len(augment.rows)
       /\ \A i \in DOMAIN result :
            result[i] = [c \in DOMAIN original.columns |-> value(i, c)]
=============================================================================
