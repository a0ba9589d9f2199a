------------------------------- MODULE D3mIndex -------------------------------
(***************************************************************************)
(* The D3M writer (lib_materialize/datamart_materialize/d3m.py): it adds a *)
(* column 'd3mIndex' to a CSV file that it gets in pieces, and describes   *)
(* the columns in a document of its own.                                   *)
(*                                                                         *)
(* A file is a sequence of lines, the header first; each is blank or not.  *)
(* A position is counted in half lines: at an odd one, a line is cut.      *)
(***************************************************************************)
EXTENDS Integers, Sequences, SequencesExt

Visible(position) == (position + 1) \div 2     \* lines, the last one cut or not

(* generate: whether the index is generated, "None" until it is decided.    *)
(* start: the first line of the buffer.  rows: what was written, the number *)
(* of a row (-1: the header) and its line.                                  *)
New == [generate |-> "None", start |-> 1, idx |-> -1, rows |-> <<>>]
Raised == [generate |-> "ValueError", start |-> 1, idx |-> -1, rows |-> <<>>]

(* _get_lines(): a line that another one follows is complete.  A blank one  *)
(* ends the loop, and stays at the beginning of the buffer.                 *)
Complete(lines, from, visible) ==
  CHOOSE n \in 0..visible :
    /\ \A i \in 0..(n - 1) : from + i < visible /\ lines[from + i] # "blank"
    /\ from + n >= visible \/ lines[from + n] = "blank"
WriteLines(state, lines, visible) ==
  LET n == Complete(lines, state.start, visible)
  IN [state EXCEPT !.rows = @ \o [i \in 1..n |-> <<state.idx + i - 1, state.start + i - 1>>],
                   !.idx = @ + n, !.start = @ + n]

(* _flush(): the decision needs the header and the beginning of a line.     *)
Flush(state, lines, hasIndex, position) ==
  CASE state.generate \in {"ValueError", "False"} -> state
    [] state.generate = "None" /\ Visible(position) < 2 -> Raised
    [] state.generate = "None" /\ Visible(position) >= 2 /\ hasIndex ->
         [state EXCEPT !.generate = "False"]
    [] OTHER -> WriteLines([state EXCEPT !.generate = "True"], lines, Visible(position))

(* Mutant: what is left of the buffer is not written.                       *)
CloseEarly(state, lines, hasIndex) == Flush(state, lines, hasIndex, 2 * Len(lines))
(* close(): what is left of the buffer has one line, or begins with a blank *)
(* one.  A file that has the column already is copied.                      *)
Close(state, lines, hasIndex) ==
  LET last == Flush(state, lines, hasIndex, 2 * Len(lines))
  IN CASE last.generate = "False" ->
            [last EXCEPT !.rows = [i \in DOMAIN lines |-> <<i - 2, i>>]]
       [] last.generate = "True" /\ last.start <= Len(lines) /\ lines[last.start] # "blank" ->
            [last EXCEPT !.rows = Append(@, <<last.idx, last.start>>)]
       [] OTHER -> last

(* The buffer is flushed whenever a write() makes it longer than BUFFER_MAX.*)
AddIndex(lines, hasIndex, flushes) ==
  LET after[done \in SUBSET flushes] ==
        IF done = {} THEN New
        ELSE Flush(after[done \ {Max(done)}], lines, hasIndex, Max(done))
  IN Close(after[flushes], lines, hasIndex)

-----------------------------------------------------------------------------
(* d3m_metadata().                                                          *)

ColType(column) ==
  CASE "boolean" \in column.semantic -> "boolean"
    [] "boolean" \notin column.semantic /\ "categorical" \in column.semantic -> "categorical"
    [] {"boolean", "categorical"} \cap column.semantic = {} ->
         CASE column.structural = "text" /\ "datetime" \in column.semantic -> "dateTime"
           [] column.structural \in {"integer", "real", "boolean"} -> column.structural
           [] OTHER -> "string"
Described(columns, needIndex) ==
  LET index == [name |-> "d3mIndex", structural |-> "integer", semantic |-> {"id"}]
      all == IF needIndex /\ \A i \in DOMAIN columns : columns[i].name # "d3mIndex"
             THEN <<index>> \o columns ELSE columns
  IN [i \in DOMAIN all |->
        [name |-> all[i].name, type |-> ColType(all[i]),
         role |-> IF all[i].name = "d3mIndex" THEN "index" ELSE "attribute"]]
(* open_file(): the header of learningData.csv.                             *)
WrittenHeader(names, needIndex) ==
  IF needIndex /\ ~Contains(names, "d3mIndex") THEN <<"d3mIndex">> \o names ELSE names

-----------------------------------------------------------------------------
(* Wherever the buffer is flushed, the rows are numbered from 0 and none is *)
(* lost or written twice; but nothing after a blank line is written, and a  *)
(* header alone, or one that is longer than the buffer, raises ValueError.  *)
RowsNumbered(lines, hasIndex, flushes) ==
  LET result == AddIndex(lines, hasIndex, flushes)
      blanks == {i \in DOMAIN lines : lines[i] = "blank"}
      rows == {i \in DOMAIN lines : hasIndex \/ \A b \in blanks : i < b}
  IN IF Len(lines) < 2 \/ \E p \in flushes : Visible(p) < 2
     THEN result = Raised
     ELSE result.rows = [i \in 1..Cardinality(rows) |-> <<i - 2, i>>]

(* The document describes the columns that the file has, in their order.    *)
DocumentMatches(columns, needIndex) ==
  LET described == Described(columns, needIndex)
      names == [i \in DOMAIN columns |-> columns[i].name]
  IN [i \in DOMAIN described |-> described[i].name] = WrittenHeader(names, needIndex)
=============================================================================
