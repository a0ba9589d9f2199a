----------------------------- MODULE Maintenance -----------------------------
(***************************************************************************)
(* The scripts that take the index out of Elasticsearch, change it and put *)
(* it back: scripts/export_all.py, import_all.py, migrate-spatial-         *)
(* coverage.py and migrate-types-and-attributes.py; and those that have    *)
(* datasets profiled again: reprocess.py, reprocess_all.py and             *)
(* freshen_old_index.py.                                                   *)
(*                                                                         *)
(* An identifier is a sequence of character codes, and so is the name of a *)
(* file.  The index maps identifiers to documents, Lazo's storage is a set *)
(* of pairs: an identifier and a column.                                   *)
(***************************************************************************)
EXTENDS ProcessDataset, Functions, TLC

-----------------------------------------------------------------------------
(* encode_dataset_id() and decode_dataset_id().                             *)
Underscore == 95
Digits == 48..57
Safe == {45, 46} \cup Digits \cup 65..90 \cup 97..122      \* -.0-9A-Za-z

HexDigit(n) == IF n < 10 THEN 48 + n ELSE 55 + n
Hex[n \in Nat] == (IF n < 16 THEN <<>> ELSE Hex[n \div 16]) \o <<HexDigit(n % 16)>>
HexValue(c) ==
  CASE c \in Digits -> c - 48
    [] c \in 65..70 -> c - 55
    [] c \in 97..102 -> c - 87
    [] OTHER -> -1

EncodeChar(c) ==
  IF c = Underscore THEN <<Underscore, Underscore>>
  ELSE IF c \in Safe THEN <<c>> ELSE <<Underscore>> \o Hex[c]
Encode(id) == FlattenSeq([i \in DOMAIN id |-> EncodeChar(id[i])])

(* int(.., 16) raises when it gets another character, or none.              *)
Raises == <<-1>>
Number(chars) ==
  IF chars = <<>> \/ \E i \in DOMAIN chars : HexValue(chars[i]) = -1 THEN -1
  ELSE FoldLeft(LAMBDA n, c : 16 * n + HexValue(c), 0, chars)
Decode(name) ==
  LET end == Len(name)
      then(c, rest) == IF rest = Raises THEN Raises ELSE <<c>> \o rest
      from[i \in 1..(end + 3)] ==
        IF i > end THEN <<>>
        ELSE IF name[i] # Underscore THEN then(name[i], from[i + 1])
        ELSE IF i = end THEN Raises
        ELSE IF name[i + 1] = Underscore THEN then(Underscore, from[i + 2])
        ELSE LET n == Number(SubSeq(name, i + 1, Min({i + 2, end})))
             IN IF n = -1 THEN Raises ELSE then(n, from[Min({i + 3, end + 1})])
  IN from[1]

(* Exactly two digits are read, as many as these characters have.           *)
TwoDigits(id) == \A i \in DOMAIN id : id[i] = Underscore \/ id[i] \in Safe \/ id[i] \in 16..255

-----------------------------------------------------------------------------
(* The datasets are written in the order of the scan, each to the file of   *)
(* its encoded identifier; the sketches to files with numbers, and with     *)
(* their own identifiers inside.                                            *)
Suffix == <<46, 48>>      \* ".0"
Export(datasets, sketches) ==
  [datasets |-> [name \in {Encode(datasets[i].id) : i \in DOMAIN datasets} |->
                   datasets[Max({i \in DOMAIN datasets : Encode(datasets[i].id) = name})].document],
   sketches |-> {[name |-> Encode(s.id) \o Suffix, sketch |-> s] : s \in sketches}]

(* Each dataset is deleted before it is added, others stay; the assertion   *)
(* that the name of a file is that of its sketch stops the import, after    *)
(* the datasets and before any other sketch at worst.  (What is removed     *)
(* from Lazo with the datasets is in Sketches.)                             *)
Import(folder, index) ==
  LET ids == {Decode(name) : name \in DOMAIN folder.datasets}
      loaded == [id \in ids |-> {folder.datasets[n] : n \in {n \in DOMAIN folder.datasets : Decode(n) = id}}]
      bad == {f \in folder.sketches : Decode(f.name) # f.sketch.id \o Suffix}
  IN [index |-> [id \in ids \cup DOMAIN index |-> IF id \in ids THEN loaded[id] ELSE index[id]],
      sketches |-> IF bad = {} THEN {f.sketch : f \in folder.sketches} ELSE {}]

-----------------------------------------------------------------------------
(* reprocess.py, reprocess_all.py and freshen_old_index.py send datasets    *)
(* to the profilers again: what metadata they had, without what profiling   *)
(* added.  A document is a function, from the fields it has.                *)
SentFields == {"name", "materialize", "source"}
FieldsIfAny == {"description", "date", "manual_annotations"}
Resent(document) ==
  [field \in SentFields \cup {f \in FieldsIfAny \cap DOMAIN document : document[f] # ""} |->
     IF field \in DOMAIN document THEN document[field] ELSE "unknown"]
(* reprocess.py sends nothing when one of the datasets does not exist.      *)
Reprocess(index, ids) ==
  IF ids \subseteq DOMAIN index THEN [id \in ids |-> Resent(index[id])] ELSE <<>>
ReprocessAll(datasets) ==
  [id \in {Decode(name) : name \in DOMAIN datasets} |->
     Resent(datasets[CHOOSE name \in DOMAIN datasets : Decode(name) = id])]
(* is_version_more_recent(): when the old version is an ancestor.           *)
Freshen(index, version, ancestors) ==
  [id \in {i \in DOMAIN index : version \notin ancestors[index[i].version]} |-> Resent(index[id])]
(* What the profiler makes of a message: the date is that of the profile.   *)
Profiled(message, version) ==
  [version |-> version, date |-> "now", columns |-> "profiled"] @@ message

-----------------------------------------------------------------------------
(* migrate-spatial-coverage.py: the coverage of an old document has names   *)
(* of columns only; `indexes` has the last column of each name.             *)
OldCoverage(columns) ==
  LET new == ResolvedCoverage(columns)
  IN [type \in DOMAIN new |-> {[k \in DOMAIN area |-> columns[area[k]].name] : area \in new[type]}]
Indexes(columns) ==
  [name \in {columns[i].name : i \in DOMAIN columns} |->
     Max({i \in DOMAIN columns : columns[i].name = name})]
MigrateCoverage(columns, old) ==
  [type \in DOMAIN old |-> {[k \in DOMAIN names |-> Indexes(columns)[names[k]]] : names \in old[type]}]

(* migrate-types-and-attributes.py: the types of the columns, as they are   *)
(* in the document.                                                         *)
MigrateTypes(document) ==
  {DatasetType(document.columns[i]) : i \in DOMAIN document.columns} \ {"none"}

-----------------------------------------------------------------------------
(* An identifier is found again from the name of its file, and the name is  *)
(* one that a file can have, provided that its special characters have two  *)
(* hexadecimal digits.                                                      *)
NamesFoundAgain(id) ==
  /\ \A i \in DOMAIN Encode(id) : Encode(id)[i] \in Safe \cup {Underscore}
  /\ TwoDigits(id) => Decode(Encode(id)) = id

(* What is exported can be imported: the same datasets with their sketches, *)
(* and nothing else that was there is touched.                              *)
ImportRestores(datasets, sketches, index) ==
  LET result == Import(Export(datasets, sketches), index)
  IN (\A i \in DOMAIN datasets : TwoDigits(datasets[i].id)) =>
       /\ \A i \in DOMAIN datasets : result.index[datasets[i].id] = {datasets[i].document}
       /\ \A id \in DOMAIN index \ {datasets[i].id : i \in DOMAIN datasets} : result.index[id] = index[id]
       /\ sketches \subseteq result.sketches

(* Whichever script sends a dataset again sends the same, and sending it    *)
(* twice changes nothing more than its date.  Once what                     *)
(* freshen_old_index.py sent is profiled by a version that comes after the  *)
(* one it was asked for, it has nothing left to send.                       *)
ResendAgrees(index, version, now, ancestors) ==
  LET sent == Freshen(index, version, ancestors)
      fresh == [id \in DOMAIN index |-> IF id \in DOMAIN sent THEN Profiled(sent[id], now) ELSE index[id]]
      folder == [name \in {Encode(id) : id \in DOMAIN index} |->
                   index[CHOOSE id \in DOMAIN index : Encode(id) = name]]
  IN /\ \A id \in DOMAIN sent : \A field \in DOMAIN sent[id] \ {"date"} :
          Resent(fresh[id])[field] = sent[id][field]
     /\ sent = Reprocess(index, DOMAIN sent)
     /\ (\A id \in DOMAIN index : TwoDigits(id)) =>
          ReprocessAll(folder) = Reprocess(index, DOMAIN index)
     /\ version \in ancestors[now] => Freshen(fresh, version, ancestors) = <<>>

(* A migrated document is one that the profiler would make today, but for   *)
(* the type of a dataset that is spatial by its points or addresses, or has *)
(* a coordinate that lost its type.                                         *)
MigrationAgrees(file) ==
  LET document == Process(file)
      columns == file.columns
      distinct == IsInjective([i \in DOMAIN columns |-> columns[i].name])
  IN file.rows > 0 /\ ~ProcessRaises(file) =>
       /\ distinct =>
            MigrateCoverage(columns, OldCoverage(columns)) = ResolvedCoverage(columns)
       /\ MigrateTypes(document) # document.types =>
            \/ document.types = MigrateTypes(document) \cup {"spatial"}
            \/ \E i \in DOMAIN columns : Missed(columns, i) # {}
=============================================================================
