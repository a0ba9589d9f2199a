------------------------------- MODULE Sketches -------------------------------
(***************************************************************************)
(* The sketches that Lazo keeps of the textual columns of one dataset.     *)
(* They are replaced while a new version is profiled (LazoDeleteFirst in   *)
(* profiler/profiler.py, process_dataset()), before the index is, and what *)
(* to remove is read from the index (lib_core/datamart_core/common.py).    *)
(* Indexing has the rewriting of the index step by step; here it is one.   *)
(***************************************************************************)
EXTENDS Naturals, FiniteSets

CONSTANTS
  Columns,    \* names of columns
  Versions,   \* the versions of the dataset that are profiled, once each
  Deleters    \* calls of delete_dataset_from_index() by others

None == "none"

VARIABLES
  text,       \* the textual columns of each version, without its dates
  step,       \* of each version and deleter
  sketches,   \* the version of which Lazo has a sketch, for each column
  current,    \* the version in the index
  excuses     \* history: why the sketches may not be those of the index

sketchVars == <<text, step, sketches, current, excuses>>

Procs == Versions \cup Deleters
Busy == {"forgetting", "sketching", "sketched", "failing", "emptying", "deleting"}

Init ==
  /\ text = [v \in Versions |-> {}]
  /\ step = [p \in Procs |-> "new"]
  /\ sketches = [c \in Columns |-> None]
  /\ current = None /\ excuses = {}

Indexed == IF current = None THEN {} ELSE text[current]
Go(p, s) == step' = [step EXCEPT ![p] = s]
Excuse(e) == excuses' = excuses \cup e

(* The dataset is profiled, or deleted, while it is profiled or deleted.    *)
Overlap(p) == IF \E q \in Procs \ {p} : step[q] \in Busy THEN {"overlap"} ELSE {}

-----------------------------------------------------------------------------
(* delete_dataset_from_lazo(): the textual columns of the index.  When      *)
(* remove_sketches() is not acknowledged, that is only logged.              *)
Forget ==
  \/ sketches' = [c \in Columns |-> IF c \in Indexed THEN None ELSE sketches[c]] /\ Excuse({})
  \/ Indexed # {} /\ sketches' = sketches /\ Excuse({"refused"})

(* process_dataset() comes to its textual columns: the first call of        *)
(* index_data_path() is preceded by delete_dataset_from_lazo(), but a       *)
(* version without textual columns makes no call; nor does one without      *)
(* rows, for which process_dataset() returns early.                         *)
Profile(v) ==
  /\ step[v] = "new"
  /\ \E columns \in SUBSET Columns :
       /\ text' = [text EXCEPT ![v] = columns]
       /\ \/ columns # {} /\ Go(v, "forgetting") /\ Excuse(Overlap(v))
          \/ /\ columns = {} /\ Go(v, "sketched")
             /\ Excuse(Overlap(v) \cup (IF Indexed # {} THEN {"no text"} ELSE {}))
          \/ columns = {} /\ Go(v, "emptying") /\ Excuse(Overlap(v))
  /\ UNCHANGED <<sketches, current>>

DeleteFirst(v) ==
  /\ step[v] = "forgetting" /\ Forget /\ Go(v, "sketching")
  /\ UNCHANGED <<text, current>>

(* index_data_path(): it succeeds, or raises somewhere in the columns.      *)
IndexDataPath(v) ==
  /\ step[v] = "sketching"
  /\ \E done \in SUBSET text[v] :
       /\ sketches' = [c \in Columns |-> IF c \in done THEN v ELSE sketches[c]]
       /\ IF done = text[v] THEN Go(v, "sketched") ELSE Go(v, "failing")
  /\ UNCHANGED <<text, current, excuses>>

(* What comes afterwards in process_dataset() raises.                       *)
Raise(v) ==
  /\ step[v] = "sketched" /\ text[v] # {} /\ Go(v, "failing")
  /\ UNCHANGED <<text, sketches, current, excuses>>

(* Elasticsearch does not answer, or the profiler is killed: the message    *)
(* comes again, and is profiled from the start.                             *)
Nack(v) ==
  /\ step[v] \in {"sketching", "sketched", "failing"} /\ text[v] # {} /\ Go(v, "forgetting")
  /\ UNCHANGED <<text, sketches, current, excuses>>

-----------------------------------------------------------------------------
(* Mutant: it does delete from Lazo.                                        *)
RewriteAndForget(v) ==
  /\ step[v] = "sketched" /\ Go(v, "done") /\ current' = v
  /\ sketches' = [c \in Columns |-> IF c \in Indexed THEN None ELSE sketches[c]]
  /\ UNCHANGED <<text, excuses>>

(* The callback.  "Don't delete from Lazo, we inserted during profile".     *)
Rewrite(v) ==
  /\ step[v] = "sketched" /\ Go(v, "done") /\ current' = v
  /\ UNCHANGED <<text, sketches, excuses>>

(* An error: the record is 'pending', and the index stays as it was, or is  *)
(* without the dataset when Elasticsearch refuses the metadata.             *)
Fail(v) ==
  /\ step[v] \in {"sketched", "failing"} /\ Go(v, "done") /\ Excuse({"failed"})
  /\ current' = IF step[v] = "failing" THEN current ELSE None
  /\ UNCHANGED <<text, sketches>>

(* "DO delete from Lazo": the dataset has no rows, or is too big.           *)
Empty(v) ==
  /\ step[v] = "emptying" /\ Forget /\ Go(v, "deleting")
  /\ UNCHANGED <<text, current>>

(* delete_dataset_from_index(), called by a script or a discoverer.         *)
Delete(d) ==
  /\ step[d] = "new" /\ Go(d, "deleting")
  /\ \/ /\ sketches' = [c \in Columns |-> IF c \in Indexed THEN None ELSE sketches[c]]
        /\ Excuse(Overlap(d))
     \/ Indexed # {} /\ sketches' = sketches /\ Excuse(Overlap(d) \cup {"refused"})
  /\ UNCHANGED <<text, current>>
DeleteIndex(p) ==
  /\ step[p] = "deleting" /\ Go(p, "done") /\ current' = None
  /\ UNCHANGED <<text, sketches, excuses>>

Next ==
  \/ \E v \in Versions :
       \/ Profile(v) \/ DeleteFirst(v) \/ IndexDataPath(v) \/ Raise(v) \/ Nack(v)
       \/ Rewrite(v) \/ Fail(v) \/ Empty(v)
  \/ \E d \in Deleters : Delete(d)
  \/ \E p \in Procs : DeleteIndex(p)

Spec == Init /\ [][Next]_sketchVars

-----------------------------------------------------------------------------
SketchTypeOK ==
  /\ text \in [Versions -> SUBSET Columns]
  /\ step \in [Procs -> Busy \cup {"new", "done"}]
  /\ sketches \in [Columns -> Versions \cup {None}]
  /\ current \in Versions \cup {None}
  /\ excuses \subseteq {"overlap", "refused", "failed", "no text"}

Quiet == \A p \in Procs : step[p] \notin Busy

(* Once a dataset is processed, the search finds each of its textual        *)
(* columns by the sketch of the version that is indexed, unless a newer     *)
(* version failed after its sketches were made, or two processings of it    *)
(* overlapped.  And Lazo has no other sketches of it, unless moreover Lazo  *)
(* refused to remove them, or a version with text was followed by one       *)
(* without: then nobody removes them any more.                              *)
Findable ==
  Quiet /\ excuses \cap {"overlap", "failed"} = {} =>
    \A c \in Indexed : sketches[c] = current
Tidy ==
  Quiet /\ excuses = {} => \A c \in Columns : sketches[c] # None => c \in Indexed
SketchesMatch == Findable /\ Tidy
=============================================================================
