----------------------------- MODULE RelatedFile -----------------------------
(***************************************************************************)
(* The filter that takes a file to find related datasets for:              *)
(* RelatedFileFilter of frontend/src/components, with the state that       *)
(* SearchApp keeps for it.  Files are profiled by the server, that answers *)
(* in any order; the component compares each answer with its current       *)
(* query, and starts a query when it is rendered with a file it did not    *)
(* ask for.  It can be hidden, which forgets its state but not its queries.*)
(***************************************************************************)
EXTENDS Naturals, Sequences, FiniteSets

CONSTANTS Files, Columns, MaxQueries   \* Columns: those of each file

VARIABLES
  filter,        \* the state of the filter in SearchApp: [file, columns, edit] or NoFile
  shown,         \* whether the component is mounted
  queries,       \* the profiles asked for: [kind, related, status]
  profileQuery,  \* the current one, 0 if undefined
  queryFile,     \* profileQueryFile
  profiled,      \* the profile of the state: a file or NoFile
  selected,      \* selectedTabularVars, as a set of columns
  loading,       \* loadingState
  rendered,      \* whether the page was rendered while a file was profiled
  dropRefused    \* whether the last drop had no file that is accepted

fileVars ==
  <<filter, shown, queries, profileQuery, queryFile, profiled, selected, loading, rendered,
    dropRefused>>

NoFile == [file |-> "none"]
Undefined == {"undefined"}

Init ==
  /\ filter = NoFile /\ shown = TRUE /\ queries = <<>> /\ profileQuery = 0 /\ queryFile = NoFile
  /\ profiled = "none" /\ selected = Undefined /\ loading = "undefined" /\ rendered = FALSE
  /\ dropRefused = FALSE

Ask(kind, related) == Append(queries, [kind |-> kind, related |-> related, status |-> "pending"])
CanAsk == Len(queries) < MaxQueries

(* componentDidUpdate() with a file in the filter: getProfile() of the file *)
(* if it is not the one that was asked for.                                 *)
DidUpdate(related) ==
  IF related = queryFile THEN UNCHANGED <<queries, profileQuery, queryFile>>
  ELSE /\ CanAsk /\ queries' = Ask("get", related)
       /\ profileQuery' = Len(queries') /\ queryFile' = related

(* handleSelectedFile(), from the drop zone.                                *)
HandleSelectedFile(f) ==
  /\ shown /\ filter = NoFile /\ loading \in {"undefined", "success"} /\ CanAsk
  /\ loading' = "progress" /\ rendered' = FALSE /\ dropRefused' = FALSE
  /\ queries' = Ask("drop", [file |-> f, columns |-> Columns[f], edit |-> 0])
  /\ profileQuery' = Len(queries')
  /\ UNCHANGED <<filter, shown, queryFile, profiled, selected>>

(* A drop of nothing but files that are not accepted.                       *)
RejectFile ==
  /\ shown /\ filter = NoFile /\ loading \in {"undefined", "success"}
  /\ loading' = "error" /\ profileQuery' = 0 /\ dropRefused' = TRUE
  /\ UNCHANGED <<filter, shown, queries, queryFile, profiled, selected, rendered>>

(* SearchApp is rendered, because another filter or the keywords changed:   *)
(* the component has new functions as properties, and is updated.  Without  *)
(* a file in the filter it has no current query any more.                   *)
RenderedAgain ==
  /\ shown /\ filter = NoFile
  /\ profileQuery' = 0 /\ rendered' = TRUE
  /\ UNCHANGED <<filter, shown, queries, queryFile, profiled, selected, loading, dropRefused>>

Answered(n, status) == [queries EXCEPT ![n].status = status]

(* The answer for a file that was dropped.  It is given to SearchApp, that  *)
(* renders the component with it.                                           *)
DropProfiled(n) ==
  /\ shown /\ queries[n].kind = "drop" /\ queries[n].status = "pending"
  /\ queries' = Answered(n, "answered")
  /\ IF profileQuery = n
     THEN /\ filter' = queries[n].related /\ queryFile' = queries[n].related
          /\ profiled' = queries[n].related.file /\ selected' = queries[n].related.columns
          /\ loading' = "success" /\ profileQuery' = 0
     ELSE loading' = "error" /\ UNCHANGED <<filter, profileQuery, queryFile, profiled, selected>>
  /\ UNCHANGED <<shown, rendered, dropRefused>>
DropFails(n) ==
  /\ queries[n].kind = "drop" /\ queries[n].status = "pending"
  /\ queries' = Answered(n, "failed") /\ loading' = "error"
  /\ UNCHANGED <<filter, shown, profileQuery, queryFile, profiled, selected, rendered, dropRefused>>

(* Mutant: an answer is not compared with the current query.                *)
GetProfiledLate(n) ==
  /\ queries[n].kind = "get" /\ queries[n].status = "pending"
  /\ queries' = Answered(n, "answered")
  /\ profiled' = queries[n].related.file /\ selected' = queries[n].related.columns
  /\ UNCHANGED <<filter, shown, profileQuery, queryFile, loading, rendered, dropRefused>>
(* The answer to getProfile(); nothing handles a failure.                   *)
GetProfiled(n) ==
  /\ queries[n].kind = "get" /\ queries[n].status = "pending"
  /\ queries' = Answered(n, "answered")
  /\ IF profileQuery = n
     THEN profiled' = queries[n].related.file /\ selected' = queries[n].related.columns
     ELSE UNCHANGED <<profiled, selected>>
  /\ UNCHANGED <<filter, shown, profileQuery, queryFile, loading, rendered, dropRefused>>
GetFails(n) ==
  /\ queries[n].kind = "get" /\ queries[n].status = "pending"
  /\ queries' = Answered(n, "failed")
  /\ UNCHANGED <<filter, shown, profileQuery, queryFile, profiled, selected, loading, rendered, dropRefused>>

(* The file was dropped before the component was hidden: nothing made its   *)
(* query obsolete, and SearchApp still knows the filter.                    *)
HiddenDropProfiled(n) ==
  /\ queries[n].kind = "hidden" /\ queries[n].status = "pending"
  /\ filter' = queries[n].related
  /\ IF shown
     THEN IF queryFile = queries[n].related
          THEN queries' = Answered(n, "answered") /\ UNCHANGED <<profileQuery, queryFile>>
          ELSE /\ CanAsk
               /\ queries' = Append(Answered(n, "answered"),
                               [kind |-> "get", related |-> queries[n].related, status |-> "pending"])
               /\ profileQuery' = Len(queries') /\ queryFile' = queries[n].related
     ELSE queries' = Answered(n, "answered") /\ UNCHANGED <<profileQuery, queryFile>>
  /\ UNCHANGED <<shown, profiled, selected, loading, rendered, dropRefused>>

(* updateSelectedFile(): the columns selected go with the file last asked   *)
(* for.  The property is another object each time, and is profiled again.   *)
Edit(columns) ==
  /\ shown /\ filter # NoFile /\ loading \in {"undefined", "success"}
  /\ profiled # "none" /\ selected # Undefined /\ queryFile # NoFile
  /\ columns \subseteq Columns[profiled] /\ columns # selected
  /\ LET related == [queryFile EXCEPT !.columns = columns, !.edit = filter.edit + 1] IN
     filter' = related /\ DidUpdate(related)
  /\ selected' = columns
  /\ UNCHANGED <<shown, profiled, loading, rendered, dropRefused>>

(* "Close" of the message of failure.                                       *)
Close ==
  /\ shown /\ loading = "error" /\ loading' = "undefined" /\ dropRefused' = FALSE
  /\ UNCHANGED <<filter, shown, queries, profileQuery, queryFile, profiled, selected, rendered>>

(* toggleFilter(): of the queries of a component that is not there any more *)
(* only a current one of a dropped file still has an effect.                *)
Hide ==
  /\ shown /\ shown' = FALSE
  /\ queries' = [n \in DOMAIN queries |->
                   IF queries[n].status = "pending" /\ queries[n].kind # "hidden"
                   THEN IF queries[n].kind = "drop" /\ profileQuery = n
                        THEN [queries[n] EXCEPT !.kind = "hidden"]
                        ELSE [queries[n] EXCEPT !.status = "forgotten"]
                   ELSE queries[n]]
  /\ profileQuery' = 0 /\ queryFile' = NoFile /\ profiled' = "none" /\ selected' = Undefined
  /\ loading' = "undefined" /\ rendered' = FALSE /\ dropRefused' = FALSE
  /\ UNCHANGED filter
(* The constructor.                                                         *)
Show ==
  /\ ~shown /\ shown' = TRUE
  /\ IF filter = NoFile THEN UNCHANGED <<queries, profileQuery, queryFile>> ELSE DidUpdate(filter)
  /\ UNCHANGED <<filter, profiled, selected, loading, rendered, dropRefused>>

(* A search makes new filters out of the URL, hidden.                       *)
Search(f) ==
  /\ filter' = IF f = "none" THEN NoFile ELSE [file |-> f, columns |-> Columns[f], edit |-> 0]
  /\ shown' = FALSE
  /\ queries' = [n \in DOMAIN queries |->
                   IF queries[n].status = "pending" THEN [queries[n] EXCEPT !.status = "forgotten"]
                   ELSE queries[n]]
  /\ profileQuery' = 0 /\ queryFile' = NoFile /\ profiled' = "none" /\ selected' = Undefined
  /\ loading' = "undefined" /\ rendered' = FALSE /\ dropRefused' = FALSE

Next ==
  \/ \E f \in Files : HandleSelectedFile(f)
  \/ \E f \in Files \cup {"none"} : Search(f)
  \/ RejectFile \/ RenderedAgain \/ Close \/ Hide \/ Show
  \/ \E n \in DOMAIN queries :
       \/ DropProfiled(n) \/ DropFails(n) \/ GetProfiled(n) \/ GetFails(n) \/ HiddenDropProfiled(n)
  \/ \E c \in UNION {SUBSET Columns[f] : f \in Files} : Edit(c)

-----------------------------------------------------------------------------
AllColumns == UNION {Columns[f] : f \in Files}
RelatedFiles == [file : Files, columns : SUBSET AllColumns, edit : Nat]
RelatedTypeOK ==
  /\ filter \in RelatedFiles \cup {NoFile} /\ queryFile \in RelatedFiles \cup {NoFile}
  /\ queries \in Seq([kind : {"drop", "get", "hidden"}, related : RelatedFiles,
                      status : {"pending", "answered", "failed", "forgotten"}])
  /\ profileQuery \in 0..Len(queries) /\ profiled \in Files \cup {"none"}
  /\ selected \in (SUBSET AllColumns) \cup {Undefined}
  /\ loading \in {"undefined", "progress", "success", "error"}
  /\ shown \in BOOLEAN /\ rendered \in BOOLEAN /\ dropRefused \in BOOLEAN

Pending(kind) == \E n \in DOMAIN queries : queries[n].kind = kind /\ queries[n].status = "pending"

(* Once every answer is there, the form shows the profile and the columns   *)
(* of the file that is searched with, unless a profile could not be had; an *)
(* error is shown only for files that are not accepted, for one whose       *)
(* profile failed, or whose answer was dropped because the page was         *)
(* rendered meanwhile, or replaced.                                         *)
FormsAgree ==
  /\ shown /\ filter # NoFile /\ ~Pending("get")
       => \/ profiled = filter.file /\ selected = filter.columns
          \/ \E n \in DOMAIN queries : queries[n].related = filter /\ queries[n].status = "failed"
  /\ loading = "error" =>
       \/ rendered \/ \E n \in DOMAIN queries : queries[n].kind = "drop" /\ queries[n].status = "failed"
       \/ dropRefused \/ \E n \in DOMAIN queries : queries[n].kind = "hidden"
(* The columns searched with are columns of the file, unless it was dropped *)
(* before the form was hidden, and came when the form had another file.     *)
ColumnsOfFile ==
  filter # NoFile /\ (\A n \in DOMAIN queries : queries[n].kind # "hidden")
    => filter.columns \subseteq Columns[filter.file]
=============================================================================
