-------------------------------- MODULE Zenodo --------------------------------
(***************************************************************************)
(* The discovery of Zenodo records: discovery/zenodo/zenodo_discovery.py.  *)
(* Each supported file of a record is a dataset; a record is skipped when  *)
(* its first file is known already.                                        *)
(***************************************************************************)
EXTENDS Naturals, Sequences, SequencesExt

CONSTANTS
  Records,
  Files,      \* the files of each record, in order
  Supported,  \* files with one of the EXTENSIONS
  MaxEvents   \* bound on changes of the source and on failures

VARIABLES
  online,     \* records that Zenodo has
  known,      \* files with a document in 'datamart' or in 'pending'
  failed,     \* those of them that have none in 'datamart'
  published,  \* files in the profiling queue
  step,       \* "list", "records", "files", "delete"
  page,       \* records that get_datasets() has not come to
  record,     \* the one it processes
  position,   \* and the number of files of it that are done
  visited,    \* `seen`
  cut,        \* records whose publication was cut short, or that went offline
  bigFiles,   \* history: files that were too big when they were last profiled
  zenodoEvents

zenodoVars == <<online, known, failed, published, step, page, record, position,
                visited, cut, bigFiles, zenodoEvents>>
loopVars == <<step, page, record, position, visited>>

Of(r) == Range(Files[r]) \cap Supported
AllFiles == UNION {Range(Files[r]) : r \in Records}

Init ==
  /\ online = Records /\ known = {} /\ failed = {} /\ published = {}
  /\ step = "list" /\ page = {} /\ record \in Records /\ position = 0 /\ visited = {}
  /\ cut = {} /\ bigFiles = {} /\ zenodoEvents = 0

ZenodoEvent == zenodoEvents < MaxEvents /\ zenodoEvents' = zenodoEvents + 1

(* A record goes away, or comes back.                                       *)
Source(r) ==
  /\ ZenodoEvent
  /\ online' = (IF r \in online THEN online \ {r} ELSE online \cup {r})
  /\ cut' = cut \cup {r}
  /\ UNCHANGED <<known, failed, published, loopVars, bigFiles>>

(* The profiler, in one step: see Indexing.  A file that is too big loses   *)
(* its record in 'pending' as soon as that is written, and is in no index.  *)
Profile(f) ==
  /\ f \in published /\ published' = published \ {f}
  /\ \/ /\ known' = known \cup {f} /\ failed' \in {failed \cup {f}, failed \ {f}}
        /\ bigFiles' = bigFiles \ {f}
     \/ known' = known \ {f} /\ failed' = failed \ {f} /\ bigFiles' = bigFiles \cup {f}
  /\ UNCHANGED <<online, loopVars, cut, zenodoEvents>>

-----------------------------------------------------------------------------
(* get_datasets(): the pages of the answer, taken together.                 *)
List ==
  /\ step = "list" /\ step' = "records" /\ page' = online /\ visited' = {}
  /\ UNCHANGED <<online, known, failed, published, record, position, cut, bigFiles, zenodoEvents>>

Record(r) ==
  /\ step = "records" /\ r \in page /\ page' = page \ {r}
  /\ record' = r /\ position' = 0 /\ step' = "files"
  /\ UNCHANGED <<online, known, failed, published, visited, cut, bigFiles, zenodoEvents>>

NextRecord == step' = "records" /\ visited' = visited \cup {record} /\ position' = 0
NextFile == position' = position + 1 /\ UNCHANGED <<step, visited>>

(* Mutant: a file with another extension ends the record.                   *)
FileOrReturn ==
  /\ step = "files"
  /\ LET f == Files[record][position + 1]
         last == position = Len(Files[record])
     IN IF last \/ f \notin Supported \/ (position = 0 /\ f \in known)
        THEN NextRecord /\ UNCHANGED published
        ELSE NextFile /\ published' = published \cup {f}
  /\ UNCHANGED <<online, known, failed, page, record, cut, bigFiles, zenodoEvents>>

(* process_record(): one round of its loop, or its end.  The index of the   *)
(* first file is only looked at when that file is supported.                *)
Skipped == position = 0 /\ Files[record][1] \in Supported \cap known
File ==
  /\ step = "files"
  /\ IF position = Len(Files[record]) \/ Skipped
     THEN NextRecord /\ UNCHANGED published
     ELSE NextFile /\ published' = published \cup ({Files[record][position + 1]} \cap Supported)
  /\ UNCHANGED <<online, known, failed, page, record, cut, bigFiles, zenodoEvents>>

(* An exception in process_record() ends get_datasets(), cleanup included;  *)
(* a restart does the same.                                                 *)
Abort ==
  /\ step # "list" /\ ZenodoEvent
  /\ step' = "list" /\ page' = {} /\ position' = 0 /\ visited' = {}
  /\ cut' = (IF step = "files" THEN cut \cup {record} ELSE cut)
  /\ UNCHANGED <<online, known, failed, published, record, bigFiles>>

(* "Clean up the datasets we didn't see", from 'datamart' only.             *)
Cleanup ==
  /\ step = "records" /\ page = {} /\ step' = "delete"
  /\ UNCHANGED <<online, known, failed, published, page, record, position, visited, cut, bigFiles, zenodoEvents>>
Delete(f) ==
  /\ step = "delete" /\ f \in known \ failed
  /\ \A r \in visited : f \notin Of(r)
  /\ known' = known \ {f}
  /\ UNCHANGED <<online, failed, published, loopVars, cut, bigFiles, zenodoEvents>>
Sleep ==
  /\ step = "delete" /\ \A f \in known \ failed : \E r \in visited : f \in Of(r)
  /\ step' = "list" /\ visited' = {}
  /\ UNCHANGED <<online, known, failed, published, page, record, position, cut, bigFiles, zenodoEvents>>

Next ==
  \/ List \/ File \/ Abort \/ Cleanup \/ Sleep
  \/ \E r \in Records : Source(r) \/ Record(r)
  \/ \E f \in AllFiles : Profile(f) \/ Delete(f)

Spec == Init /\ [][Next]_zenodoVars

-----------------------------------------------------------------------------
ZenodoTypeOK ==
  /\ online \subseteq Records /\ known \subseteq AllFiles /\ failed \subseteq known
  /\ published \subseteq AllFiles /\ step \in {"list", "records", "files", "delete"}
  /\ page \subseteq Records /\ record \in Records /\ position \in Nat
  /\ visited \subseteq Records /\ cut \subseteq Records /\ bigFiles \subseteq AllFiles
  /\ zenodoEvents \in 0..MaxEvents

(* "If we have, assume we had already processed this whole record": once    *)
(* its first file is known, every file of a record is known or on its way,  *)
(* or is too big, unless the publication of the record was cut short; then  *)
(* the rest is never published.                                             *)
RecordsComplete ==
  \A r \in Records \ cut :
    /\ Files[r] # <<>> /\ Files[r][1] \in known
    /\ ~(step = "files" /\ record = r)
    => Of(r) \subseteq known \cup published \cup bigFiles
=============================================================================
