------------------------------ MODULE Statistics ------------------------------
(***************************************************************************)
(* The list of recent discoveries of the coordinator (coordinator.py) and  *)
(* the copy an apiserver has of it (apiserver/base.py): messages update    *)
(* the list one dataset at a time, while a thread reads Elasticsearch and  *)
(* replaces it as a whole.                                                 *)
(***************************************************************************)
EXTENDS Naturals, Sequences, SequencesExt

CONSTANTS
  Datasets,
  Cap,        \* how many discoveries are listed: 15 in the code
  Attempts,   \* how often the creation of the indices is tried: 6 in the code
  MaxEvents   \* bound on profilings, deletions and faults

VARIABLES
  indexed,    \* the documents of 'datamart', most recent first
  announced,  \* messages of the 'datasets' exchange in the coordinator's queue
  recent,     \* recent_discoveries
  thread,     \* _update_statistics(): "idle", "read" or "failed"
  found,      \* the list it has read
  tries,      \* failed attempts to create the indices
  coordinator,\* "starting", "running" or "raised"
  copy,       \* recent_discoveries of the apiserver
  events

statVars == <<indexed, announced, recent, thread, found, tries, coordinator, copy, events>>

Lists == {s \in UNION {[1..n -> Datasets] : n \in 0..Cap} : IsInjective(s)}
Newest(s) == SubSeq(s, 1, IF Len(s) < Cap THEN Len(s) ELSE Cap)

Init ==
  /\ indexed = <<>> /\ announced = <<>> /\ recent = <<>> /\ copy = <<>>
  /\ thread = "idle" /\ found = <<>> /\ tries = 0 /\ coordinator = "starting" /\ events = 0

Event == events < MaxEvents /\ events' = events + 1

(* The constructor: create what is missing, or sleep and try again.         *)
CreateIndices ==
  /\ coordinator = "starting"
  /\ \/ coordinator' = "running" /\ UNCHANGED <<tries, events>>
     \/ /\ Event /\ tries' = tries + 1
        /\ coordinator' = IF tries' = Attempts THEN "raised" ELSE "starting"
  /\ UNCHANGED <<indexed, announced, recent, thread, found, copy>>

(* A profiler indexes a dataset and announces it.  The coordinator's queue  *)
(* is exclusive: it gets nothing before it is there.                        *)
Profiled(d) ==
  /\ Event
  /\ indexed' = <<d>> \o RemoveFirst(indexed, d)
  /\ announced' = IF coordinator = "running" THEN Append(announced, d) ELSE announced
  /\ UNCHANGED <<recent, thread, found, tries, coordinator, copy>>

Deleted(d) ==
  /\ Event /\ \E i \in DOMAIN indexed : indexed[i] = d
  /\ indexed' = RemoveFirst(indexed, d)
  /\ UNCHANGED <<announced, recent, thread, found, tries, coordinator, copy>>

(* Mutant: a dataset is inserted without a look at the list.                *)
ConsumeAlways ==
  /\ coordinator = "running" /\ announced # <<>>
  /\ recent' = Newest(<<Head(announced)>> \o recent)
  /\ announced' = Tail(announced)
  /\ UNCHANGED <<indexed, thread, found, tries, coordinator, copy, events>>

(* _consume_datasets(): a dataset that is listed stays in its place.        *)
Consume ==
  /\ coordinator = "running" /\ announced # <<>>
  /\ recent' = IF Head(announced) \in Range(recent) THEN recent
               ELSE Newest(<<Head(announced)>> \o recent)
  /\ announced' = Tail(announced)
  /\ UNCHANGED <<indexed, thread, found, tries, coordinator, copy, events>>

(* _update_statistics(), in a thread.  When only the first search fails, an *)
(* empty list is returned; when a later one fails, it raises.               *)
Read ==
  /\ coordinator = "running" /\ thread = "idle"
  /\ \/ thread' = "read" /\ found' = Newest(indexed) /\ UNCHANGED events
     \/ Event /\ thread' \in {"read", "failed"} /\ found' = <<>>
  /\ UNCHANGED <<indexed, announced, recent, tries, coordinator, copy>>

(* Mutant: what the thread has read is added to the list.                   *)
KeepOld ==
  /\ thread = "read" /\ thread' = "idle" /\ found' = <<>>
  /\ recent' = Newest(recent \o SelectSeq(found, LAMBDA d : d \notin Range(recent)))
  /\ UNCHANGED <<indexed, announced, tries, coordinator, copy, events>>

(* update_statistics(): back on the event loop.                             *)
Replace ==
  /\ thread = "read" /\ thread' = "idle" /\ found' = <<>>
  /\ recent' = found
  /\ UNCHANGED <<indexed, announced, tries, coordinator, copy, events>>

UpdateFails ==
  /\ thread = "failed" /\ thread' = "idle"
  /\ UNCHANGED <<indexed, announced, recent, found, tries, coordinator, copy, events>>

(* update_statistics() of the apiserver: on an error it keeps what it has.  *)
Fetch ==
  /\ coordinator = "running" /\ copy' = recent
  /\ UNCHANGED <<indexed, announced, recent, thread, found, tries, coordinator, events>>

Next ==
  \/ CreateIndices \/ Consume \/ Read \/ Replace \/ UpdateFails \/ Fetch
  \/ \E d \in Datasets : Profiled(d) \/ Deleted(d)

Spec == Init /\ [][Next]_statVars

-----------------------------------------------------------------------------
StatTypeOK ==
  /\ indexed \in Seq(Datasets) /\ IsInjective(indexed)
  /\ announced \in Seq(Datasets) /\ Len(announced) <= MaxEvents
  /\ recent \in Lists /\ copy \in Lists
  /\ thread \in {"idle", "read", "failed"} /\ found \in Lists
  /\ tries \in 0..Attempts /\ coordinator \in {"starting", "running", "raised"}
  /\ events \in 0..MaxEvents

(* Once nothing changes any more, what the apiserver shows is what the      *)
(* index has: a list that a thread replaced while a message came in, a      *)
(* dataset that was deleted and announced, or one that was read before the  *)
(* coordinator listened, are all made up for.                               *)
StatisticsCatchUp ==
  <>[](coordinator = "raised" \/ copy = Newest(indexed))
=============================================================================
