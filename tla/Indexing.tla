------------------------------ MODULE Indexing ------------------------------
(***************************************************************************)
(* The life of one dataset id between the profiling queue and the index.   *)
(*                                                                         *)
(* Uploads (apiserver/upload.py), discoverers and scripts publish messages *)
(* on the 'profile' queue; profilers (profiler/profiler.py) download and   *)
(* profile the dataset in a thread, then a coroutine on the profiler's     *)
(* event loop rewrites the dataset's documents in Elasticsearch with       *)
(* delete_dataset_from_index() and add_dataset_to_index() of               *)
(* datamart_core/common.py, which discoverers and scripts call as well to  *)
(* delete a dataset.  A step is one call to Elasticsearch, Lazo or         *)
(* RabbitMQ.  Datasets share nothing but the queue and the profilers, so   *)
(* one dataset id is modelled.                                             *)
(***************************************************************************)
EXTENDS Naturals, FiniteSets

CONSTANTS
  Messages,     \* what is published on the profile queue for this dataset
  Uploads,      \* the messages that come from the upload endpoint
  Profilers,    \* profiler processes
  Deleters,     \* processes that delete the dataset, once each
  Prefetch,     \* MAX_CONCURRENT_DOWNLOAD
  Outcomes,     \* what profiling may come to, among AllOutcomes
  MayReject,    \* whether Elasticsearch may refuse a document (RequestError)
  Lag,          \* whether new documents are searchable only after a refresh
  MaxFaults,    \* bound on crashes and transport errors
  None          \* no document, no process

AllOutcomes == {"rows", "empty", "tooBig", "error"}

ASSUME SetsAssumption ==
  /\ Uploads \subseteq Messages      \* an upload has an id of its own
  /\ \A m, n \in Uploads : m = n
  /\ Messages \cap Deleters = {}
  /\ None \notin Messages \cup Profilers
ASSUME BoundsAssumption ==
  Prefetch \in Nat /\ MaxFaults \in Nat /\ None \notin Nat
ASSUME ModesAssumption ==
  Outcomes \subseteq AllOutcomes /\ MayReject \in BOOLEAN /\ Lag \in BOOLEAN

Procs == Messages \cup Deleters
Indices == {"columns", "spatial"}

VARIABLES
  main,         \* the attempt whose document is in 'datamart', or None
  sup,          \* the attempts with documents in each supplementary index
  hidden,       \* those of them that are not searchable yet
  pending,      \* the status in the 'pending' index, or "none"
  sketch,       \* the attempt whose columns Lazo has, or None
  pc,           \* where each message, or each deleter, is
  owner,        \* the profiler that has a message, or None
  attempt,      \* the number of the latest delivery of each message
  attempts,     \* how many deliveries there were
  outcome,      \* how the thread of a message ended
  acked,        \* the messages that were acknowledged
  failed,       \* the messages copied to the 'failed_profile' queue
  announced,    \* the attempts published on the 'datasets' exchange
  loop,         \* the message whose coroutine runs on each profiler, or None
  faults,       \* how many crashes and transport errors there were
  interrupted,  \* history: a rewrite or deletion was cut short for good
  overlapped,   \* history: two processes were rewriting at once
  missed,       \* history: a deletion could not find documents that were not
                \* searchable yet
  overtaken,    \* history: a coroutine came back from its publication to drop
                \* the record of a dataset that another had taken out meanwhile
  lost          \* history: the messages whose error could not be recorded

index == <<main, sup, hidden, pending, sketch>>
delivery == <<owner, attempt, attempts>>
vars == <<main, sup, hidden, pending, sketch, pc, owner, attempt, attempts,
          outcome, acked, failed, announced, loop, faults, interrupted, overlapped,
          missed, overtaken, lost>>

InThread == {"downloading", "profiling", "inserting"}
Deleting == {"delColumns", "delSpatial"}
Rewriting == Deleting \cup {"delMain", "addMain", "addColumns", "addSpatial"}
EsCalls == Rewriting \cup {"delLazo", "delPending", "dropPending", "noteEmpty",
                           "noteTooBig", "noteError"}
Labels == InThread \cup EsCalls \cup
  {"new", "recorded", "ready", "finished", "announce", "moveToFailed",
   "ackFailed", "resume", "ack", "end"}

Goto(p, label) == pc' = [pc EXCEPT ![p] = label]

-----------------------------------------------------------------------------
(* Publishing: upload.py, and record_dataset(), reprocess.py, import_all.py *)

(* es.index('pending', status='queued')                                     *)
Record(m) ==
  /\ m \in Uploads /\ pc[m] = "new"
  /\ pending' = "queued"
  /\ Goto(m, "recorded")
  /\ UNCHANGED <<main, sup, hidden, sketch, delivery, outcome, acked, failed,
                 announced, loop, faults, interrupted>>

(* Nobody but reprocess.py, which reads 'datamart', publishes the id of an  *)
(* upload again.                                                            *)
Publish(m) ==
  /\ pc[m] = IF m \in Uploads THEN "recorded" ELSE "new"
  /\ m \notin Uploads /\ Uploads # {} => main # None
  /\ Goto(m, "ready")
  /\ UNCHANGED <<index, delivery, outcome, acked, failed, announced, loop,
                 faults, interrupted>>

(* The apiserver dies between the two.                                      *)
UploadDies(m) ==
  /\ faults < MaxFaults /\ pc[m] = "recorded"
  /\ faults' = faults + 1
  /\ Goto(m, "end")
  /\ UNCHANGED <<index, delivery, outcome, acked, failed, announced, loop, interrupted>>

-----------------------------------------------------------------------------
(* A profiler's threads: materialize_and_process_dataset()                  *)

Has(f) == {m \in Messages : owner[m] = f}
Deliver(m, f) ==
  /\ pc[m] = "ready"
  /\ Cardinality(Has(f) \ acked) < Prefetch
  /\ owner' = [owner EXCEPT ![m] = f]
  /\ attempts' = attempts + 1
  /\ attempt' = [attempt EXCEPT ![m] = attempts + 1]
  /\ Goto(m, "downloading")
  /\ UNCHANGED <<index, outcome, acked, failed, announced, loop, faults, interrupted>>

Finish(m, result) ==
  /\ outcome' = [outcome EXCEPT ![m] = result]
  /\ Goto(m, "finished")

(* get_dataset() and the conversion to CSV                                  *)
DownloadFails(m) ==
  /\ pc[m] = "downloading"
  /\ \E o \in Outcomes \cap {"tooBig", "error"} : Finish(m, o)
  /\ UNCHANGED <<index, delivery, acked, failed, announced, loop, faults, interrupted>>

(* Mutant: a dataset is profiled once the others were processed.            *)
StartProfileAlone(m) ==
  /\ pc[m] = "downloading"
  /\ Has(owner[m]) = {m}
  /\ Goto(m, "profiling")
  /\ UNCHANGED <<index, delivery, outcome, acked, failed, announced, loop,
                 faults, interrupted>>

(* profile_semaphore: one dataset at a time in process_dataset().           *)
StartProfile(m) ==
  /\ pc[m] = "downloading"
  /\ \A n \in Has(owner[m]) : pc[n] \notin {"profiling", "inserting"}
  /\ Goto(m, "profiling")
  /\ UNCHANGED <<index, delivery, outcome, acked, failed, announced, loop,
                 faults, interrupted>>

ProfileStops(m) ==
  /\ pc[m] = "profiling"
  /\ \E o \in Outcomes \cap {"empty", "error"} : Finish(m, o)
  /\ UNCHANGED <<index, delivery, acked, failed, announced, loop, faults, interrupted>>

(* delete_dataset_from_lazo(): the columns to forget come from the index.   *)
ForgetSketch ==
  sketch' = IF sup["columns"] \ hidden["columns"] # {} THEN None ELSE sketch

(* LazoDeleteFirst deletes before the first index_data_path().              *)
ReplaceSketch(m) ==
  /\ pc[m] = "profiling"
  /\ ForgetSketch
  /\ Goto(m, "inserting")
  /\ UNCHANGED <<main, sup, hidden, pending, delivery, outcome, acked, failed,
                 announced, loop, faults, interrupted>>

InsertSketch(m) ==
  /\ pc[m] = "inserting"
  /\ sketch' = attempt[m]
  /\ \E o \in Outcomes \cap {"rows", "error"} : Finish(m, o)
  /\ UNCHANGED <<main, sup, hidden, pending, delivery, acked, failed, announced,
                 loop, faults, interrupted>>

-----------------------------------------------------------------------------
(* process_dataset_callback(): coro() runs on the profiler's event loop,    *)
(* which it leaves only to wait for a publication.                          *)

(* Mutant: coroutines do not wait for each other.                           *)
EnterAnyway(m) == loop' = [loop EXCEPT ![owner[m]] = m]
Enter(m) ==
  /\ loop[owner[m]] = None
  /\ loop' = [loop EXCEPT ![owner[m]] = m]
LeaveLoop(m) == loop' = [loop EXCEPT ![owner[m]] = None]

(* Mutant: a dataset without rows is only acknowledged.                     *)
StartCoroIfRows(m) ==
  /\ pc[m] = "finished"
  /\ Enter(m)
  /\ Goto(m, IF outcome[m] = "rows" THEN "delPending" ELSE "ack")
  /\ UNCHANGED <<index, delivery, outcome, acked, failed, announced, faults, interrupted>>

StartCoro(m) ==
  /\ pc[m] = "finished"
  /\ Enter(m)
  /\ Goto(m, CASE outcome[m] = "rows" -> "delPending"
               [] outcome[m] = "empty" -> "delLazo"
               [] outcome[m] = "tooBig" -> "noteTooBig"
               [] outcome[m] = "error" -> "moveToFailed")
  /\ acked' = IF outcome[m] = "tooBig" THEN acked \cup {m} ELSE acked
  /\ UNCHANGED <<index, delivery, outcome, failed, announced, faults, interrupted>>

(* Where delete_dataset_from_index() returns to.                            *)
AfterDelete(p) ==
  IF p \in Deleters \/ outcome[p] = "tooBig" THEN "end"
  ELSE IF outcome[p] = "rows" THEN "addMain" ELSE "noteEmpty"

(* A coroutine that ends, or that failed, gives the event loop back.        *)
GotoOrEnd(p, label) ==
  /\ Goto(p, label)
  /\ IF label = "end" /\ p \in Messages
     THEN LeaveLoop(p) /\ owner' = [owner EXCEPT ![p] = None]
     ELSE UNCHANGED <<loop, owner>>
  /\ UNCHANGED <<attempt, attempts, outcome, failed, announced, faults, interrupted>>

DelLazo(p) ==
  /\ pc[p] = "delLazo"
  /\ ForgetSketch
  /\ GotoOrEnd(p, "delPending")
  /\ UNCHANGED <<main, sup, hidden, pending, acked>>

DelPending(p) ==
  /\ pc[p] = "delPending"
  /\ pending' = "none"
  /\ GotoOrEnd(p, "delMain")
  /\ UNCHANGED <<main, sup, hidden, sketch, acked>>

DelMain(p) ==
  /\ pc[p] = "delMain"
  /\ main' = None
  /\ GotoOrEnd(p, IF main = None THEN AfterDelete(p) ELSE "delColumns")
  /\ UNCHANGED <<sup, hidden, pending, sketch, acked>>

(* Mutant: the query does not match anything.                               *)
DeleteNothing(i) == UNCHANGED <<index, acked>>

(* delete_by_query() deletes what a search finds.                           *)
DeleteByQuery(i) ==
  /\ sup' = [sup EXCEPT ![i] = @ \cap hidden[i]]
  /\ UNCHANGED <<main, hidden, pending, sketch, acked>>

(* Mutant: 'datamart_spatial_coverage' is left out of the deletion.         *)
DelColumnsOnly(p) ==
  pc[p] = "delColumns" /\ DeleteByQuery("columns") /\ GotoOrEnd(p, AfterDelete(p))

DelSup(p) ==
  \/ pc[p] = "delColumns" /\ DeleteByQuery("columns") /\ GotoOrEnd(p, "delSpatial")
  \/ pc[p] = "delSpatial" /\ DeleteByQuery("spatial") /\ GotoOrEnd(p, AfterDelete(p))

AddMain(m) ==
  /\ pc[m] = "addMain"
  /\ main' = attempt[m]
  /\ GotoOrEnd(m, "addColumns")
  /\ UNCHANGED <<sup, hidden, pending, sketch, acked>>

IndexSup(m, i) ==
  /\ sup' = [sup EXCEPT ![i] = @ \cup {attempt[m]}]
  /\ hidden' = IF Lag THEN [hidden EXCEPT ![i] = @ \cup {attempt[m]}] ELSE hidden
  /\ UNCHANGED <<main, pending, sketch, acked>>

(* Mutant: 'datamart_spatial_coverage' is left out of the insertion.        *)
AddColumnsOnly(m) ==
  pc[m] = "addColumns" /\ IndexSup(m, "columns") /\ GotoOrEnd(m, "announce")

AddSup(m) ==
  \/ pc[m] = "addColumns" /\ IndexSup(m, "columns") /\ GotoOrEnd(m, "addSpatial")
  \/ pc[m] = "addSpatial" /\ IndexSup(m, "spatial") /\ GotoOrEnd(m, "announce")

(* await datasets_exchange.publish(): the other coroutines may run.         *)
Announce(m) ==
  /\ pc[m] = "announce"
  /\ announced' = announced \cup {attempt[m]}
  /\ LeaveLoop(m)
  /\ Goto(m, "resume")
  /\ UNCHANGED <<index, delivery, outcome, acked, failed, faults, interrupted>>

Resume(m) ==
  /\ pc[m] = "resume"
  /\ Enter(m)
  /\ Goto(m, IF outcome[m] = "rows" THEN "dropPending" ELSE "ackFailed")
  /\ UNCHANGED <<index, delivery, outcome, acked, failed, announced, faults, interrupted>>

DropPending(m) ==
  /\ pc[m] = "dropPending"
  /\ pending' = "none"
  /\ GotoOrEnd(m, "ack")
  /\ UNCHANGED <<main, sup, hidden, sketch, acked>>

(* es.index('pending', status='error')                                      *)
Note(m) ==
  /\ pending' = "error"
  /\ UNCHANGED <<main, sup, hidden, sketch, acked>>
  /\ \/ pc[m] = "noteEmpty" /\ GotoOrEnd(m, "ack")
     \/ pc[m] = "noteTooBig" /\ GotoOrEnd(m, "delLazo")
     \/ pc[m] = "noteError" /\ GotoOrEnd(m, "end")

(* Mutant: the error is not recorded in 'pending'.                          *)
AckOnly(m) ==
  /\ pc[m] \in {"ack", "ackFailed"}
  /\ GotoOrEnd(m, "end")
  /\ acked' = acked \cup {m}
  /\ UNCHANGED index

(* message.ack()                                                            *)
Ack(m) ==
  /\ \/ pc[m] = "ack" /\ GotoOrEnd(m, "end")
     \/ pc[m] = "ackFailed" /\ GotoOrEnd(m, "noteError")
  /\ acked' = acked \cup {m}
  /\ UNCHANGED index

(* await default_exchange.publish(failed_queue)                             *)
MoveToFailed(m) ==
  /\ pc[m] = "moveToFailed"
  /\ failed' = failed \cup {m}
  /\ LeaveLoop(m)
  /\ Goto(m, "resume")
  /\ UNCHANGED <<index, delivery, outcome, acked, announced, faults, interrupted>>

(* Mutant: a RequestError is not treated as a failure of profiling.         *)
RejectApart(m) ==
  /\ MayReject /\ pc[m] \in {"addMain", "addColumns", "addSpatial"}
  /\ outcome' = [outcome EXCEPT ![m] = "rejected"]
  /\ Goto(m, "moveToFailed")
  /\ UNCHANGED <<index, delivery, acked, failed, announced, loop, faults, interrupted>>

(* Elasticsearch refuses the document (RequestError): as an error.          *)
Reject(m) ==
  /\ MayReject /\ pc[m] \in {"addMain", "addColumns", "addSpatial"}
  /\ outcome' = [outcome EXCEPT ![m] = "error"]
  /\ Goto(m, "moveToFailed")
  /\ UNCHANGED <<index, delivery, acked, failed, announced, loop, faults, interrupted>>

-----------------------------------------------------------------------------
(* Discoverer.delete_dataset(), delete_dataset.py, purge_source.py          *)
StartDelete(d) ==
  /\ d \in Deleters /\ pc[d] = "new"
  /\ Goto(d, "delLazo")
  /\ UNCHANGED <<index, delivery, outcome, acked, failed, announced, loop,
                 faults, interrupted>>

-----------------------------------------------------------------------------
(* Faults                                                                   *)

(* What is left to delete is not found again once 'datamart' has no document*)
CutShort(S) == interrupted' = (interrupted \/ \E p \in S : pc[p] \in Deleting)

(* The messages of S go back to the queue, those already acked are gone.    *)
Requeue(S) ==
  /\ pc' = [p \in Procs |-> IF p \notin S THEN pc[p]
                            ELSE IF p \in acked \cup Deleters THEN "end" ELSE "ready"]
  /\ owner' = [m \in Messages |-> IF m \in S THEN None ELSE owner[m]]
  /\ CutShort(S)

(* A call to Elasticsearch raises TransportError: message.nack().  A        *)
(* discoverer or a script just logs it.                                     *)
EsFails(p) ==
  /\ faults < MaxFaults /\ pc[p] \in EsCalls \cup {"profiling"}
  /\ faults' = faults + 1
  /\ Requeue({p})
  /\ IF p \in Messages /\ pc[p] # "profiling" THEN LeaveLoop(p) ELSE UNCHANGED loop
  /\ UNCHANGED <<index, attempt, attempts, outcome, acked, failed, announced>>

(* A profiler is killed: RabbitMQ requeues what it did not acknowledge.     *)
ProfilerDies(f) ==
  /\ faults < MaxFaults /\ Has(f) # {}
  /\ faults' = faults + 1
  /\ Requeue(Has(f))
  /\ loop' = [loop EXCEPT ![f] = None]
  /\ UNCHANGED <<index, attempt, attempts, outcome, acked, failed, announced>>

(* Elasticsearch makes what was indexed searchable, every second.           *)
Refresh ==
  /\ \E i \in Indices : hidden[i] # {}
  /\ hidden' = [i \in Indices |-> {}]
  /\ UNCHANGED <<main, sup, pending, sketch, pc, delivery, outcome, acked,
                 failed, announced, loop, faults, interrupted>>

-----------------------------------------------------------------------------
Init ==
  /\ main = None /\ sketch = None /\ pending = "none"
  /\ sup = [i \in Indices |-> {}] /\ hidden = [i \in Indices |-> {}]
  /\ pc = [p \in Procs |-> "new"]
  /\ owner = [m \in Messages |-> None]
  /\ attempt = [m \in Messages |-> 0] /\ attempts = 0
  /\ outcome = [m \in Messages |-> "rows"]
  /\ acked = {} /\ failed = {} /\ announced = {}
  /\ loop = [f \in Profilers |-> None]
  /\ faults = 0
  /\ interrupted = FALSE /\ overlapped = FALSE /\ missed = FALSE
  /\ overtaken = FALSE /\ lost = {}

Thread(m) ==
  DownloadFails(m) \/ StartProfile(m) \/ ProfileStops(m) \/ ReplaceSketch(m) \/ InsertSketch(m)
Delete(p) == DelLazo(p) \/ DelPending(p) \/ DelMain(p) \/ DelSup(p)
Coro(m) ==
  \/ StartCoro(m) \/ AddMain(m) \/ AddSup(m) \/ Announce(m) \/ Resume(m)
  \/ DropPending(m) \/ Note(m) \/ Ack(m) \/ MoveToFailed(m)

(* What a running system does next about message m                          *)
Progress(m) ==
  Publish(m) \/ (\E f \in Profilers : Deliver(m, f)) \/ Thread(m) \/ Coro(m) \/ Delete(m)

Overlap == \E p, q \in Procs : p # q /\ pc[p] \in Rewriting /\ pc[q] \in Rewriting

Move ==
  \/ \E m \in Messages : Record(m) \/ Progress(m) \/ Reject(m) \/ UploadDies(m)
  \/ \E d \in Deleters : StartDelete(d) \/ Delete(d)
  \/ \E p \in Procs : EsFails(p)
  \/ \E f \in Profilers : ProfilerDies(f)
  \/ Refresh

(* What the histories remember of a step                                    *)
Missed(p, i) ==
  /\ pc[p] = (IF i = "columns" THEN "delColumns" ELSE "delSpatial") /\ pc'[p] # pc[p]
  /\ hidden[i] # {}
Overtaken(m) == pc[m] = "dropPending" /\ pc'[m] = "ack" /\ main = None
Lost(m) == pc[m] \in {"noteError", "noteTooBig"} /\ pc'[m] = "end" /\ pending' # "error"

History ==
  /\ overlapped' = (overlapped \/ Overlap')
  /\ missed' = (missed \/ \E p \in Procs, i \in Indices : Missed(p, i))
  /\ overtaken' = (overtaken \/ \E m \in Messages : Overtaken(m))
  /\ lost' = lost \cup {m \in Messages : Lost(m)}

Next == Move /\ History

Spec == Init /\ [][Next]_vars

(* RabbitMQ delivers what is ready, the threads and the event loops run, and*)
(* Elasticsearch refreshes.  Nobody has to publish, delete or fail, nor has *)
(* a download that waits for the semaphore.                                 *)
FairSpec ==
  /\ Spec
  /\ \A m \in Messages : WF_vars(pc[m] # "new" /\ Progress(m) /\ ~DownloadFails(m) /\ History)
  /\ WF_vars(Refresh /\ History)

-----------------------------------------------------------------------------
TypeOK ==
  /\ main \in Nat \cup {None} /\ sketch \in Nat \cup {None}
  /\ sup \in [Indices -> SUBSET Nat] /\ hidden \in [Indices -> SUBSET Nat]
  /\ pending \in {"none", "queued", "error"}
  /\ pc \in [Procs -> Labels]
  /\ owner \in [Messages -> Profilers \cup {None}]
  /\ attempt \in [Messages -> Nat] /\ attempts \in Nat
  /\ outcome \in [Messages -> AllOutcomes]
  /\ acked \subseteq Messages /\ failed \subseteq Messages
  /\ announced \subseteq Nat
  /\ loop \in [Profilers -> Messages \cup {None}]
  /\ faults \in 0 .. MaxFaults
  /\ interrupted \in BOOLEAN /\ overlapped \in BOOLEAN
  /\ missed \in BOOLEAN /\ overtaken \in BOOLEAN
  /\ lost \subseteq Messages

NobodyDeletes == \A p \in Procs : pc[p] \notin Deleting
Quiet == \A p \in Procs : pc[p] \in {"new", "end"}

(* delete_dataset_from_index() and add_dataset_to_index() are "safe": the   *)
(* supplementary indices only have documents of the dataset's current       *)
(* document, which is what the next deletion goes by.                       *)
NoOrphans ==
  NobodyDeletes => \A i \in Indices : sup[i] \subseteq {main} \ {None}

(* It takes two processes that rewrite the dataset at the same time, one    *)
(* that is stopped between its deletions, or one that deletes documents so  *)
(* soon that they are not searchable yet, to leave documents behind.        *)
OrphansExplained == ~overlapped /\ ~interrupted /\ ~missed => NoOrphans

(* One profiler never overlaps with itself, whatever it prefetches: its     *)
(* coroutines do not wait for anything between the deletion and the last    *)
(* insertion.                                                               *)
OneAtATime == ~overlapped

(* Once everything published was processed, without faults, a dataset is    *)
(* in all the indices or in none, whatever was rewritten and deleted; but   *)
(* nobody deletes again what Elasticsearch refused halfway.                 *)
Refused == \E m \in Messages : outcome[m] = "error" /\ attempt[m] = main
Settles ==
  Quiet /\ faults = 0 /\ ~overlapped /\ ~missed =>
    Refused \/ \A i \in Indices : sup[i] = {main} \ {None}

Removed == \E d \in Deleters : pc[d] # "new"
Processing == \A m \in acked : pc[m] # "end"

(* ... and a dataset that was processed is indexed, or 'pending' says what  *)
(* went wrong, whatever was delivered again, but for three ways to forget   *)
(* it: a dataset that is too big loses its record as soon as it is written  *)
(* (profiler.py:326, 339); a coroutine that was overtaken while it published*)
(* drops the record of another, which found the dataset empty (273, 307);   *)
(* and the record of an error comes after the acknowledgement, when nobody  *)
(* tries again (367, 369).                                                  *)
Accounted ==
  Quiet /\ ~Removed /\ ~Processing =>
    \/ main # None \/ pending = "error"
    \/ \E m \in Messages : pc[m] = "end" /\ outcome[m] = "tooBig"
    \/ overtaken \/ lost # {}

(* "Add a new alternate index "pending" for non-profiled datasets (uploaded *)
(* and waiting, or failed)": what is in no index is in that one.            *)
NotProfiledPending ==
  Quiet /\ ~Removed /\ ~Processing => main # None \/ pending # "none"

(* The result is published on the 'datasets' exchange while it is the       *)
(* indexed one.                                                             *)
AnnouncedIndexed ==
  [][\A a \in announced' \ announced : main' = a /\ \A i \in Indices : a \in sup'[i]]_vars

(* Every message is processed to its end, whatever faults it meets.         *)
Processed == \A m \in Messages : pc[m] = "ready" ~> pc[m] = "end"

(* An upload that was published does not stay "queued", whether it has rows,*)
(* is empty or too big, cannot be read or is refused, unless its record     *)
(* fails after its acknowledgement.                                         *)
Resolved == \A m \in Uploads : pc[m] = "ready" ~> pending # "queued" \/ m \in lost

-----------------------------------------------------------------------------
(* The inductive invariant behind OrphansExplained and OneAtATime.          *)

InCoro == EsCalls \cup {"announce", "moveToFailed", "ackFailed", "ack"}

(* A coroutine that is not waiting has the event loop of its profiler.      *)
LoopOwned ==
  \A m \in Messages :
    /\ pc[m] \in InThread \cup InCoro \cup {"finished", "resume"} => owner[m] \in Profilers
    /\ pc[m] \in InCoro => loop[owner[m]] = m

RewritesKeepUp ==
  /\ NoOrphans
  /\ \A p \in Procs : /\ pc[p] \in Deleting \cup {"addMain"} => main = None
                      /\ pc[p] = "delSpatial" => sup["columns"] = {}
  /\ \A m \in Messages : pc[m] \in {"addColumns", "addSpatial"} => main = attempt[m]

IInv ==
  /\ LoopOwned
  /\ ~overlapped => ~Overlap
  /\ ~overlapped /\ ~interrupted /\ ~missed => RewritesKeepUp

=============================================================================
