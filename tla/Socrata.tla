------------------------------- MODULE Socrata -------------------------------
(***************************************************************************)
(* The synchronisation of the index with Socrata portals: discovery/       *)
(* socrata/socrata_discovery.py.  A dataset of a portal has a version, the *)
(* time of its last update.  Profiling is what Indexing models, in one     *)
(* step: a dataset ends in 'datamart', in 'pending' with an error, or, when *)
(* it is too big, in neither.                                              *)
(***************************************************************************)
EXTENDS Naturals, Sequences

CONSTANTS
  Datasets,
  Domain,      \* the domain of each dataset
  Domains,     \* the domains, in the order of the configuration
  MaxEvents    \* bound on updates of the portals and on faults

VARIABLES
  portal,    \* version of each dataset in its portal, 0 when it is not there
  datamart,  \* version that 'datamart' has, 0 when it has none
  pending,   \* the same for 'pending'
  queue,     \* discovered datasets that wait to be profiled, with their version
  turn,      \* the domain the main loop has come to: index in Domains
  phase,     \* of process_domain(): "list", "process", "delete"
  listing,   \* what the portal answered
  todo,      \* datasets to process; hits to look at
  seen,
  bigSets,   \* history: datasets that were too big when they were last profiled
  portalEvents

socrataVars ==
  <<portal, datamart, pending, queue, turn, phase, listing, todo, seen, bigSets, portalEvents>>
worker == <<turn, phase, listing, todo, seen>>

Versions == 0..(MaxEvents + 1)
None == [d \in Datasets |-> 0]
Here == {d \in Datasets : Domain[d] = Domains[turn]}

Init ==
  /\ portal \in [Datasets -> {0, 1}] /\ datamart = None /\ pending = None /\ queue = {}
  /\ turn = 1 /\ phase = "list" /\ listing = None /\ todo = {} /\ seen = {}
  /\ bigSets = {} /\ portalEvents = 0

Event == portalEvents < MaxEvents /\ portalEvents' = portalEvents + 1

-----------------------------------------------------------------------------
(* A portal publishes, updates or removes a dataset.                        *)
Portal(d) ==
  /\ Event
  /\ \E v \in {0, portalEvents + 2} : v # portal[d] /\ portal' = [portal EXCEPT ![d] = v]
  /\ UNCHANGED <<datamart, pending, queue, worker, bigSets>>

(* The profiler: delete_dataset_from_index(), then one index or the other.  *)
(* A dataset that cannot be read is not deleted; one that is too big loses  *)
(* its record in 'pending' as soon as that is written.                      *)
Profile(d, v) ==
  /\ <<d, v>> \in queue /\ queue' = queue \ {<<d, v>>}
  /\ \/ /\ datamart' = [datamart EXCEPT ![d] = v] /\ pending' = [pending EXCEPT ![d] = 0]
        /\ bigSets' = bigSets \ {d} /\ UNCHANGED portalEvents
     \/ /\ datamart' \in {datamart, [datamart EXCEPT ![d] = 0]} /\ pending' = [pending EXCEPT ![d] = v]
        /\ bigSets' = bigSets \ {d} /\ Event
     \/ /\ datamart' = [datamart EXCEPT ![d] = 0] /\ pending' = [pending EXCEPT ![d] = 0]
        /\ bigSets' = bigSets \cup {d} /\ UNCHANGED portalEvents
  /\ UNCHANGED <<portal, worker>>

-----------------------------------------------------------------------------
(* main_loop(): on to the next domain.                                      *)
Proceed ==
  /\ turn' = (IF turn = Len(Domains) THEN 1 ELSE turn + 1) /\ phase' = "list"
  /\ listing' = None /\ seen' = {} /\ todo' = {}

(* process_domain(): an empty answer is not trusted.                        *)
List ==
  /\ phase = "list"
  /\ IF \A d \in Here : portal[d] = 0
     THEN Proceed
     ELSE /\ listing' = [d \in Datasets |-> IF d \in Here THEN portal[d] ELSE 0]
          /\ todo' = {d \in Here : portal[d] > 0}
          /\ phase' = "process" /\ UNCHANGED <<turn, seen>>
  /\ UNCHANGED <<portal, datamart, pending, queue, bigSets, portalEvents>>

(* 'pending' is looked at first; a version that failed is not retried.      *)
Known(d) == IF pending[d] > 0 THEN pending[d] ELSE datamart[d]

(* process_dataset().  An exception leaves the dataset out of `seen`.       *)
Process(d) ==
  /\ phase = "process" /\ d \in todo /\ todo' = todo \ {d}
  /\ \/ /\ seen' = seen \cup {d}
        /\ queue' = (IF listing[d] <= Known(d) THEN queue ELSE queue \cup {<<d, listing[d]>>})
        /\ UNCHANGED portalEvents
     \/ Event /\ UNCHANGED <<seen, queue>>
  /\ UNCHANGED <<portal, datamart, pending, turn, phase, listing, bigSets>>

(* "Clean up the datasets we didn't see": the scan of 'datamart' for this   *)
(* domain is a snapshot.  'pending' is not scanned.                         *)
Scan ==
  /\ phase = "process" /\ todo = {}
  /\ phase' = "delete"
  /\ todo' = {d \in Here \ seen : datamart[d] > 0}
  /\ UNCHANGED <<portal, datamart, pending, queue, turn, listing, seen, bigSets, portalEvents>>

(* delete_dataset(), which takes the record out of 'pending' as well.       *)
Delete(d) ==
  /\ phase = "delete" /\ d \in todo /\ todo' = todo \ {d}
  /\ datamart' = [datamart EXCEPT ![d] = 0] /\ pending' = [pending EXCEPT ![d] = 0]
  /\ UNCHANGED <<portal, queue, turn, phase, listing, seen, bigSets, portalEvents>>

Finish ==
  /\ phase = "delete" /\ todo = {}
  /\ Proceed
  /\ UNCHANGED <<portal, datamart, pending, queue, bigSets, portalEvents>>

(* An exception in process_domain() is caught by main_loop().               *)
Abort ==
  /\ Event /\ Proceed
  /\ UNCHANGED <<portal, datamart, pending, queue, bigSets>>

Sweep == List \/ Scan \/ Finish \/ \E d \in Datasets : Process(d) \/ Delete(d)
Next ==
  \/ Sweep \/ Abort
  \/ \E d \in Datasets : Portal(d) \/ \E v \in Versions : Profile(d, v)

Spec == Init /\ [][Next]_socrataVars

-----------------------------------------------------------------------------
SocrataTypeOK ==
  /\ portal \in [Datasets -> Versions] /\ datamart \in [Datasets -> Versions]
  /\ pending \in [Datasets -> Versions] /\ queue \subseteq Datasets \X Versions
  /\ turn \in DOMAIN Domains /\ phase \in {"list", "process", "delete"}
  /\ listing \in [Datasets -> Versions] /\ todo \subseteq Datasets /\ seen \subseteq Datasets
  /\ bigSets \subseteq Datasets
  /\ portalEvents \in 0..MaxEvents

(* When the portals no longer change and nothing fails any more, 'datamart' *)
(* or, after an error, 'pending' has each dataset in its current version,   *)
(* and 'datamart' has none that is gone: whatever was deleted by mistake,   *)
(* indexed late, or out of order, is made up for.  A dataset that is too    *)
(* big is in neither, and published again on each sweep; a portal that has  *)
(* lost all its datasets keeps them.                                        *)
Mirrors == <>[](\A d \in Datasets :
  /\ portal[d] > 0 => Known(d) = portal[d] \/ d \in bigSets
  /\ portal[d] = 0 /\ (\E e \in Datasets : Domain[e] = Domain[d] /\ portal[e] > 0)
       => datamart[d] = 0)
=============================================================================
