------------------------------- MODULE Services -------------------------------
(***************************************************************************)
(* The components that share no state, side by side: a behaviour is one of *)
(* the component that `focus` names, while the others stand still.         *)
(***************************************************************************)
EXTENDS Naturals, Sequences, FiniteSets, Functions, TLC

CONSTANTS
  Callers, Timeouts, MaxLockFaults,                     \* LockProcess
  Handlers, Graceful,                                   \* GracefulShutdown
  Listed, Cap, Attempts, MaxListEvents,                 \* Statistics
  Entries, CacheOf, Size, High, Low, Threads, MaxCreations,  \* Eviction
  Mirrored, Domain, Domains, MaxPortalEvents,           \* Socrata
  Records, Files, Supported, MaxZenodoEvents,           \* Zenodo
  Groups, MaxUazEvents,                                 \* UazIndicators
  Asking, Replicas, Concurrent, MaxQueryFaults,         \* DiscoveryQueries
  TextColumns, TextVersions, Deleters,                  \* Sketches
  Servers, Contents, Csv, Formats, MaxRequests, MaxDrops,  \* UserData
  Searches, FileOf, Found, NoData, HasSession, MaxSearches,  \* SearchPage
  LocalFiles, ColumnsOf, MaxFileQueries,                \* RelatedFile
  MaxProfiles                                           \* UploadForm

(* A file belongs to one record: its identifier starts with the record's.   *)
ASSUME FilesAssumption ==
  /\ \A r \in Records : Files[r] \in Seq(Range(Files[r]))
  /\ \A r, s \in Records : r # s => Range(Files[r]) \cap Range(Files[s]) = {}
(* A directory has finitely many entries; their sizes are bytes.            *)
ASSUME EvictionAssumption ==
  IsFiniteSet(Entries) /\ Size \in [Entries -> Nat] /\ Low \in Nat /\ MaxCreations \in Nat
(* Lists have a length; every attempt but the last is followed by another;  *)
(* some domain is configured.                                               *)
ASSUME BoundsAssumption ==
  /\ Cap \in Nat /\ Concurrent \in Nat /\ MaxListEvents \in Nat /\ MaxPortalEvents \in Nat
  /\ MaxZenodoEvents \in Nat /\ MaxUazEvents \in Nat /\ MaxQueryFaults \in Nat
  /\ Attempts \in Nat \ {0} /\ Domains \in Seq(Range(Domains)) /\ Domains # <<>>
ASSUME VersionsAssumption == "none" \notin TextVersions
(* A dataset is named by its identifier, a file by its contents.            *)
ASSUME ContentsAssumption ==
  /\ Csv \in [Contents -> Contents] /\ "dataset" \notin Contents /\ MaxRequests \in Nat /\ MaxDrops \in Nat
(* The hits of a search are a list; only for a file there is what to join   *)
(* or append to it.  No file has the name that stands for there being none. *)
ASSUME PagesAssumption ==
  /\ \A q \in Searches : /\ Found[q] \in Seq(Range(Found[q]))
                         /\ FileOf[q] = NoData => \A hit \in Range(Found[q]) : hit.type = "none"
  /\ "none" \notin LocalFiles

VARIABLES
  focus,
  call, parent, child, answer, unlock, flock, exists, raised, faults,
  state, nbRequests, closing, late, rejected,
  indexed, announced, recent, thread, found, tries, coordinator, copy, events,
  stamp, locked, creations, scheduled, job, caches, names, entries, keep,
  portal, datamart, pending, queue, turn, phase, listing, todo, seen, bigSets, portalEvents,
  online, known, failed, published, step, page, record, position, visited, cut, bigFiles,
  zenodoEvents,
  version, etag, stage, current, remaining, group, storage, messages, reading, index, behind, lost,
  uazEvents,
  queued, delivered, progress, tickets, up, told, lostQueries, queryFaults,
  text, processing, sketches, sketched, excuses,
  profiles, files, results, session, datasetVersion, requests, evicted, incomplete, given, refused,
  asks, drops,
  asked, searching, searchQuery, searchState, searchResponse, infobox, options, added, sent,
  filter, shown, fileQueries, profileQuery, queryFile, profiled, selected, loading, rendered,
  dropRefused,
  tab, input, address, uploadProfiles, profiledData, edited, columnsName, profilingStatus,
  submitting, cleared, uploaded

Lock == INSTANCE LockProcess WITH MaxFaults <- MaxLockFaults
Shutdown == INSTANCE GracefulShutdown WITH Requests <- Handlers
Stats == INSTANCE Statistics WITH Datasets <- Listed, MaxEvents <- MaxListEvents
Evict == INSTANCE Eviction WITH Workers <- Threads
Portals == INSTANCE Socrata WITH Datasets <- Mirrored, MaxEvents <- MaxPortalEvents
Zen == INSTANCE Zenodo WITH MaxEvents <- MaxZenodoEvents
Uaz == INSTANCE UazIndicators WITH MaxEvents <- MaxUazEvents
Query == INSTANCE DiscoveryQueries WITH Queries <- Asking, MaxFaults <- MaxQueryFaults
Lazo == INSTANCE Sketches
  WITH Columns <- TextColumns, Versions <- TextVersions, step <- processing, current <- sketched
Data == INSTANCE UserData
  WITH Workers <- Servers, MaxFaults <- MaxDrops, version <- datasetVersion, faults <- drops
Page == INSTANCE SearchPage WITH Queries <- Searches, NoFile <- NoData
Related == INSTANCE RelatedFile
  WITH Files <- LocalFiles, Columns <- ColumnsOf, MaxQueries <- MaxFileQueries, queries <- fileQueries
Form == INSTANCE UploadForm
  WITH Files <- LocalFiles, Columns <- ColumnsOf, profiles <- uploadProfiles

lockVars == <<call, parent, child, answer, unlock, flock, exists, raised, faults>>
shutdownVars == <<state, nbRequests, closing, late, rejected>>
statVars == <<indexed, announced, recent, thread, found, tries, coordinator, copy, events>>
evictionVars == <<stamp, locked, creations, scheduled, job, caches, names, entries, keep>>
socrataVars ==
  <<portal, datamart, pending, queue, turn, phase, listing, todo, seen, bigSets, portalEvents>>
zenodoVars ==
  <<online, known, failed, published, step, page, record, position, visited, cut, bigFiles, zenodoEvents>>
uazVars ==
  <<version, etag, stage, current, remaining, group, storage, messages, reading, index, behind,
    lost, uazEvents>>
queryVars == <<queued, delivered, progress, tickets, up, told, lostQueries, queryFaults>>
lazoVars == <<text, processing, sketches, sketched, excuses>>
userVars ==
  <<profiles, files, results, session, datasetVersion, requests, evicted, incomplete, given, refused,
    asks, drops>>
pageVars == <<asked, searching, searchQuery, searchState, searchResponse, infobox, options, added, sent>>
fileVars ==
  <<filter, shown, fileQueries, profileQuery, queryFile, profiled, selected, loading, rendered,
    dropRefused>>
uploadVars ==
  <<tab, input, address, uploadProfiles, profiledData, edited, columnsName, profilingStatus,
    submitting, cleared, uploaded>>
vars == <<focus, lockVars, shutdownVars, statVars, evictionVars, socrataVars, zenodoVars,
          uazVars, queryVars, lazoVars, userVars, pageVars, fileVars, uploadVars>>

Components ==
  {"lock", "shutdown", "statistics", "eviction", "socrata", "zenodo", "uaz", "queries", "sketches",
   "user", "page", "file", "upload"}

(* Of a component that is not looked at, one initial state is enough; and   *)
(* what `record` and `group` are before the first one is of no consequence. *)
Init ==
  /\ focus \in Components
  /\ Lock!Init /\ Shutdown!Init /\ Stats!Init /\ Evict!Init /\ Portals!Init /\ Zen!Init
  /\ Uaz!Init /\ Query!Init /\ Lazo!Init /\ Data!Init /\ Page!Init /\ Related!Init /\ Form!Init
  /\ focus # "lock" => exists
  /\ focus # "socrata" => \A d \in Mirrored : portal[d] = 1
  /\ record = CHOOSE r \in Records : TRUE
  /\ group = CHOOSE g \in Groups : TRUE

(* A step of one component leaves the others alone.                         *)
Others ==
  /\ UNCHANGED focus
  /\ IF focus = "lock" THEN TRUE ELSE UNCHANGED lockVars
  /\ IF focus = "shutdown" THEN TRUE ELSE UNCHANGED shutdownVars
  /\ IF focus = "statistics" THEN TRUE ELSE UNCHANGED statVars
  /\ IF focus = "eviction" THEN TRUE ELSE UNCHANGED evictionVars
  /\ IF focus = "socrata" THEN TRUE ELSE UNCHANGED socrataVars
  /\ IF focus = "zenodo" THEN TRUE ELSE UNCHANGED zenodoVars
  /\ IF focus = "uaz" THEN TRUE ELSE UNCHANGED uazVars
  /\ IF focus = "queries" THEN TRUE ELSE UNCHANGED queryVars
  /\ IF focus = "sketches" THEN TRUE ELSE UNCHANGED lazoVars
  /\ IF focus = "user" THEN TRUE ELSE UNCHANGED userVars
  /\ IF focus = "page" THEN TRUE ELSE UNCHANGED pageVars
  /\ IF focus = "file" THEN TRUE ELSE UNCHANGED fileVars
  /\ IF focus = "upload" THEN TRUE ELSE UNCHANGED uploadVars
LockOnly == focus = "lock" /\ Others
ShutdownOnly == focus = "shutdown" /\ Others
StatsOnly == focus = "statistics" /\ Others
EvictOnly == focus = "eviction" /\ Others
PortalsOnly == focus = "socrata" /\ Others
ZenOnly == focus = "zenodo" /\ Others
UazOnly == focus = "uaz" /\ Others
QueryOnly == focus = "queries" /\ Others
LazoOnly == focus = "sketches" /\ Others
DataOnly == focus = "user" /\ Others
PageOnly == focus = "page" /\ Others
RelatedOnly == focus = "file" /\ Others
FormOnly == focus = "upload" /\ Others

Next ==
  \/ LockOnly /\ Lock!Next
  \/ ShutdownOnly /\ Shutdown!Next
  \/ StatsOnly /\ Stats!Next
  \/ EvictOnly /\ Evict!Next
  \/ PortalsOnly /\ Portals!Next
  \/ ZenOnly /\ Zen!Next
  \/ UazOnly /\ Uaz!Next
  \/ QueryOnly /\ Query!Next
  \/ LazoOnly /\ Lazo!Next
  \/ DataOnly /\ Data!Next
  \/ PageOnly /\ Page!Next
  \/ RelatedOnly /\ Related!Next
  \/ FormOnly /\ Form!Next

Spec == Init /\ [][Next]_vars

-----------------------------------------------------------------------------
(* Every component keeps the types of its variables.                        *)
TypeOK ==
  /\ Lock!LockTypeOK /\ Shutdown!ShutdownTypeOK /\ Stats!StatTypeOK /\ Evict!EvictionTypeOK
  /\ Portals!SocrataTypeOK /\ Zen!ZenodoTypeOK /\ Uaz!UazTypeOK /\ Query!QueryTypeOK
  /\ Lazo!SketchTypeOK /\ Data!UserTypeOK /\ Page!PageTypeOK /\ Related!RelatedTypeOK
  /\ Form!UploadTypeOK
(* The invariants of the components, as their modules state them.           *)
LocksHold == Lock!LocksHold
StopsIdle == Shutdown!StopsIdle
KeepsNewest == Evict!KeepsNewest
SketchesMatch == Lazo!SketchesMatch
(* What a discovery plugin has recorded as done has been ingested.          *)
IngestedTruthfully == Zen!RecordsComplete /\ Uaz!EtagTruthful
(* A profile names the conversions, and a session leads to what was asked   *)
(* for, whatever the caches and Redis drop.                                 *)
ClientsServed == Data!ProfilesComplete /\ Data!SessionsTruthful
(* The pages show, ask for and send what belongs together, in whatever      *)
(* order the server answers.                                                *)
PagesConsistent ==
  /\ Page!ResultsExplained /\ Page!TasksMatch
  /\ Related!FormsAgree /\ Related!ColumnsOfFile
  /\ Form!AnnotationsOfFile /\ Form!ProgressMeansPending
=============================================================================
