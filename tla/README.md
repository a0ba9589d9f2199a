# Datamart: TLA+ specifications and proofs

Datamart is a search engine for datasets made of services that share Elasticsearch, RabbitMQ, Redis, Lazo and a
file system.  This directory holds specifications of the parts whose correctness depends on how processes, threads
and coroutines interleave, and of the algorithms whose inputs are too many for tests; TLC configurations that check
them on small instances; and theorems that TLAPS checks for every instance.  Paths below are relative to the root of
the repository.

## The system

| part | state | operations | interacts with |
|---|---|---|---|
| File cache (`lib_core/datamart_core/fscache.py`) | `KEY.cache`, `KEY.lock`, `KEY.temp` in a shared directory, flocks | `cache_get_or_set`, `cache_get`, `clear_cache`, `delete_cache_entry` | all services |
| Materialization (`lib_core/.../materialize.py`, `lib_materialize`) | entries of `/cache/datasets`, files of `/datasets` | `get_dataset`, `detect_format_convert_to_csv`, downloads and writers | file cache; called by the profiler and the apiserver |
| Profiler (`profiler/profiler.py`) | a queue of messages, threads, an event loop | consume, download, profile, rewrite the index | RabbitMQ, Elasticsearch, Lazo |
| Dataset index (`lib_core/.../common.py`) | indices `datamart`, `datamart_columns`, `datamart_spatial_coverage`, `pending`, Lazo sketches | `add_dataset_to_index`, `delete_dataset_from_index`, `delete_dataset_from_lazo` | profiler, discoverers, scripts |
| Upload (`apiserver/apiserver/upload.py`) | the `pending` index, `/datasets` | record, publish | Elasticsearch, RabbitMQ |
| Discovery (`lib_core/.../discovery.py`, `discovery/*`) | what was seen, shared storage | `record_dataset`, `delete_dataset`, `write_to_shared_storage`, one loop per source | Elasticsearch, RabbitMQ |
| Search (`apiserver/apiserver/search`) | none | building queries, pairing columns, grouping and ranking hits | Elasticsearch, Lazo |
| Augmentation (`lib_augmentation`, `apiserver/apiserver/augment.py`) | entries of `/cache/aug`, sessions in Redis | join, union, send or attach the result | materialization, file cache |
| Profile and sessions (`apiserver/apiserver/{profile,sessions}.py`) | `/cache/user_data`, Redis keys | profile posted data, tokens, session results | file cache, Redis |
| Graceful shutdown (`apiserver/apiserver/graceful_shutdown.py`) | a counter of requests, a condition variable | prepare, finish, SIGTERM | all handlers |
| Coordinator (`coordinator/coordinator`) | recent discoveries, statistics | consume `datasets`, recompute, evict cache entries | RabbitMQ, Elasticsearch, file cache |
| Profiler library (`lib_profiler`) | none | column types, ranges, plots, spatial resolution | profiler, apiserver |
| Web frontend (`frontend`) | search session, upload form | search, augment, upload | apiserver |
| Scripts (`scripts`) | none | export, import, migrate, reprocess, refresh, delete | Elasticsearch, Lazo, RabbitMQ |

What is hard about it: every process opens, locks and unlinks the same lock files; the profiler's threads, its event
loop and RabbitMQ's redeliveries rewrite the same documents; Elasticsearch has no transactions over the four indices
and makes documents searchable late; any process may be killed between two calls.  `PROJECT.json` lists the hazards
line by line.

What makes each part correct: an entry of the cache is whole, stays while it is read and is created once; a dataset is
in all the indices or in none, what went wrong with it is recorded, and no message is lost; nobody waits for ever for
a lock, a message or a record.

## Modules

Protocols on the locks and the index, each with an instance of its own for TLC:

| module | models | uses |
|---|---|---|
| `CacheContract` | what one key of the file cache promises to its users (abstract) | |
| `FSCache` | one key of `fscache.py`, one system call per step | refines `CacheContract` |
| `Indexing` | one dataset id, from the profiling queue to the index, one call to Elasticsearch, Lazo or RabbitMQ per step | |
| `Materialize` | the callers of the file cache and the locks they hold on several keys, one cache operation per step | refines `CacheContract` for every key |
| `MCFSCache`, `MCIndexing`, `MCMaterialize` | instances for TLC: symmetry, servers, the choice of inode numbers | |

Services, which share no state with one another at this level of detail; `Services` puts them next to one another, and
`MCServices` gives them values and fairness:

| module | models |
|---|---|
| `LockProcess` | `_lock()` and the subprocess that has the flock, which `FSCache` takes for one step |
| `GracefulShutdown` | the counter of requests and the end of an apiserver |
| `Statistics` | the list of recent discoveries of the coordinator and the apiserver's copy |
| `Eviction` | the coordinator's limit on the caches |
| `Socrata`, `Zenodo`, `UazIndicators` | the loops of three discovery plugins, against what profiling does |
| `DiscoveryQueries` | on-demand discovery: replicas, work tickets, acknowledgements |
| `Sketches` | the sketches of one dataset in Lazo, while versions of it are profiled and deleted |
| `UserData` | posted files, their profiles and tokens, results and sessions |
| `SearchPage`, `RelatedFile`, `UploadForm` | what the pages of the frontend keep between the answers of the server |

Algorithms, as operators with their reference definitions; `MCAlgorithms` applies them to bounded sets of inputs:

| module | models |
|---|---|
| `Formats`, `D3mIndex` | detection, conversion and replay of file formats; the column that the D3M writer adds |
| `Nominatim`, `Noaa`, `IndicatorGroups` | batches of addresses; pages and averages of climate data; how a database is split into datasets |
| `Requests` | how downloads, uploads and sessions are answered, and the format that a session carries around |
| `Augmentation` | joins in chunks, matching of resolutions, aggregation, unions |
| `ColumnTypes`, `Profile`, `ProcessDataset` | types of columns, pairs of coordinates, ranges, keywords, the profile of a file |
| `SearchQuery`, `JoinSearch`, `UnionSearch` | how a query is parsed, scores and tasks of joins, pairs of unions, the mix of results |
| `Maintenance` | scripts that export, import, migrate and refresh the index |

Proofs: `FSCacheProofs`, `IndexingProofs`, `MaterializeProofs`; `ServicesProofs`, about the composition `Services`;
`EvictionProofs`, about a recursive function over sets; `AlgorithmsProofs` (requests, the data of discovery plugins,
the D3M format, types) and `SearchProofs` (queries, scores, pairs and results), about the algorithms; `SetFolds`,
what sums, folds and sorts of finite sets and sequences compute.

Definitions that a comment calls a *Mutant* are not part of any specification: each is a plausible bug in the code
next to it, and with it in place TLC finds the property violated that `PROJECT.json` ("mutants") names.

### FSCache

State: what the paths `KEY.lock` (an inode), `KEY.cache` and `KEY.temp` (files, with who is writing them and whether
they are damaged) refer to, and for each process its place in the code, the lock file it has open, the flock it holds
on it and what its last call raised.  `OpenShared`/`OpenExclusive` are `os.open()` in `_lock_process()`,
`GrantShared`/`GrantExclusive` the `flock()`, `CheckShared`, `Touch`, `LeaveBlock` the with-block of
`cache_get_or_set()` and `cache_get()`, `CheckExclusive` to `Rename` a creation with its two failure paths,
`CheckDelete` to `EmptyTemp` `delete_cache_entry()`, `Release` the end of `_lock()`.  A test of a path and what is done
about it are two steps (`ClearTemp` and `DropTemp`, `FailTemp` and `DropFailed`; `RemoveTemp`, `TestEntry` and
`RemoveTempFile` or `RemoveTempTree`), and so are the emptying of a directory by `rmtree()` and its removal
(`RemoveEntry` and `EmptyEntry`, `RemoveTempTree` and `EmptyTemp`).  `Crash` kills a process at any point: its flocks
are released, its files stay.

The code unlinks lock files in two places (lines 273 and 377) while others may be waiting to lock them.  A process
that is granted the lock on an unlinked file excludes nobody who opens the path afterwards.  So the promise "in this
with-block, the path is locked with a shared lock, so it won't be changed or removed" does not hold
(`FSCacheReader`), and what does hold is stated up to the first failure of the locking.  The history variable `broken`
has those that happened: `"stale"`, a flock was granted on a lock file that had been unlinked; `"robbed"`, a cleaner
removed the temporary file of a creation under way; `"halved"`, a cleaner was killed while it removed a directory,
whose rest keeps the name of the entry.  `ProtectedUnlessBroken`, `ErrorsExplainedUnlessBroken` and the refinement
`ImplementsContract`, in which the first failure is the event after which nothing is promised, hold for any number of
cleaners.  `NeverStale` says that no lock is stale before a lock file was unlinked (`unlinked`), and
`OneCleanerRobsNobody` that a single cleaner of files robs nobody before a lock was stale, although it tests
`KEY.cache` and not `KEY.temp` (line 382): where its test and its removal are apart, the second meets an error.

### Indexing

State: the documents of one dataset in `datamart`, in the two supplementary indices (as the set of attempts that
wrote them, since those documents have no id of their own) and in `pending`, the sketches in Lazo, and for each
message and each deletion where it is.  Each rewrite is tagged with the number of the delivery (`attempt`), so that a
document left by an earlier one can be told apart.  `Deliver` is RabbitMQ with its `prefetch_count`; `StartProfile` to
`InsertSketch` the thread that downloads and profiles under the semaphore; `StartCoro` to `Ack` the coroutine of the
callback, which owns the profiler's event loop (`loop`) except where it awaits (`Announce`, `MoveToFailed`);
`DelLazo` to `DelSup`, `AddMain` and `AddSup` the helpers of `common.py`, shared with the deleters.  `EsFails`,
`ProfilerDies` and `UploadDies` are the faults, `Reject` a document that Elasticsearch refuses, `Refresh` its
near-real-time visibility.  A profiling comes to rows, to an empty dataset, to one that is too big or to an error;
every passing run has all four.

`delete_dataset_from_index()` returns early when `datamart` has no document.  That makes the order of its deletions
matter: a deletion that stops after the first one is never completed (`IndexingOrphans`).  `OrphansExplained` says
that this, two rewriters at the same time, and deletions that come before a refresh are the only ways to leave
documents behind; `OneAtATime` that one profiler alone never is two rewriters, although it prefetches two messages,
because its coroutine awaits nothing from the first deletion to the last insertion.

What history variables remember, the properties name as exceptions.  `Settles`: without faults, overlaps and early
deletions a dataset is in all the indices or in none, unless Elasticsearch refused a part of it.  `Accounted`: a
dataset that was processed is indexed or has its error in 'pending', whatever failed, unless it was deleted, or one of
three things happened: it was too big, so that its record was deleted as soon as it was written (`IndexingPending`
shows that such a dataset is in no index, against the change log); a coroutine came back from the `await` of line 300
to delete the record that another had written meanwhile (`overtaken`); or the record of an error failed after the
message had been acknowledged (`lost`).  `Resolved`: an upload does not stay "queued" unless its record was lost so.

### Materialize

State: for each key whether it has an entry and who has it locked exclusively, how many with-blocks each process is
in, and for each process the rest of its request as a sequence of operations.  `Download`, `DownloadAs`, `Profile`,
`Augment`, `AugmentToken` and `AugmentResult` are those sequences, written next to the function they come from; a
creation that is started puts the operations of `create_function()` in front (`Create`), so that nested creations
(an augmentation that materializes two datasets) come out as in the code.  `Look`, `Lock` and `Made` are
`cache_get_or_set()`, `Peek` is `cache_get()`, `Unwind` an exception on its way out of the with-blocks, `Await` and
`Resume` the points where `send_file()` gives the event loop to other requests.  Locks are blocking calls, so a
request that waits for one keeps its event loop.

The entries here behave as `FSCache` shows as long as no lock is stale; a stale lock and killed processes are left to
`FSCache`.  The CSV file a profiler converts from and the one that the metadata names after profiling are two keys
(`Raw`, `Csv`), and the second is created by profilers from the first and by the apiserver from a new download.

`NoCircularWait` fails with two apiservers (`MaterializeReplicas`): one creates an augmentation and waits for the
exclusive lock of a dataset that it found missing; meanwhile a request on the other has got that dataset and is
suspended while it sends it, and a second request there blocks that event loop on the augmentation.
`CircularWaitsExplained` says that every circular wait contains a handler that creates an augmentation and waits for a
dataset, a handler of another apiserver that waits for this augmentation, and a request that is suspended while it
sends a file that somebody of the circle waits for, on a loop other than the creator's.  With two apiservers the last
two share a loop; with three or more the wait may go on through another server, where the file is one in another
format.  A single apiserver with any profilers has no circular wait (`OneServerNeverStops`).

### Services

A behaviour of `Services` is one of the component that `focus` names, while the others stand still: the state space
is the sum of those of the thirteen components, not their product, and `TypeOK` is the type invariant of all
thirteen.  They do interact, but only through what other modules have already: each of these takes its neighbours at
what they promise.

* `LockProcess`: the parent, the child, the pipe and its one message, kills, failing system calls and expired
  `join()`s.  `LocksHold` justifies that `FSCache` takes a grant for one step: a with-block runs only while the child
  holds the flock.  `HangsExplained` and `LocksOfTheDeadEnd` say which calls may never return (a child that is killed
  before it answers: the parent has the other end of the pipe, too, and `recv()` never ends) and that the flock of a
  killed parent is released.
* `GracefulShutdown`: each callback of the event loop is a step.  `StopsIdle` has two excuses, which the code does not
  mention: requests that begin after `do_exit()` has decided, and requests that Tornado finishes without `prepare()`,
  which make the counter too low.  A second signal, which ends the process at once, is not modelled.
* `Statistics`: messages edit the list while a thread computes another that replaces it; `StatisticsCatchUp` says
  that the apiserver's copy becomes what the index has, once nothing changes.
* `Eviction`: the scan, the sort and the deletion are steps, between which entries are created, locked and deleted.
  `Select` computes what the loop over the sorted entries keeps by recursion over sets of entries, from the oldest
  of them down, rather than over a sorted sequence.
  `KeepsNewest`: what a job keeps is below the low limit and newer than what it clears, of the entries it saw;
  `LimitRestored`: when entries are no longer used, the caches end below the high limit, whatever was aborted.
* `Socrata`, `Zenodo`, `UazIndicators`: lists, publications, deletions and what fails between them.  `Mirrors`: the
  index becomes what the portal has; `RecordsComplete`: a record that will be skipped is complete;
  `EtagTruthful`: a database that will be skipped is stored.  A dataset that was too big when it was last profiled
  (`bigSets`, `bigFiles`) is in neither index, so Socrata publishes it again on every sweep, and Zenodo may skip a
  record that lacks such a file.  A UAZ dataset is read from storage in one step and indexed in another, or not at
  all, in the order in which profilers finish: what the index has may be older than what is stored (`behind`) until
  the next version.
* `DiscoveryQueries`: replicas come and go, and the queue goes with the last of them; `QueriesEnd` says which
  requesters are told the end.
* `Sketches`: removal, replacement and the index that tells what to remove; `SketchesMatch` names the ways in
  which the sketches are not those of the index.
* `UserData`: `ProfilesComplete`, that a profile in Redis has what its file needs to be read again, and
  `SessionsTruthful`, that what a session lists is what was asked for.
* `SearchPage`, `RelatedFile`, `UploadForm`: an answer is applied whenever it arrives.  `ResultsExplained`,
  `TasksMatch`, `FormsAgree`, `ColumnsOfFile`, `AnnotationsOfFile` and `ProgressMeansPending` relate what is shown or
  sent to the query, hit or file it is about, and name the races that break this.  A drop of files that are not
  accepted is an error without a query (`RejectFile`), which `FormsAgree` names, too.

### MCAlgorithms

A behaviour has one step, which chooses an input of a family.  Every property compares a result of the code with a
definition that does not follow it: what a chain of converters writes with what the profiler read, a join in chunks
with the join at once, the pairs of columns with the best pairs, a score with the overlap of intervals, what an
import leaves with what was exported.  Where the code does not agree with the obvious definition, the property says
exactly when, and the list below has it.  What floating point numbers and Elasticsearch add is abstracted like this:

* A score of a join has the parts of the ranges that are covered, which are counted in points or unit squares, times
  the weight 10 of the keywords for a document that matches them; it is stated without the division by the size of
  what was asked for, so "a part of" is "at most the total".  `ScoresSound` is about ranges of whole numbers that do
  not overlap.  Envelopes may: then what they have in common counts several times, and `AreaScoresSound` bounds the
  score by the number of envelopes of the document.
* `Returned` is any set of `TopK` (3) best hits, ties being broken in any way: what is missing from the joins gave
  way to others that score as much.  The search for unions reads all its hits.
* The score of a union has the factor that Elasticsearch gives to the best of the pairs (`relevance`), a parameter.
* The bounds of an area that is known are used as they are, even out of order; those of a query are put in order, and
  refused when they are whole numbers (`search/__init__.py:283`), although the schema only asks for numbers
  (`query_input_schema.json:141-156`).
* The requests to the NOAA API may fail with an error of HTTP, of which a few in a row are tolerated, or with anything
  else, which raises at once; the count that a page announces may be less or more than
  what there is.
* A column of coordinates is the set of the rows that have a usable value (`usable`), so that two columns may have
  values in different rows, and one of points may have none in range, of which KMeans makes an exception
  (`ProcessRaises`).
* `UploadsWhole` is about what the endpoint stores and records; the indexing and the publication that follow
  (`upload.py:107-131`) are `Record`, `Publish` and `UploadDies` of `Indexing`.

## Runs

| run | instance | shows |
|---|---|---|
| `FSCacheLocks` | 2 clients, 2 cleaners, directories, failures, crashes, up to the first failure of the locking | types, inductive invariant, protection, errors and contract until then; no stale lock before a lock file was unlinked |
| `FSCacheCalls` | 2 clients, 1 cleaner of files that retries | every call returns, get-or-set gets an entry, one cleaner robs nobody |
| `FSCacheReader` (violation) | 2 clients, 1 cleaner | a reader loses its entry |
| `IndexingSingle` | an upload and a message, 1 profiler that prefetches both, all outcomes, refused documents, 1 fault | no overlap, announcements are true, every message ends, no upload stays queued |
| `IndexingSettles` | an upload and a message, 2 profilers, a deleter, all outcomes, refresh lag, 1 fault | in all indices or none, accounted for, documents left behind only as named |
| `IndexingOrphans` (violation) | 2 messages, 1 fault | documents left behind for good |
| `IndexingPending` (violation) | an upload, all outcomes | a dataset that is too big is in no index |
| `MaterializeLocks` | 3 requests on 2 apiservers, a profiler thread, a dataset that is converted | inputs stay locked, locks are released, circular waits explained, contract per key |
| `MaterializeReplicas` (violation) | 3 requests on 2 apiservers | two apiservers wait for each other |
| `Services` | the thirteen components of `Services`, about 560,000 states | eight invariants and two conjunctions of liveness properties, one conjunct per component |
| `Algorithms` | the families of inputs of `MCAlgorithms`, over three quarters of a million | five invariants, one conjunct per algorithm |
| `AlgorithmsColumns` (violation) | the same inputs | a join leaves out the columns that were requested |

The properties of `Services` are `TypeOK`; `LocksHold`, `StopsIdle`, `KeepsNewest`, `SketchesMatch`;
`IngestedTruthfully` (`RecordsComplete` of `Zenodo`, `EtagTruthful` of `UazIndicators`); `ClientsServed`
(`ProfilesComplete`, `SessionsTruthful` of `UserData`); `PagesConsistent` (the pages); `CallsEnd` (`LockProcess`,
`GracefulShutdown`, `DiscoveryQueries`); `CopiesCatchUp` (`Statistics`, `UazIndicators`, `Socrata`, `Eviction`).
Those of `Algorithms` are `RequestsServed`, `ResultsComplete`, `TablesKept`, `ProfilesCoherent` and `SearchesSound`;
their definitions in `MCAlgorithms` list the conjuncts.

Bounds.  Lock files get one of 4 inode numbers (3 in `FSCacheCalls`, for three processes), as many as there are
processes: a fresh one is found while reuse still happens.  The action constraints of `FSCacheCalls` give the lowest free number
(symmetry is not sound for liveness; numbers are only compared) and leave out the calls that do not retry, whose steps
are among those of the ones that do.  Two clients and two cleaners are the fewest that give a
reader, a creator and two deletions at once.  `UntilBroken` stops `FSCacheLocks` at the states in which the locking
has failed, after which none of its properties promises anything: they are reached and checked, but not continued.
`Messages` bounds how often a dataset is queued, `MaxFaults` crashes and transport errors: one is enough to cut any
rewrite at any point, and without a bound on faults nothing need ever be processed.  In `Materialize` the endpoints
that each request may call are chosen so that the three parts of the circular wait and all kinds of key are there;
one dataset suffices because keys of different datasets meet only inside an augmentation.  Deadlock is checked in the
`FSCache` runs; `Indexing` ends when everything was processed, and `Materialize` does stop, as `MaterializeReplicas`
shows.

| component of `Services` | bounds | enough for |
|---|---|---|
| `LockProcess` | 2 callers, timeouts none, zero and some, 1 fault | two locks in conflict, one of them of a process that goes away |
| `GracefulShutdown` | 3 requests, 2 of them counted | one that ends, one that begins, one that is not counted, around the signal |
| `Statistics` | 2 datasets, lists of 2, 2 attempts, 4 events | a list that is full and an update during the computation |
| `Eviction` | 3 entries in 3 caches of sizes 2, 2, 1; limits 3 and 2; 2 threads; 3 creations | two jobs at once, entries created behind the scan |
| `Socrata` | 3 datasets in 2 domains, 2 events | a change while the other domain, or the same, is listed |
| `Zenodo` | records of 3 and 2 files, some unsupported, 2 events | a record cut between two files, a first file that is unsupported |
| `UazIndicators` | 2 groups, 2 events | a failure between two groups, and a new version that is profiled while the one before still is |
| `DiscoveryQueries` | 2 queries, 2 replicas, 2 faults | redelivery to the other replica, and the end of the queue |
| `Sketches` | 2 columns, 2 versions, 1 deletion | a column that goes away while two versions overlap |
| `UserData` | 2 servers, a file and its conversion, 2 requests, 2 faults | two servers on one file; a token after an eviction |
| `SearchPage` | 2 queries, 2 searches, a session | an answer that is late; two hits at the same place |
| `RelatedFile`, `UploadForm` | 2 files, 3 queries or 2 profiles | an answer about a file that is no longer chosen |

`Algorithms`: the sets next to each input in `MCAlgorithms` bound it: tables of up to 3 rows, 4 lines in pieces at any
place, batches of 2 with up to 3 requests, up to 3 columns, intervals in 0..4, names of up to 5 characters.
Constants of the code (`BatchSize`, `PageSize`, `TopK`, `Limit`) are made small enough that the inputs go past them.

Fairness.  `FSCache`: a process that can take a step of a call does so (weak fairness of `Step`), nobody has to make
another call, and a waiting process gets its flock only when it is free at that moment: `CallsEnd` and `Served` are
conditional on no more calls being made, since flock(2) lets new readers overtake a waiting writer for ever.
`Indexing`: RabbitMQ delivers, threads and loops run, Elasticsearch refreshes; nobody has to publish, delete or fail,
and a download does not have to fail either (`DownloadFails` is left out of what is fair): `Processed` and `Resolved`
hold without it. `Materialize` has no liveness property: what can go wrong there is a circular wait, which is a
state. `Services`: the fairness of a component is a premise of its liveness property, weak fairness of whatever runs
it: the steps of one caller and its subprocess (`LockFair`), the event loop (`ShutdownFair`), the coordinator's
thread and messages (`StatsFair`), its timer and threads (`EvictFair`), a plugin's loop and the profilers
(`PortalsFair`, `UazFair`), each replica (`QueryFair`).  Nothing fair is said of users, portals or faults, so
`Zenodo`, `Sketches`, `UserData` and the pages have safety properties only.

## Proofs

The theorems hold for every value of the constants that the named ASSUMEs of `FSCache`, `Indexing`, `Materialize` and
`Services` allow; those assumptions say how sets are included in one another, that bounds are numbers, and that a
marker such as `NoFile` is not one of the things it is compared with.  Every invariant that a passing run checks is
the statement of a theorem, but for `TablesKept` and `ProfilesCoherent`.  Hardly any formula that the runs check is
inductive; what is added to each, and why, follows.

**FSCacheProofs.**  `IInv` is the lock discipline (which label of the code holds which flock), exclusion of flocks on
one inode and, until `broken`, that every flock held is on the current lock file, that the temporary file belongs to
the creator and that the entry is whole.  Protection alone is not inductive: it needs to know that whoever reads or
creates has its flock on the file that the path leads to, and that a cleaner which is between two of its system calls
has found what it will remove.  From it `ProtectedUnlessBroken`, `ErrorsExplainedUnlessBroken`, and the refinement of
`CacheContract`: initial states map to initial states, each action to a step of the contract or a stutter; all for any
number of clients and cleaners, files and directories, failures and crashes.  `OneCleaner` (its conjunct on what a
single cleaner of files has tested) and `NoUnlinkNoStale` (`LinkedInv`: until a lock file was unlinked, every open one
is the linked one) say when the locking cannot fail in a certain way.

**IndexingProofs.**  `IInv` adds to `NoOrphans` what is true in the middle of a rewrite and that a running coroutine
owns its loop; from it `OrphansExplained`, `OneAtATime` for a single profiler without deleters, and
`AnnouncedIndexed` from both.  `CalmInv` is about behaviours without a fault: how far a message gets with each
outcome (`Reached`) and how far the three indices are during a rewrite (`IndicesAgree`); from it `Settles`.
`Accounted` needs no such hypothesis. It follows from `Remembered` (once a message was told, the dataset is indexed,
or has its error recorded, or somebody is still busy with it, unless it was forgotten in one of the named ways) and
`Memory` (what was acknowledged has ended, but for the record of an error and the deletion of a dataset that is too
big).  All outcomes, refused documents, refresh lag, faults and redeliveries are in the theorems; none has a
hypothesis but those on the numbers of profilers and deleters that its statement names.

**MaterializeProofs.**  A request is a sequence of operations, so most of what is proved is about sequences: every
request and every creation is one that completes no creation of its own (`Plans`), and one that `Runs` from the locks
that are held to none.  `Runs` says that there is a number of locks before and after each operation, that a key is
read only while it is locked, and that keys are got in an order (`Below`: a conversion under its dataset, an
augmentation under user data, nothing under a download).  `LockInv` says so of what is left of each request.  It is
kept when a creation puts its operations in front, which is where the nesting of with-blocks matters, and when an
exception unwinds them.  From it `NothingKept` and `InputsHeld`.  `IInv` says that what is read is there and not being
created, and that each pending completion belongs, once, to the process that has the key locked; from it
`PromisesKept`, the contract for every key.  For circular waits, `OwnInv` says who has which event loop, `NestInv` that
of the creations of one process only an augmentation contains others, and `RingInv` that no set of processes wait only
for locks and loops of those that run: with the order, a circle needs an augmentation that waits for a dataset, and
`CircularWaitsExplained` and `OneServerNeverStops` follow for any number of servers, handlers and profilers.

**ServicesProofs** is about the composition.  `StepOfOne` says that a step of it is a step or a
stutter of each component, so that each invariant is proved of its component alone:

* `LocksHold` from `Consistent` (where the two processes of a call stand with respect to the flock, the message in the
  pipe and 'UNLOCK') and `Excludes` (an exclusive flock is the only one).
* `StopsIdle` from `Counted`: as long as no request was rejected, `nb_requests` is the number of graceful requests
  that began and were not taken off yet.
* `IngestedTruthfully`, for UAZ from what holds during a pass over the database (the recorded E-Tag is older, and each
  group the pass has come to is stored, and indexed, read or on its way, unless it was lost or is behind), for Zenodo
  from `AllOrNothing` (when the first file of a record is known or published, so are the others or they were too
  big), which holds of every record but the one
  being published, of which `Passed` says that what the loop has passed is published.
* `SketchesMatch` from three invariants, each under the excuses that still allow it: nobody overlaps (`Alone`), each
  column of the version being processed or of the index has its sketch (`Complete`), and Lazo has no others than the
  step of whoever is busy accounts for (`Limited`).
* `KeepsNewest` from `StampsDiffer` (no two entries have one time) and the theorem of `EvictionProofs` that the
  recursive choice of what to keep selects what the property says, by induction over the sets of entries.
* `ClientsServed` from `ProfileInv` (a file without a profile is being profiled, or was not when somebody was late)
  and `SessionInv` (a result is made of what its key says, and what is under way is what was asked for).
* `PagesConsistent` from one invariant per page: which answers may still come (`SearchesInv`), which hits a form was
  rendered with (`DetailsInv`, `OptionsInv`), which query the related file waits for (`QueryInv`, `DropInv`), and
  which file the columns of the upload form are of (`LatestInv`, `UploadedInv`).
* `TypeOK` of all thirteen.  Some types need more than types: that a replica gives back no more tickets than it took
  (`TicketInv`), that the coordinator retries fewer times than it is allowed (`StatInv`), that an E-Tag is not newer
  than the database (`UazBounds`).

**SetFolds** has the lemmas about the folds of the community modules that the others need.  No prover instantiates
the library's induction theorems, whose parameter is an operator; here a claim is the *set* of the things of which it
holds, and induction is the statement that this set has all of them (`SubsetInduction`, `StepInduction`), which needs
only that the subsets of a finite set are well-founded.  With it: folds over finite sets and sequences exist and are
unique, sums are what their recursion says, a sum of sizes is the size of a union, a sum of overlaps the size of what
two unions have in common, and a finite set or sequence has a sorted one of the same elements.  **EvictionProofs** uses
it to show that `Select`, which is recursive over sets of entries, keeps an entry exactly when it fits beside the newer
ones that are kept.

**AlgorithmsProofs** states for all inputs what `MCAlgorithms` checks on bounded ones:

* `PagesAreComplete`: the pages of NOAA, for all data, all ways the API may answer and every page size.  By induction
  over the requests: what was read is a prefix of the data and the offset its length; the count of failures is that of
  the last ones in a row.  `DatesAreAveraged` is about the loop that averages them, `YearsAreCovered` and
  `SeriesAreRecorded` about the datasets that a pass publishes.
* `LocationsAreCounted` (the batches of addresses) and `IndicatorsAreKept` (the groups of a database) are inductions
  over what a loop has read, with the state of the loop as a record.
* `RowsAreNumbered`: the D3M index for every way that a file comes in pieces; `DocumentsMatch` its document.
* `FormatsAreKept`, `LinksAreGood` and `UploadsAreWhole`: how requests are answered, for all options, tasks and fields.
* `TypesAreCoherent` and `StringsFit`: types of columns for any counts of values, and truncated strings.

`RequestsAreServed` and `ResultsAreComplete` draw them together for the inputs of the runs.

**SearchProofs** does the same for the search:

* `ScoresAreParts` and `AreaScoresAreParts`: the scores of joins.  A range is the set of its points, an envelope that
  of its unit squares; products of lengths are sizes of sets, so that a score is the size of what two unions have in
  common, times the weight.  The first assumes ranges of whole numbers that do not overlap; the second nothing, so that
  the bound is the number of the document's envelopes unless these are apart.
* `TextsAreSound`, `TasksAreSound`, `CoverageIsSound`: joins by sketches, the order and resolution of tasks, which
  columns a search looks at.
* `UnionsAreSound`: the greedy choice of pairs is one-to-one and gives way only to pairs as similar, by induction over
  the sorted candidates; the score is at most what the similarities allow of the best of the factors of Elasticsearch.
* `QueriesAreRead`, `RequestsAreAnswered`, `FiltersAreApplied`, `ResultsAreMixed`: what becomes of a query, which
  requests are refused, which datasets are hits, and how joins and unions take turns.

`SearchesAreSound` draws them together.

Only model-checked: liveness (`CallsEnd`, `Served`, `Processed`, `Resolved`, `CopiesCatchUp`), which rests on ENABLED
and is out of the prover's reach; `TablesKept` and `ProfilesCoherent`, of which only parts are theorems
(`TypesAreCoherent`, `StringsFit`): joins in chunks and ranges of clusters select and sort with operators that
`tlapm` does not expand (`SelectSeq`, `SetToSortSeq`), and a proof would be longer than what it is about.

Two checks were made apart from the runs: `CircularWaitsExplained` with three servers, four handlers and failures
(484,479 states), and `Select` of `Eviction`, which was restated so that it can be reasoned about, against the sort
and fold that it replaced (equal in all of 363,897 states).

## What else the models show about the code

Besides the runs that end in a violation, these follow from behaviours of the same models.

Cache and locks:

* A cleaner that is killed while it removes a directory leaves the rest of it under the name of the entry
  (`fscache.py:376`), which the next lookup takes for an entry.
* After a failed creation (`fscache.py:273`) two processes may create the same entry at the same time and write the
  same temporary file (`SingleCreator` without its condition).
* `delete_cache_entry()` tests for the temporary file and removes it after the lock file (`fscache.py:380-385`): by
  then it may belong to a new creator, whose `rename()` raises `FileNotFoundError`.  That takes a directory, or a second
  cleaner: for a file, line 382 looks at the entry instead, so that a single one raises `NotADirectoryError`, and
  `clear_cache()` leaves the rest of the cache alone.
* A lock subprocess that is killed before it answers makes `_lock()` wait for ever; one whose `open()` fails answers
  'ERROR' and exits with 1, and the `SystemExit` that follows replaces the `OSError`; the `return` in `finally`
  swallows the exception of a `proc.start()` that fails.
* Eviction sorts by the time of the `.cache` file, which lookups do not change (`fscache.py:238`), clears entries that
  were created during its scan, and leaves user data out of what triggers it.

Index and profiler:

* Two profilers that rewrite one dataset leave documents of both in the supplementary indices (`common.py:185`), and
  documents that are not refreshed yet escape `delete_by_query` (`common.py:313`).
* An error that is raised after `message.ack()` (`profiler.py:367` to 380) leads to a `nack()` of an acknowledged
  message and no record; one between `add_dataset_to_index()` and the end processes the dataset again.
* The record of a dataset that was too big is written to 'pending' and deleted again (`profiler.py:326` and `339`),
  while `CHANGELOG.md:40` says that this index is for datasets that are "uploaded and waiting, or failed".
* A profiler that finds a dataset empty while another publishes it (`profiler.py:300`) records the error in 'pending';
  the other comes back to delete that record (line 307), and nothing is left of the dataset.
* A document that Elasticsearch refuses in the middle of `add_dataset_to_index()` leaves part of a dataset indexed.
* An apiserver that dies between lines 108 and 121 of `upload.py` leaves an upload "queued" for ever.
* A version without textual columns leaves the sketches of the one before in Lazo; a version that fails after it was
  sketched leaves the index with columns of which there is no sketch, or another.

Discovery:

* A query whose 'work_done' could not be sent stays unacknowledged and, with a prefetch of one, blocks its replica;
  for the same reason four work tickets never limit anything.  The queue is deleted with its last consumer, so the
  comment at `discovery.py:143` is not what happens when a single replica is killed.
* Socrata: a dataset whose processing raised is deleted in the same sweep and comes back with the next; a portal that
  has lost all its datasets keeps them; records in 'pending' of datasets that are gone stay.
* Zenodo: a record whose publication is cut short after its first file is never completed.  Socrata: a dataset that
  is too big is published and profiled again on each sweep.
* A connection to NOAA that fails, or an answer that is not JSON, ends the pass at once (`noaa.py:30`), while errors of
  HTTP are tried again.
* UAZ: groups are adjacent rows, so a name that sorts between a prefix and the same with a comma (`A`, `A x,y`,
  `A,z`) makes two groups of one identifier, the second of which overwrites the first; what
  `write_to_shared_storage()` could not write is recorded as a dataset all the same; a profiler that is slow may
  index an older version after the newer one.
* Coordinator: when its first search fails, an empty list replaces the recent discoveries.

Requests and user data:

* A profile in Redis lacks the conversions when two servers profile one file at a time, or when Redis dropped it
  while the file stayed; a token stands for the converted file, while the same file posted to `/augment` is not
  converted.
* The key of an augmentation does not have the version of the dataset that is named by its id.
* The ExitStack that `contextdecorator` (`common.py:147`) gives to the coroutine `Augment.post()` is left before the
  coroutine runs; the lock on a posted dataset is released when the coroutine's frame is collected.
* A dataset in `/datasets` is sent as it was uploaded, whatever conversions its metadata names
  (`materialize.py:96`), and one that is downloaded through the server is converted twice.
* A dataset that has a direct URL is attached to a session as a file, and sent as a redirection when it is fetched.
* An unknown version of the D3M format is only refused while the result is made (a status of 500).

Search and augmentation:

* Temporal and geographical variables and keywords filter unions but not joins, for which keywords multiply the score
  by ten: it is no longer the part of the data that is covered.
* Bounds of a geographical variable that are written without a fraction are refused (`search/__init__.py:283`).
* `drop_columns` (`augmentation.py:481`) is made of the columns that were asked for, less positions taken for names:
  these are left out of the result, and the others are in it (`AlgorithmsColumns`).
* The sketch of a column that the dataset no longer has makes a task with the column -1 (`join.py:355` to 368).
* The pairing of union columns is greedy: a dataset is dropped when the candidates that are left conflict with its
  best pair.
* A union renames columns onto names that exist, so that values are overwritten by NaN; the maximum of `d3mIndex` is
  that of strings.
* The resolution of dates is guessed from the first chunk only; `first` is NaN when the first chunk has no match;
  requesting the column that is joined on is a `KeyError`.

Profiles and scripts:

* After a batch of addresses was split, the outer batch is sent again at the end and its locations are counted twice.
* `D3mAddIndex` drops what follows a blank line, and a file with a header only raises `ValueError`.
* A column of points of which none is in range makes KMeans raise (`core.py:610-615`), and the profiling with it; a
  pair of coordinates of which no two rows have both, other than 0 and in range, keeps its types and has no area.
* A latitude that a later column with the same stem hides keeps its type without a pair; in a column of points that
  are not written `POINT (x y)`, every value is counted as unclean (`profile_types.py:102`).
* `encode_dataset_id()` has no inverse for characters below 16 or above 255, and `import_all.py` stops there.
* `reprocess_all.py:5` says that the date is kept; `profiler.py:294` sets it to now; fields that uploads define, and
  the license, are lost.

Frontend:

* A late answer replaces newer results, and "Merge" then raises a `TypeError` when the current query has no file;
  `api.augment()` catches what goes wrong, so that the button says that it worked.
* What was chosen or sent for a hit survives a switch to another one.
* The upload form does not compare an answer with the file that is chosen: columns that were corrected for one may be
  sent with another, and closing the dialog without a file leaves "Profiling" for ever.
* A status that could not be fetched is remembered for good (`rest.ts`).

## Abstractions and what is not modelled

* `cache_invalid`, which no caller passes; the loop of `clear_cache()` over the other keys.
* Publishing on RabbitMQ does not fail, but for the answers of on-demand discovery; the contents of documents,
  messages and files are reduced to what the properties tell apart.
* `profile_semaphore` in `Materialize`: a thread that has it waits for nothing that the model has (it is in
  `Indexing`).  Redirections to `direct_url` and requests attached to a session take the same locks or none.
* Elasticsearch, Lazo, Nominatim, RabbitMQ and Redis are not part of the repository: the models have what the code
  relies on.  How Elasticsearch matches texts, and the similarity of names (Levenshtein), are parameters.
* k-means and every statistic on floating point numbers; the join of points to their nearest neighbours; types of
  columns that are given by hand; the checks of an augmentation task and the metadata endpoint.
* Of the frontend: maps, charts, rendering, and filters that ask the server nothing.
* Tests, set-up, documentation, deployment and metrics, which have no behaviour of their own, and the notebooks in
  `examples`, which are clients with their output and make up three fifths of the lines that are counted as
  implementation.  The modules stand for more than half of the Python code that is left; most of the remainder
  is set-up, command lines, metrics, logging, templates of queries and pages, and the floating point code above.
* What `PROJECT.json` calls `not_modelled` or `partly`, with the reason.

## Plan

Done, in this order: the locks of one key, the index, the locks of several keys; the services, the algorithms and the
pages; the safety of each of them, and of their composition, as theorems; theorems of some algorithms.  What is left:

1. composition: profilings of `Indexing` under the sweeps of the plugins and the deletions of the scripts, and the
   eviction with the locks of `FSCache` rather than with entries that are locked or not;
2. the checks of augmentation tasks, the metadata endpoint while a document moves from 'pending' to the index, and
   the types that users give to columns;
3. proofs: that the locks of `Materialize` implement those of `FSCache`; `TablesKept`, with a lemma on the sequences
   that `SelectSeq` makes.
