----------------------------- MODULE Materialize -----------------------------
(***************************************************************************)
(* The callers of the file cache, and the locks they hold on several keys  *)
(* at once: get_dataset() of lib_core/datamart_core/materialize.py, the    *)
(* conversions of profiler/profiler.py, and the download and augmentation  *)
(* endpoints of apiserver/apiserver.                                       *)
(*                                                                         *)
(* A key is what CacheContract promises of it: FSCache models the lookup   *)
(* and the creation of one entry system call by system call, here each is  *)
(* a few steps.  The threads of a profiler run side by side; the requests  *)
(* of one apiserver process share its event loop, which they only give up  *)
(* where they await, with whatever locks they hold.                        *)
(***************************************************************************)
EXTENDS Naturals, Sequences

CONSTANTS
  Datasets,
  Stored,       \* datasets found in /datasets, that need no cache entry
  Converted,    \* datasets the profiler has to convert to CSV
  DataIds,      \* datasets a client may ask to augment
  Handlers,     \* requests to the apiservers
  Threads,      \* threads of the profilers
  Server,       \* the apiserver process each handler is a coroutine of
  Endpoints,    \* the endpoints each handler serves
  CreateMayFail,\* whether a creation may raise
  None          \* no process

Procs == Handlers \cup Threads
Loop(p) == IF p \in Handlers THEN Server[p] ELSE p
Loops == {Loop(p) : p \in Procs}

ASSUME DatasetsAssumption ==
  Stored \subseteq Datasets /\ Converted \subseteq Datasets /\ DataIds \subseteq Datasets
ASSUME ProcsAssumption ==
  /\ Handlers \cap Threads = {} /\ DOMAIN Server = Handlers
  /\ \A h \in Handlers : Server[h] \notin Threads
  /\ None \notin Procs
ASSUME EndpointsAssumption ==
  Endpoints \in [Handlers -> SUBSET {"download", "augment", "result"}]
ASSUME FailAssumption == CreateMayFail \in BOOLEAN

(* dataset_cache_key(): the id, the conversions and the format name a key.  *)
(* "raw" is the file as the source has it, "csv" the one that the metadata  *)
(* of the index names, which is the same unless there are conversions.      *)
Raw(d) == [kind |-> IF d \in Converted THEN "raw" ELSE "csv", of |-> <<d>>]
Csv(d) == [kind |-> "csv", of |-> <<d>>]
Format(d) == [kind |-> "format", of |-> <<d>>]
(* hash_json(task, supplied_data, ...): posted data, or a dataset as data   *)
AugPosted(d) == [kind |-> "aug", of |-> <<d>>]
AugDataset(d, e) == [kind |-> "aug", of |-> <<d, e>>]
(* The data a client posted, by its hash: one client's                      *)
UserData == [kind |-> "user", of |-> <<>>]

Keys ==
  {UserData} \cup {AugDataset(d, e) : d \in Datasets, e \in DataIds}
  \cup (UNION {{Raw(d), Csv(d), Format(d), AugPosted(d)} : d \in Datasets})

VARIABLES
  entry,    \* whether each key has an entry
  writer,   \* the process that has the key locked exclusively and creates it
  held,     \* how many with-blocks of each process are on each key
  todo,     \* what is left of each request: a sequence of operations
  phase,    \* in the operation: "look", "lock"; or "unwind" after an exception
  loop      \* the process that runs on each loop

vars == <<entry, writer, held, todo, phase, loop>>

-----------------------------------------------------------------------------
(* The requests, as the operations they perform in order:                   *)
(*   get    enter cache_get_or_set()        drop   leave a with-block       *)
(*   peek   enter cache_get()               made   create_function() returns*)
(*   work   read the inputs of a key        send   await the client's reads *)

OpNames == {"get", "peek", "drop", "work", "made", "send", "sent"}
Op(name, key) == <<[op |-> name, key |-> key]>>
(* What get_dataset() locks for the CSV file                                *)
WithCsv(d, body) ==
  IF d \in Stored THEN body ELSE Op("get", Csv(d)) \o body \o Op("drop", Csv(d))

Send(key) == Op("send", key) \o Op("sent", key)
Download(d) == WithCsv(d, Send(Csv(d)))
(* Mutant: the CSV file is not kept locked while it is converted.           *)
DownloadAsApart(d) ==
  WithCsv(d, <<>>) \o Op("get", Format(d)) \o Send(Format(d)) \o Op("drop", Format(d))

(* Hand over hand: the CSV file is let go of once the other one is locked.  *)
DownloadAs(d) ==
  WithCsv(d, Op("get", Format(d))) \o Send(Format(d)) \o Op("drop", Format(d))
(* materialize_and_process_dataset(): the ExitStack keeps the original and  *)
(* the converted file to the end of the profiling.                          *)
Profile(d) ==
  LET convert == IF d \in Converted
                 THEN Op("get", Csv(d)) \o Op("work", Csv(d)) \o Op("drop", Csv(d))
                 ELSE Op("work", Csv(d))
  IN IF d \in Stored THEN convert ELSE Op("get", Raw(d)) \o convert \o Op("drop", Raw(d))

(* handle_data_parameter(), and post() of Augment.  The ExitStack of post() *)
(* was left when the coroutine was made (common.py:151): the lock on the    *)
(* posted data goes with the frame of the coroutine, when it ends.          *)
PostData == Op("get", UserData) \o Op("drop", UserData)
Augment(key) == Op("get", key) \o Send(key) \o Op("drop", key)
AugmentToken(d) == Op("peek", UserData) \o PostData \o Augment(AugPosted(d)) \o Op("drop", UserData)
AugmentResult(key) == Op("peek", key) \o Send(key) \o Op("drop", key)

Serve(endpoint, d) ==
  CASE endpoint = "download" -> {Download(d), DownloadAs(d)}
    [] endpoint = "augment" ->
         {PostData \o Augment(AugPosted(d)), AugmentToken(d)}
         \cup {Augment(AugDataset(d, e)) : e \in DataIds}
    [] endpoint = "result" -> {AugmentResult(AugPosted(d))}

Requests(p) ==
  IF p \in Threads THEN {Profile(d) : d \in Datasets}
  ELSE UNION {Serve(endpoint, d) : endpoint \in Endpoints[p], d \in Datasets}

(* What create_function() does.  A profiler that converts has the original  *)
(* locked already; create_aug() locks the datasets it reads.                *)
Create(key) ==
  IF key.kind # "aug" THEN Op("work", key)
  ELSE IF Len(key.of) = 1 THEN WithCsv(key.of[1], Op("work", key))
  ELSE WithCsv(key.of[1], WithCsv(key.of[2], Op("work", key)))

-----------------------------------------------------------------------------
Init ==
  /\ entry = [k \in Keys |-> FALSE]
  /\ writer = [k \in Keys |-> None]
  /\ held = [p \in Procs |-> [k \in Keys |-> 0]]
  /\ todo = [p \in Procs |-> <<>>]
  /\ phase = [p \in Procs |-> "look"]
  /\ loop = [l \in Loops |-> None]

At(p, op, ph) ==
  todo[p] # <<>> /\ Head(todo[p]).op = op /\ phase[p] = ph /\ loop[Loop(p)] = p
KeyOf(p) == Head(todo[p]).key

Hold(p, k) == held' = [held EXCEPT ![p][k] = @ + 1]

(* The loop runs something else once the request is over.                   *)
Continue(p, rest) ==
  /\ todo' = [todo EXCEPT ![p] = rest]
  /\ phase' = [phase EXCEPT ![p] = IF rest = <<>> \/ @ # "unwind" THEN "look" ELSE @]
  /\ loop' = [loop EXCEPT ![Loop(p)] = IF rest = <<>> THEN None ELSE @]

Start(p) ==
  /\ todo[p] = <<>> /\ loop[Loop(p)] = None
  /\ \E request \in Requests(p) : todo' = [todo EXCEPT ![p] = request]
  /\ loop' = [loop EXCEPT ![Loop(p)] = p]
  /\ UNCHANGED <<entry, writer, held, phase>>

(* Mutant: the shared lock is kept while the exclusive one is waited for.    *)
LookAndKeep(p) ==
  LET k == KeyOf(p) IN
  /\ At(p, "get", "look") /\ writer[k] = None
  /\ Hold(p, k)
  /\ IF entry[k]
     THEN Continue(p, Tail(todo[p]))
     ELSE phase' = [phase EXCEPT ![p] = "lock"] /\ UNCHANGED <<todo, loop>>
  /\ UNCHANGED <<entry, writer>>

(* The shared lock: the subprocess answers at once unless somebody creates. *)
Look(p) ==
  LET k == KeyOf(p) IN
  /\ At(p, "get", "look") /\ writer[k] = None
  /\ IF entry[k]
     THEN Hold(p, k) /\ Continue(p, Tail(todo[p]))
     ELSE phase' = [phase EXCEPT ![p] = "lock"] /\ UNCHANGED <<held, todo, loop>>
  /\ UNCHANGED <<entry, writer>>

Unused(k) == writer[k] = None /\ \A q \in Procs : held[q][k] = 0

(* Mutant: the entry is not looked for again under the exclusive lock.      *)
LockAndCreate(p) ==
  /\ At(p, "get", "lock") /\ Unused(KeyOf(p))
  /\ writer' = [writer EXCEPT ![KeyOf(p)] = p]
  /\ todo' = [todo EXCEPT ![p] = Create(KeyOf(p)) \o Op("made", KeyOf(p)) \o @]
  /\ phase' = [phase EXCEPT ![p] = "look"]
  /\ UNCHANGED <<entry, held, loop>>
(* The exclusive lock: create the entry, or look again if somebody else did.*)
Lock(p) ==
  LET k == KeyOf(p) IN
  /\ At(p, "get", "lock") /\ Unused(k)
  /\ IF entry[k]
     THEN UNCHANGED <<writer, todo>>
     ELSE /\ writer' = [writer EXCEPT ![k] = p]
          /\ todo' = [todo EXCEPT ![p] = Create(k) \o Op("made", k) \o @]
  /\ phase' = [phase EXCEPT ![p] = "look"]
  /\ UNCHANGED <<entry, held, loop>>

(* The entry is renamed into place and unlocked, and looked up again.       *)
Made(p) ==
  LET k == KeyOf(p) IN
  /\ At(p, "made", "look")
  /\ entry' = [entry EXCEPT ![k] = TRUE]
  /\ writer' = [writer EXCEPT ![k] = None]
  /\ Continue(p, Tail(todo[p]))
  /\ UNCHANGED held

(* Mutant: cache_get() does not check that the entry exists.                *)
PeekUnchecked(p) ==
  /\ At(p, "peek", "look") /\ writer[KeyOf(p)] = None
  /\ Hold(p, KeyOf(p)) /\ Continue(p, Tail(todo[p]))
  /\ UNCHANGED <<entry, writer>>
Peek(p) ==
  LET k == KeyOf(p) IN
  /\ At(p, "peek", "look") /\ writer[k] = None
  /\ IF entry[k]
     THEN Hold(p, k) /\ Continue(p, Tail(todo[p]))
     ELSE phase' = [phase EXCEPT ![p] = "unwind"] /\ UNCHANGED <<held, todo, loop>>
  /\ UNCHANGED <<entry, writer>>

Work(p) ==
  /\ At(p, "work", "look")
  /\ \/ Continue(p, Tail(todo[p]))
     \/ /\ CreateMayFail
        /\ phase' = [phase EXCEPT ![p] = "unwind"]
        /\ UNCHANGED <<todo, loop>>
  /\ UNCHANGED <<entry, writer, held>>

(* Mutant: a lock that was never entered is left like the others.           *)
DropAnyway(p) ==
  /\ \E ph \in {"look", "unwind"} : At(p, "drop", ph)
  /\ held' = [held EXCEPT ![p][KeyOf(p)] = @ - 1]
  /\ Continue(p, Tail(todo[p]))
  /\ UNCHANGED <<entry, writer>>
Drop(p) ==
  /\ \E ph \in {"look", "unwind"} : At(p, "drop", ph)
  /\ held' = [held EXCEPT ![p][KeyOf(p)] = IF @ = 0 THEN 0 ELSE @ - 1]
  /\ Continue(p, Tail(todo[p]))
  /\ UNCHANGED <<entry, writer>>

(* await self.flush(): the loop is free for others until the client reads.  *)
Await(p) ==
  /\ At(p, "send", "look")
  /\ todo' = [todo EXCEPT ![p] = Tail(@)]
  /\ loop' = [loop EXCEPT ![Loop(p)] = None]
  /\ UNCHANGED <<entry, writer, held, phase>>
Resume(p) ==
  /\ todo[p] # <<>> /\ Head(todo[p]).op = "sent" /\ phase[p] = "look"
  /\ loop[Loop(p)] = None
  /\ todo' = [todo EXCEPT ![p] = Tail(@)]
  /\ loop' = [loop EXCEPT ![Loop(p)] = IF Tail(todo[p]) = <<>> THEN None ELSE p]
  /\ UNCHANGED <<entry, writer, held, phase>>

(* Mutant: the lock of a creation that raised is kept.                      *)
UnwindKeepsLock(p) ==
  /\ \E op \in OpNames \ {"drop"} : At(p, op, "unwind")
  /\ Continue(p, Tail(todo[p]))
  /\ UNCHANGED <<entry, writer, held>>
(* An exception leaves the with-blocks and skips the rest; the exclusive    *)
(* lock of a creation that raised is released without an entry.             *)
Unwind(p) ==
  /\ \E op \in OpNames \ {"drop"} : At(p, op, "unwind")
  /\ writer' = IF Head(todo[p]).op = "made" THEN [writer EXCEPT ![KeyOf(p)] = None] ELSE writer
  /\ Continue(p, Tail(todo[p]))
  /\ UNCHANGED <<entry, held>>

(* delete_cache_entry() by the coordinator, or scripts/clear_caches.py      *)
Evict(k) ==
  /\ entry[k] /\ Unused(k)
  /\ entry' = [entry EXCEPT ![k] = FALSE]
  /\ UNCHANGED <<writer, held, todo, phase, loop>>

Step(p) ==
  \/ Look(p) \/ Lock(p) \/ Made(p) \/ Peek(p) \/ Work(p)
  \/ Drop(p) \/ Await(p) \/ Resume(p) \/ Unwind(p)

Next == (\E p \in Procs : Start(p) \/ Step(p)) \/ (\E k \in Keys : Evict(k))

Spec == Init /\ [][Next]_vars
-----------------------------------------------------------------------------
(* The data model and who may be where.                                     *)
TypeOK ==
  /\ entry \in [Keys -> BOOLEAN]
  /\ writer \in [Keys -> Procs \cup {None}]
  /\ held \in [Procs -> [Keys -> Nat]]
  /\ todo \in [Procs -> Seq([op : OpNames, key : Keys])]
  /\ phase \in [Procs -> {"look", "lock", "unwind"}]
  /\ loop \in [Loops -> Procs \cup {None}]

(* An entry somebody is in a with-block on is there, and nobody creates it. *)
HeldThere ==
  \A p \in Procs, k \in Keys : held[p][k] > 0 => entry[k] /\ writer[k] = None

(* With it, what makes an entry be created once and by one process: there   *)
(* is none while it is created, and only the process that has the key       *)
(* locked has its completion ahead, once.                                   *)
NotYetThere == \A k \in Keys : writer[k] # None => ~entry[k]
Completes(p, i) == i \in DOMAIN todo[p] /\ todo[p][i].op = "made"
MadeByWriter ==
  \A p \in Procs : \A i \in DOMAIN todo[p] :
    Completes(p, i) => writer[todo[p][i].key] = p
MadeOnce ==
  \A p \in Procs : \A i, j \in DOMAIN todo[p] :
    Completes(p, i) /\ Completes(p, j) /\ todo[p][i].key = todo[p][j].key => i = j
IInv == HeldThere /\ NotYetThere /\ MadeByWriter /\ MadeOnce

(* What a process reads at this point, as cache entries: files of /datasets *)
(* are not locked.                                                          *)
Reads(p) ==
  LET k == KeyOf(p)
      csvs == {Csv(k.of[i]) : i \in {j \in DOMAIN k.of : k.of[j] \notin Stored}}
      raws == {Raw(k.of[i]) : i \in {j \in DOMAIN k.of : k.of[j] \notin Stored}}
  IN CASE k.kind = "user" -> {}
       [] k.kind \in {"format", "aug"} -> IF writer[k] = p THEN csvs ELSE {k}
       [] k.kind \in {"raw", "csv"} ->
            IF writer[k] # p THEN csvs ELSE IF p \in Threads THEN raws \ {k} ELSE {}

(* Whoever converts, augments, profiles or sends keeps every entry it reads *)
(* locked, also when the request gives up the lock on one file for another. *)
InputsHeld ==
  \A p \in Procs :
    todo[p] # <<>> /\ phase[p] = "look" /\ Head(todo[p]).op \in {"work", "send", "sent"}
      => \A k \in Reads(p) : held[p][k] > 0

(* A request that is over, however it ended, has released its locks.        *)
NothingKept ==
  \A p \in Procs :
    todo[p] = <<>> => \A k \in Keys : held[p][k] = 0 /\ writer[k] # p

(* p cannot move before q does.                                             *)
WaitsFor(p, q) ==
  /\ todo[p] # <<>> /\ phase[p] # "unwind"
  /\ \/ /\ Head(todo[p]).op \in {"get", "peek"}
        /\ \/ writer[KeyOf(p)] = q
           \/ phase[p] = "lock" /\ held[q][KeyOf(p)] > 0
     \/ Head(todo[p]).op = "sent" /\ loop[Loop(p)] = q

Circular(S) == S # {} /\ \A p \in S : \E q \in S : WaitsFor(p, q)

(* Waiting for locks and for the event loop always ends: no processes wait  *)
(* for each other.                                                          *)
NoCircularWait == \A S \in SUBSET Procs : ~Circular(S)

(* It takes two apiservers.  On one, p creates an augmentation and waits for *)
(* a dataset that others have locked; on another, r waits for the           *)
(* augmentation; and some q is suspended while it sends a file that t waits  *)
(* for, on a loop that is not p's and that is not given up.  With two        *)
(* apiservers that is the loop of r; with more, the wait may be longer.      *)
CircularWaitsExplained ==
  \A S \in SUBSET Procs : Circular(S) =>
    \E p, q, r, t \in S :
      /\ {p, r} \subseteq Handlers /\ Loop(r) # Loop(p)
      /\ KeyOf(r).kind = "aug" /\ writer[KeyOf(r)] = p
      /\ KeyOf(p).kind = "csv" /\ phase[p] = "lock"
      /\ Head(todo[q]).op = "sent" /\ Loop(q) # Loop(p) /\ loop[Loop(q)] \in S
      /\ KeyOf(t).kind \in {"csv", "format"} /\ phase[t] = "lock" /\ held[q][KeyOf(t)] > 0

(* Every key is an entry that keeps the promises of the cache.              *)
Promise(k) == INSTANCE CacheContract WITH
  Readers <- Procs, content <- IF entry[k] THEN "whole" ELSE "none",
  readers <- {p \in Procs : held[p][k] > 0}, broken <- FALSE
PromisesKept ==
  /\ \A k \in Keys : Promise(k)!Init
  /\ [][\A k \in Keys : Promise(k)!Next \/ UNCHANGED Promise(k)!vars]_vars
=============================================================================
