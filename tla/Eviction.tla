------------------------------- MODULE Eviction -------------------------------
(***************************************************************************)
(* The coordinator's limit on the size of the caches (coordinator/         *)
(* cache.py): a periodic measure on the event loop starts a thread that    *)
(* lists the entries, chooses which to keep, and clears the caches of the  *)
(* others, while services create, lock and delete entries.  An entry is    *)
(* what FSCache makes of it; here a time stamp stands for its file.        *)
(***************************************************************************)
EXTENDS Naturals, Sequences, FiniteSets, FiniteSetsExt, Functions

CONSTANTS
  Entries,
  CacheOf,     \* the cache of each entry: "datasets", "aug" or "user_data"
  Size,        \* of each entry
  High, Low,   \* CACHE_HIGH and CACHE_LOW
  Workers,     \* threads of the executor
  MaxCreations

VARIABLES
  stamp,      \* st_mtime of each entry, 0 when there is none
  locked,     \* entries locked by other processes
  creations,
  scheduled,  \* whether check_cache() is going to be called
  job,        \* of each thread: "idle", "scan", "clear"
  caches,     \* caches it has not come to in this job
  names,      \* entries of the current cache it has not come to
  entries,    \* those it has sized, with their time stamp (0: not seen)
  keep        \* those it keeps

evictionVars ==
  <<stamp, locked, creations, scheduled, job, caches, names, entries, keep>>

CACHES == <<"datasets", "aug", "user_data">>
Present == {e \in Entries : stamp[e] > 0}
TotalSize(S) == MapThenSumSet(LAMBDA e : Size[e], S)
Measured == {e \in Present : CacheOf[e] # "user_data"}

Init ==
  /\ stamp = [e \in Entries |-> 0] /\ locked = {} /\ creations = 0
  /\ scheduled = TRUE
  /\ job = [w \in Workers |-> "idle"]
  /\ caches = [w \in Workers |-> <<>>] /\ names = [w \in Workers |-> {}]
  /\ entries = [w \in Workers |-> [e \in Entries |-> 0]]
  /\ keep = [w \in Workers |-> {}]

threads == <<job, caches, names, entries, keep>>

-----------------------------------------------------------------------------
(* The other services.                                                      *)
Create(e) ==
  /\ creations < MaxCreations /\ stamp[e] = 0
  /\ creations' = creations + 1 /\ stamp' = [stamp EXCEPT ![e] = creations + 1]
  /\ UNCHANGED <<locked, scheduled, threads>>
Acquire(e) ==
  /\ e \in Present \ locked /\ locked' = locked \cup {e}
  /\ UNCHANGED <<stamp, creations, scheduled, threads>>
Release(e) ==
  /\ e \in locked /\ locked' = locked \ {e}
  /\ UNCHANGED <<stamp, creations, scheduled, threads>>

-----------------------------------------------------------------------------
StartThread(w) ==
  /\ job[w] = "idle" /\ job' = [job EXCEPT ![w] = "scan"]
  /\ caches' = [caches EXCEPT ![w] = CACHES]
  /\ UNCHANGED <<names, entries, keep>>
(* getsize() raises when an entry goes away at that moment.                 *)
MayRaise == \E w \in Workers : job[w] = "clear"

(* Mutant: a measure that raises is the last one.                           *)
CheckCacheOnce ==
  /\ scheduled
  /\ \/ TotalSize(Measured) <= High /\ UNCHANGED threads /\ scheduled' = TRUE
     \/ TotalSize(Measured) > High /\ scheduled' = TRUE /\ \E w \in Workers : StartThread(w)
     \/ MayRaise /\ UNCHANGED threads /\ scheduled' = FALSE
  /\ UNCHANGED <<stamp, locked, creations>>

(* check_cache(): the finally block schedules the next call in any case.    *)
(* User data is measured, but does not count.                               *)
CheckCache ==
  /\ scheduled
  /\ \/ (TotalSize(Measured) <= High \/ MayRaise) /\ UNCHANGED threads
     \/ TotalSize(Measured) > High /\ \E w \in Workers : StartThread(w)
  /\ scheduled' = TRUE
  /\ UNCHANGED <<stamp, locked, creations>>

(* clear_caches(): listdir() of the next cache; of clear_cache(), too.      *)
ListDir(w) ==
  /\ job[w] # "idle" /\ names[w] = {} /\ caches[w] # <<>>
  /\ caches' = [caches EXCEPT ![w] = Tail(@)]
  /\ names' = [names EXCEPT ![w] = {e \in Present : CacheOf[e] = Head(caches[w])}]
  /\ UNCHANGED <<stamp, locked, creations, scheduled, job, entries, keep>>

End(w) ==
  /\ job' = [job EXCEPT ![w] = "idle"] /\ caches' = [caches EXCEPT ![w] = <<>>]
  /\ names' = [names EXCEPT ![w] = {}] /\ keep' = [keep EXCEPT ![w] = {}]
  /\ entries' = [entries EXCEPT ![w] = [e \in Entries |-> 0]]

(* os.stat(): the whole eviction is aborted when the entry is gone.         *)
Stat(w) ==
  /\ job[w] = "scan"
  /\ \E e \in names[w] :
       IF stamp[e] = 0
       THEN End(w)
       ELSE /\ entries' = [entries EXCEPT ![w][e] = stamp[e]]
            /\ names' = [names EXCEPT ![w] = @ \ {e}]
            /\ UNCHANGED <<job, caches, keep>>
  /\ UNCHANGED <<stamp, locked, creations, scheduled>>

Seen(w) == {e \in Entries : entries[w][e] > 0}
Newer(w, e) == {f \in Seen(w) : entries[w][f] > entries[w][e]}
(* Mutant: the oldest first.                                                *)
Newest(w, S) == CHOOSE e \in S : \A f \in S : entries[w][e] >= entries[w][f]
Oldest(w, S) == CHOOSE e \in S : \A f \in S : entries[w][e] <= entries[w][f]
(* The entries by date, the newest first, as far as they fit: kept[S] is    *)
(* what the loop has kept when it has come to the entries of S, the oldest  *)
(* of them last.                                                            *)
Select(w) ==
  LET kept[S \in SUBSET Seen(w)] ==
        IF S = {} THEN {}
        ELSE LET e == Oldest(w, S)
                 before == kept[S \ {e}]
             IN IF TotalSize(before) + Size[e] <= Low THEN before \cup {e} ELSE before
  IN kept[Seen(w)]

Choose(w) ==
  /\ job[w] = "scan" /\ names[w] = {} /\ caches[w] = <<>>
  /\ keep' = [keep EXCEPT ![w] = Select(w)]
  /\ job' = [job EXCEPT ![w] = "clear"] /\ caches' = [caches EXCEPT ![w] = CACHES]
  /\ UNCHANGED <<stamp, locked, creations, scheduled, names, entries>>

(* clear_cache() with should_delete, and a timeout of 0: an entry that is   *)
(* locked stays, and one that is not there any more does no harm.           *)
Clear(w) ==
  /\ job[w] = "clear"
  /\ \E e \in names[w] :
       /\ names' = [names EXCEPT ![w] = @ \ {e}]
       /\ stamp' = IF e \in keep[w] \cup locked THEN stamp ELSE [stamp EXCEPT ![e] = 0]
  /\ UNCHANGED <<locked, creations, scheduled, job, caches, entries, keep>>

Done(w) ==
  /\ job[w] = "clear" /\ names[w] = {} /\ caches[w] = <<>>
  /\ End(w) /\ UNCHANGED <<stamp, locked, creations, scheduled>>

Steps(w) == ListDir(w) \/ Stat(w) \/ Choose(w) \/ Clear(w) \/ Done(w)
Next ==
  \/ CheckCache \/ \E w \in Workers : Steps(w)
  \/ \E e \in Entries : Create(e) \/ Acquire(e) \/ Release(e)

Spec == Init /\ [][Next]_evictionVars

-----------------------------------------------------------------------------
EvictionTypeOK ==
  /\ stamp \in [Entries -> 0..MaxCreations] /\ locked \subseteq Entries
  /\ creations \in 0..MaxCreations /\ scheduled \in BOOLEAN
  /\ job \in [Workers -> {"idle", "scan", "clear"}]
  /\ caches \in [Workers -> Seq(Range(CACHES))] /\ names \in [Workers -> SUBSET Entries]
  /\ entries \in [Workers -> [Entries -> 0..MaxCreations]]
  /\ keep \in [Workers -> SUBSET Entries]

(* "Select entries to keep while staying under threshold": what is kept     *)
(* fits, and an entry that was seen and is not kept does not fit beside the *)
(* newer ones that are.                                                     *)
KeepsNewest ==
  \A w \in Workers : job[w] = "clear" =>
    /\ keep[w] \subseteq Seen(w) /\ TotalSize(keep[w]) <= Low
    /\ \A e \in Seen(w) \ keep[w] : TotalSize(keep[w] \cap Newer(w, e)) + Size[e] > Low

(* Evictions that are aborted, overlap or find entries locked leave the     *)
(* caches over the limit only until nobody uses the entries.                *)
LimitRestored == <>[](locked = {}) => <>[](TotalSize(Measured) <= High)
=============================================================================
