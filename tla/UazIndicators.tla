---------------------------- MODULE UazIndicators ----------------------------
(***************************************************************************)
(* A source that cannot be downloaded again dataset by dataset: discovery/ *)
(* uaz_indicators/uaz_indicators.py splits one database into datasets and  *)
(* leaves them in shared storage (write_to_shared_storage() of discovery.  *)
(* py), from where profilers read them (materialize.py).  The E-Tag of the *)
(* database, kept in 'pending', says what is done already.                 *)
(***************************************************************************)
EXTENDS Naturals, FiniteSets

CONSTANTS
  Groups,     \* the datasets the database is split into
  MaxEvents   \* bound on new versions of the database and on failures

VARIABLES
  version,    \* of the database
  etag,       \* the version recorded, 0 for none
  stage,      \* "idle", "make", "write"
  current,    \* the version that was downloaded
  remaining,  \* groups it has not come to
  group,      \* the one it writes
  storage,    \* version of each dataset in /datasets, 0 when there is none
  messages,   \* discovered datasets to profile
  reading,    \* datasets that profilers read, with the version they found
  index,      \* version of each dataset in 'datamart', 0 when there is none
  behind,     \* history: datasets last indexed in a version that is not stored, or not read
  lost,       \* datasets whose last write failed
  uazEvents

uazVars ==
  <<version, etag, stage, current, remaining, group, storage, messages, reading, index, behind,
    lost, uazEvents>>
profilerVars == <<reading, index, behind>>

UazVersions == 0..(MaxEvents + 1)

Init ==
  /\ version = 1 /\ etag = 0 /\ stage = "idle" /\ current = 0 /\ remaining = {}
  /\ group \in Groups
  /\ storage = [g \in Groups |-> 0] /\ messages = {} /\ index = [g \in Groups |-> 0]
  /\ reading = {} /\ behind = {} /\ lost = {} /\ uazEvents = 0

UazEvent == uazEvents < MaxEvents /\ uazEvents' = uazEvents + 1

NewVersion ==
  /\ UazEvent /\ version' = version + 1
  /\ UNCHANGED <<etag, stage, current, remaining, group, storage, messages, profilerVars, lost>>

(* get_data(): not when the server answers 304.                             *)
GetData ==
  /\ stage = "idle" /\ etag # version
  /\ stage' = "make" /\ current' = version /\ remaining' = Groups
  /\ UNCHANGED <<version, etag, group, storage, messages, profilerVars, lost, uazEvents>>

(* write_to_shared_storage() removes what is there ...                      *)
Remove(g) ==
  /\ stage = "make" /\ g \in remaining
  /\ stage' = "write" /\ group' = g /\ remaining' = remaining \ {g}
  /\ storage' = [storage EXCEPT ![g] = 0]
  /\ UNCHANGED <<version, etag, current, messages, profilerVars, lost, uazEvents>>

(* ... and renames the new directory, once it is written.  A write that     *)
(* raises is forgotten with its directory; the dataset is recorded anyway.  *)
Write ==
  /\ stage = "write" /\ stage' = "make"
  /\ \/ /\ storage' = [storage EXCEPT ![group] = current] /\ lost' = lost \ {group}
        /\ UNCHANGED uazEvents
     \/ UazEvent /\ lost' = lost \cup {group} /\ UNCHANGED storage
  /\ messages' = messages \cup {group}
  /\ UNCHANGED <<version, etag, current, remaining, group, profilerVars>>

(* Mutant: the E-Tag is recorded before the datasets are.                   *)
RecordEarly ==
  /\ stage = "make" /\ etag' = current
  /\ stage' = (IF remaining = {} THEN "idle" ELSE stage)
  /\ UNCHANGED <<version, current, remaining, group, storage, messages, profilerVars, lost, uazEvents>>

RecordEtag ==
  /\ stage = "make" /\ remaining = {}
  /\ etag' = current /\ stage' = "idle"
  /\ UNCHANGED <<version, current, remaining, group, storage, messages, profilerVars, lost, uazEvents>>

(* The discoverer is restarted, or an exception ends get_data().            *)
Stop ==
  /\ stage # "idle" /\ UazEvent
  /\ stage' = "idle" /\ remaining' = {}
  /\ UNCHANGED <<version, etag, current, group, storage, messages, profilerVars, lost>>

sourceVars == <<version, etag, stage, current, remaining, group, storage, lost, uazEvents>>

(* A profiler finds the dataset in /datasets, or else has no way to get it, *)
(* and moves it to 'pending'.                                               *)
Read(g) ==
  /\ g \in messages /\ messages' = messages \ {g}
  /\ reading' = reading \cup {<<g, v>> : v \in {storage[g]} \ {0}}
  /\ UNCHANGED <<sourceVars, index, behind>>

(* What it has read is indexed, in the order in which profilers finish ...  *)
Index(g, v) ==
  /\ <<g, v>> \in reading /\ reading' = reading \ {<<g, v>>}
  /\ index' = [index EXCEPT ![g] = v]
  /\ behind' = IF v = storage[g] THEN behind \ {g} ELSE behind \cup {g}
  /\ UNCHANGED <<sourceVars, messages>>
(* ... or cannot be profiled: removed under the reader, maybe.              *)
ProfileFails(g, v) ==
  /\ <<g, v>> \in reading /\ reading' = reading \ {<<g, v>>}
  /\ behind' = behind \cup {g}
  /\ UNCHANGED <<sourceVars, messages, index>>

Discover == GetData \/ Write \/ RecordEtag \/ \E g \in Groups : Remove(g)
Next ==
  \/ Discover \/ NewVersion \/ Stop
  \/ \E g \in Groups : Read(g) \/ \E v \in UazVersions : Index(g, v) \/ ProfileFails(g, v)

Spec == Init /\ [][Next]_uazVars

-----------------------------------------------------------------------------
UazTypeOK ==
  /\ version \in UazVersions /\ etag \in UazVersions /\ current \in UazVersions
  /\ stage \in {"idle", "make", "write"} /\ remaining \subseteq Groups /\ group \in Groups
  /\ storage \in [Groups -> UazVersions] /\ messages \subseteq Groups
  /\ reading \subseteq Groups \X UazVersions /\ index \in [Groups -> UazVersions]
  /\ behind \subseteq Groups /\ lost \subseteq Groups
  /\ uazEvents \in 0..MaxEvents

(* When the E-Tag says that this version of the database is done, then each *)
(* of its datasets is stored, and indexed or on its way: restarts redo what *)
(* was left.  What goes unnoticed, and is not retried before the database   *)
(* changes, is a write that raised, a profiler that failed, or one that was *)
(* slow, and indexed an older version after the new one.                    *)
EtagTruthful ==
  etag = version => \A g \in Groups \ lost :
    /\ storage[g] = version
    /\ index[g] = version \/ g \in messages \/ <<g, version>> \in reading \/ g \in behind

(* Until then, the discoverer comes back to it.                             *)
UazSettles == <>[](etag = version /\ \A g \in Groups \ (lost \cup behind) : index[g] = version)
=============================================================================
