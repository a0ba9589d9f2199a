------------------------------- MODULE FSCache -------------------------------
(***************************************************************************)
(* One key of the file cache of lib_core/datamart_core/fscache.py.         *)
(*                                                                         *)
(* A cache directory holds three paths per key: KEY.cache (the entry),     *)
(* KEY.lock (locked with flock, shared to read and exclusive to create or  *)
(* delete) and KEY.temp (the entry being created).  Keys share nothing, so *)
(* one key is modelled; the processes are                                  *)
(*   - Clients (apiserver and profiler): cache_get_or_set() and cache_get()*)
(*   - Cleaners (coordinator, scripts/clear_caches.py): clear_cache().     *)
(* A step is one system call of the code (open, flock, exists, rename,     *)
(* unlink, close): that is the grain at which processes interleave.        *)
(***************************************************************************)
EXTENDS Naturals, FiniteSets

CONSTANTS
  Clients,        \* processes that look entries up and create them
  Cleaners,       \* processes that delete entries
  Inodes,         \* inode numbers the file system gives to lock files
  NoFile,         \* a path that does not exist, a descriptor not open
  TempKind,       \* "file" or "dir": what create_function() writes
  CreateMayFail,  \* whether create_function() may raise
  MayCrash        \* whether a process may be killed

Procs == Clients \cup Cleaners

(* What a path refers to: the processes still writing the file, and whether *)
(* its content was damaged (two writers, or a writer that gave up or died). *)
File == [writing : SUBSET Procs, torn : BOOLEAN]

ASSUME ProcsAssumption == Clients \cap Cleaners = {}
ASSUME NoFileAssumption == NoFile \notin Inodes /\ NoFile \notin File
ASSUME ModesAssumption ==
  TempKind \in {"file", "dir"} /\ CreateMayFail \in BOOLEAN /\ MayCrash \in BOOLEAN

VARIABLES
  lockFile,   \* the inode KEY.lock is linked to, or NoFile
  entry,      \* the File at KEY.cache, or NoFile
  temp,       \* the File at KEY.temp, or NoFile
  pc,         \* where each process is, one of Labels
  fd,         \* the inode of the lock file each process has open, or NoFile
  held,       \* the flock each process holds on that inode
  call,       \* the call each process is in, one of Calls
  raised,     \* what the last call of a process raised, or "nothing"
  broken,     \* history: how the locking has failed, some of Failures
  unlinked    \* history: somebody has unlinked a lock file

files == <<lockFile, entry, temp>>
locks == <<fd, held>>
history == <<broken, unlinked>>
vars == <<lockFile, entry, temp, pc, fd, held, call, raised, broken, unlinked>>

(* cache_get(), cache_get_or_set(), clear_cache() with only_if_possible     *)
(* false and true, or nothing.  No caller passes cache_invalid.             *)
Calls == {"none", "get", "get_or_set", "clear", "clear_if_possible"}

Labels ==
  {"idle", "openShared", "waitShared", "checkShared", "touch", "reading",
   "missing", "openExclusive", "waitExclusive", "checkExclusive",
   "clearTemp", "dropTemp", "startCreate", "creating", "rename",
   "failTemp", "dropFailed", "failLock",
   "removeEntry", "emptyEntry", "removeLock",
   "removeTemp", "testEntry", "removeTempFile", "removeTempTree", "emptyTemp",
   "unlockRetry", "unlockCreate", "unlockReturn", "unlockUnlinked"}

Errors ==
  {"nothing", "CreateError", "FileNotFoundError", "NotADirectoryError", "OSError"}

(* "stale": a flock was granted on a lock file that was unlinked;           *)
(* "robbed": a cleaner removed the temporary file that another process has; *)
(* "halved": a cleaner was killed in the middle of a directory.             *)
Failures == {"stale", "robbed", "halved"}

-----------------------------------------------------------------------------
(* _lock() and _lock_process(): flock(2) locks the inode that was opened,   *)
(* whatever the path refers to since.                                       *)

Holders(i) == {q \in Procs : fd[q] = i /\ held[q] # "none"}
Grantable(i, mode) ==
  \A q \in Holders(i) : mode = "shared" /\ held[q] = "shared"

(* An inode number the file system may give to a new file.                  *)
FreeInodes == {i \in Inodes : i # lockFile /\ \A q \in Procs : fd[q] # i}

Goto(p, label) == pc' = [pc EXCEPT ![p] = label]
Return(p) == pc' = [pc EXCEPT ![p] = "idle"] /\ call' = [call EXCEPT ![p] = "none"]
Raise(p, error) == raised' = [raised EXCEPT ![p] = error]

(* os.open(filepath, O_RDONLY): NOTFOUND when there is no lock file.        *)
OpenShared(p) ==
  /\ pc[p] = "openShared"
  /\ fd' = [fd EXCEPT ![p] = lockFile]
  /\ Goto(p, IF lockFile # NoFile THEN "waitShared"
             ELSE IF call[p] = "get" THEN "missing" ELSE "openExclusive")
  /\ UNCHANGED <<files, held, call, raised, history>>

(* os.open(filepath, O_RDONLY | O_CREAT), for a client and for a cleaner    *)
OpenExclusive(p) ==
  /\ pc[p] = "openExclusive"
  /\ IF lockFile # NoFile THEN UNCHANGED lockFile ELSE lockFile' \in FreeInodes
  /\ fd' = [fd EXCEPT ![p] = lockFile']
  /\ Goto(p, "waitExclusive")
  /\ UNCHANGED <<entry, temp, held, call, raised, history>>

Grant(p, mode) ==
  /\ Grantable(fd[p], mode)
  /\ held' = [held EXCEPT ![p] = mode]
  /\ broken' = IF fd[p] = lockFile THEN broken ELSE broken \cup {"stale"}
  /\ UNCHANGED <<files, fd, call, raised, unlinked>>

GrantShared(p) ==
  pc[p] = "waitShared" /\ Grant(p, "shared") /\ Goto(p, "checkShared")
GrantExclusive(p) ==
  pc[p] = "waitExclusive" /\ Grant(p, "exclusive") /\ Goto(p, "checkExclusive")

(* Mutants: the TIMEOUT answer of the lock subprocess is not looked at, or  *)
(* TimeoutError is not caught.                                              *)
LockTimeoutIgnored(p) ==
  /\ pc[p] = "waitExclusive" /\ p \in Cleaners
  /\ ~Grantable(fd[p], "exclusive")
  /\ Goto(p, "checkExclusive")
  /\ UNCHANGED <<files, locks, call, raised, history>>
LockTimeoutRaised(p) ==
  /\ pc[p] = "waitExclusive" /\ p \in Cleaners
  /\ ~Grantable(fd[p], "exclusive")
  /\ fd' = [fd EXCEPT ![p] = NoFile]
  /\ Raise(p, "TimeoutError")
  /\ Return(p)
  /\ UNCHANGED <<files, held, history>>

(* A cleaner's LOCK_NB fails, or, from the second round of clear_cache() on,*)
(* the alarm interrupts its flock() after 60 seconds.                       *)
LockTimeout(p) ==
  /\ pc[p] = "waitExclusive" /\ p \in Cleaners
  /\ ~Grantable(fd[p], "exclusive")
  /\ fd' = [fd EXCEPT ![p] = NoFile]
  /\ IF call[p] = "clear" THEN Goto(p, "openExclusive") /\ UNCHANGED call
     ELSE Return(p)
  /\ UNCHANGED <<files, held, raised, history>>

(* Leaving the with-block: the subprocess exits, which closes the           *)
(* descriptor and drops the flock.                                          *)
Unlock(p) ==
  /\ fd' = [fd EXCEPT ![p] = NoFile]
  /\ held' = [held EXCEPT ![p] = "none"]

Release(p) ==
  /\ Unlock(p)
  /\ \/ pc[p] = "unlockRetry" /\ Goto(p, "openShared") /\ UNCHANGED call
     \/ pc[p] = "unlockCreate" /\ Goto(p, "openExclusive") /\ UNCHANGED call
     \/ pc[p] \in {"unlockReturn", "unlockUnlinked"} /\ Return(p)
  /\ UNCHANGED <<files, raised, history>>

(* os.remove(lock_path), which raises when another process removed it.      *)
UnlinkLock(p) ==
  /\ lockFile' = NoFile
  /\ unlinked' = TRUE
  /\ IF lockFile # NoFile THEN UNCHANGED raised ELSE Raise(p, "FileNotFoundError")

-----------------------------------------------------------------------------
(* cache_get() and cache_get_or_set()                                       *)

CallGet(p) ==
  /\ pc[p] = "idle"
  /\ \E f \in {"get", "get_or_set"} : call' = [call EXCEPT ![p] = f]
  /\ Raise(p, "nothing")
  /\ Goto(p, "openShared")
  /\ UNCHANGED <<files, locks, history>>

(* Mutant: without an entry, try the shared lock again.                     *)
CheckSharedAgain(p) ==
  /\ pc[p] = "checkShared"
  /\ Goto(p, IF entry # NoFile THEN "touch"
             ELSE IF call[p] = "get" THEN "missing" ELSE "unlockRetry")
  /\ UNCHANGED <<files, locks, call, raised, history>>

(* os.path.exists(entry_path) under the shared lock; cache_get() yields     *)
(* None with the lock still held.                                           *)
CheckShared(p) ==
  /\ pc[p] = "checkShared"
  /\ Goto(p, IF entry # NoFile THEN "touch"
             ELSE IF call[p] = "get" THEN "missing" ELSE "unlockCreate")
  /\ UNCHANGED <<files, locks, call, raised, history>>

(* Mutant: the shared lock is released before the entry is yielded.         *)
TouchUnlocked(p) ==
  /\ pc[p] = "touch"
  /\ Unlock(p)
  /\ Goto(p, "reading")
  /\ UNCHANGED <<files, call, raised, history>>

(* open(lock_path, 'a') re-creates the lock file if it is gone.             *)
Touch(p) ==
  /\ pc[p] = "touch"
  /\ IF lockFile # NoFile THEN UNCHANGED lockFile ELSE lockFile' \in FreeInodes
  /\ Goto(p, "reading")
  /\ UNCHANGED <<entry, temp, locks, call, raised, history>>

(* The body of the caller's with-block ends.                                *)
LeaveBlock(p) ==
  /\ pc[p] \in {"reading", "missing"}
  /\ Goto(p, "unlockReturn")
  /\ UNCHANGED <<files, locks, call, raised, history>>

(* Mutant: return, and not continue, when the entry was created meanwhile.  *)
CheckExclusiveReturns(p) ==
  /\ pc[p] = "checkExclusive" /\ p \in Clients
  /\ Goto(p, IF entry # NoFile THEN "unlockReturn" ELSE "clearTemp")
  /\ UNCHANGED <<files, locks, call, raised, history>>

(* Mutant: create whether or not the entry is there.                        *)
CheckExclusiveSkipped(p) ==
  /\ pc[p] = "checkExclusive" /\ p \in Clients
  /\ Goto(p, "clearTemp")
  /\ UNCHANGED <<files, locks, call, raised, history>>

(* os.path.exists(entry_path) under the exclusive lock.                     *)
CheckExclusive(p) ==
  /\ pc[p] = "checkExclusive" /\ p \in Clients
  /\ Goto(p, IF entry # NoFile THEN "unlockRetry" ELSE "clearTemp")
  /\ UNCHANGED <<files, locks, call, raised, history>>

(* Mutant: what an earlier creation left behind stays.                      *)
KeepTemp(p) ==
  /\ pc[p] = "clearTemp"
  /\ Goto(p, "startCreate")
  /\ UNCHANGED <<files, locks, call, raised, history>>

(* isdir() or isfile() of temp_path.                                        *)
ClearTemp(p) ==
  /\ pc[p] = "clearTemp"
  /\ Goto(p, IF temp # NoFile THEN "dropTemp" ELSE "startCreate")
  /\ UNCHANGED <<files, locks, call, raised, history>>

(* os.remove() or shutil.rmtree() of what was found there.  Of others, only *)
(* a cleaner touches it meanwhile, which is an error whichever file of the  *)
(* tree it meets: one step for the tree is enough.                          *)
DropTemp(p) ==
  /\ pc[p] = "dropTemp"
  /\ temp' = NoFile
  /\ IF temp # NoFile
     THEN Goto(p, "startCreate") /\ UNCHANGED raised
     ELSE Goto(p, "unlockReturn") /\ Raise(p, "FileNotFoundError")
  /\ UNCHANGED <<lockFile, entry, locks, call, history>>

Writers(file) == IF file = NoFile THEN {} ELSE file.writing

(* create_function() opens temp_path: open() truncates a file that is       *)
(* there, D3mWriter's os.mkdir() raises.                                    *)
StartCreate(p) ==
  /\ pc[p] = "startCreate"
  /\ IF temp # NoFile /\ TempKind = "dir"
     THEN /\ Raise(p, "CreateError")
          /\ Goto(p, "failTemp")
          /\ UNCHANGED temp
     ELSE /\ temp' = [writing |-> Writers(temp) \cup {p}, torn |-> Writers(temp) # {}]
          /\ Goto(p, "creating")
          /\ UNCHANGED raised
  /\ UNCHANGED <<lockFile, entry, locks, call, history>>

(* A writer closes its file or abandons it, wherever the file is now.       *)
Close(file, p) ==
  IF file = NoFile THEN NoFile
  ELSE [writing |-> file.writing \ {p}, torn |-> file.torn]
Abandon(file, p) ==
  IF file = NoFile THEN NoFile
  ELSE [writing |-> file.writing \ {p}, torn |-> file.torn \/ p \in Writers(file)]

FinishCreate(p) ==
  /\ pc[p] = "creating"
  /\ temp' = Close(temp, p)
  /\ entry' = Close(entry, p)
  /\ Goto(p, "rename")
  /\ UNCHANGED <<lockFile, locks, call, raised, history>>

(* create_function() raises: on its own, or because the directory it writes *)
(* to is gone.                                                              *)
FailCreate(p) ==
  /\ \/ pc[p] \in {"startCreate", "creating"} /\ CreateMayFail
     \/ pc[p] = "creating" /\ TempKind = "dir" /\ p \notin Writers(temp)
  /\ temp' = Abandon(temp, p)
  /\ entry' = Abandon(entry, p)
  /\ Raise(p, "CreateError")
  /\ Goto(p, "failTemp")
  /\ UNCHANGED <<lockFile, locks, call, history>>

(* "Creation failed, clean up before unlocking!"                            *)
FailTemp(p) ==
  /\ pc[p] = "failTemp"
  /\ Goto(p, IF temp # NoFile THEN "dropFailed" ELSE "failLock")
  /\ UNCHANGED <<files, locks, call, raised, history>>

DropFailed(p) ==
  /\ pc[p] = "dropFailed"
  /\ temp' = NoFile
  /\ IF temp # NoFile
     THEN Goto(p, "failLock") /\ UNCHANGED raised
     ELSE Goto(p, "unlockReturn") /\ Raise(p, "FileNotFoundError")
  /\ UNCHANGED <<lockFile, entry, locks, call, history>>

FailLock(p) ==
  /\ pc[p] = "failLock"
  /\ UnlinkLock(p)
  /\ Goto(p, "unlockUnlinked")
  /\ UNCHANGED <<entry, temp, locks, call, broken>>

(* Mutant: the lock file is removed once the entry is there.                *)
RenameAndUnlink(p) ==
  /\ pc[p] = "rename"
  /\ entry' = temp /\ temp' = NoFile /\ lockFile' = NoFile
  /\ Goto(p, "unlockRetry")
  /\ UNCHANGED <<locks, call, raised, history>>

(* os.rename(temp_path, entry_path): a directory does not replace a         *)
(* directory that is not empty.                                             *)
Rename(p) ==
  /\ pc[p] = "rename"
  /\ \/ /\ temp # NoFile /\ (TempKind = "file" \/ entry = NoFile)
        /\ entry' = temp
        /\ temp' = NoFile
        /\ Goto(p, "unlockRetry")
        /\ UNCHANGED raised
     \/ /\ temp = NoFile \/ (TempKind = "dir" /\ entry # NoFile)
        /\ Raise(p, IF temp = NoFile THEN "FileNotFoundError" ELSE "OSError")
        /\ Goto(p, "unlockReturn")
        /\ UNCHANGED <<entry, temp>>
  /\ UNCHANGED <<lockFile, locks, call, history>>

-----------------------------------------------------------------------------
(* clear_cache() and delete_cache_entry()                                   *)

(* The directory listing has the entry, and should_delete() selects it.     *)
CallClear(p) ==
  /\ pc[p] = "idle"
  /\ entry # NoFile
  /\ \E f \in {"clear", "clear_if_possible"} : call' = [call EXCEPT ![p] = f]
  /\ Raise(p, "nothing")
  /\ Goto(p, "openExclusive")
  /\ UNCHANGED <<files, locks, history>>

CheckDelete(p) ==
  /\ pc[p] = "checkExclusive" /\ p \in Cleaners
  /\ Goto(p, IF entry # NoFile THEN "removeEntry" ELSE "removeLock")
  /\ UNCHANGED <<files, locks, call, raised, history>>

(* shutil.rmtree() empties a directory and then removes it; a directory in  *)
(* which somebody writes, or another one of this name, may not be empty.    *)
Emptied(file) == [writing |-> file.writing, torn |-> TRUE]
MayBeEmpty(file) == file.torn \/ file.writing # {}
MayBeFull(file) == ~file.torn \/ file.writing # {}

RemoveEntry(p) ==
  /\ pc[p] = "removeEntry"
  /\ IF entry = NoFile
     THEN Goto(p, "unlockReturn") /\ Raise(p, "FileNotFoundError") /\ UNCHANGED entry
     ELSE /\ UNCHANGED raised
          /\ \/ TempKind = "file" /\ entry' = NoFile /\ Goto(p, "removeLock")
             \/ TempKind = "dir" /\ entry' = Emptied(entry) /\ Goto(p, "emptyEntry")
  /\ UNCHANGED <<lockFile, temp, locks, call, history>>

EmptyEntry(p) ==
  /\ pc[p] = "emptyEntry"
  /\ \/ /\ entry # NoFile /\ MayBeEmpty(entry)
        /\ entry' = NoFile /\ Goto(p, "removeLock") /\ UNCHANGED raised
     \/ /\ IF entry = NoFile THEN TRUE ELSE MayBeFull(entry)
        /\ Raise(p, IF entry = NoFile THEN "FileNotFoundError" ELSE "OSError")
        /\ Goto(p, "unlockReturn") /\ UNCHANGED entry
  /\ UNCHANGED <<lockFile, temp, locks, call, history>>

RemoveLock(p) ==
  /\ pc[p] = "removeLock"
  /\ UnlinkLock(p)
  /\ Goto(p, IF lockFile # NoFile THEN "removeTemp" ELSE "unlockReturn")
  /\ UNCHANGED <<entry, temp, locks, call, broken>>

(* A creation has the temporary file, or what an earlier one left.          *)
Robs(p) ==
  broken' = IF \E q \in Procs \ {p} : pc[q] \in {"dropTemp", "creating", "rename", "dropFailed"}
            THEN broken \cup {"robbed"} ELSE broken

(* The temporary file goes last, after the lock file is unlinked, in steps  *)
(* between which others create: os.path.exists(temp_path),                  *)
RemoveTemp(p) ==
  /\ pc[p] = "removeTemp"
  /\ Goto(p, IF temp # NoFile THEN "testEntry" ELSE "unlockUnlinked")
  /\ UNCHANGED <<files, locks, call, raised, history>>

(* Mutant: the test on line 382 is of temp_path.                            *)
TestTemp(p) ==
  /\ pc[p] = "testEntry"
  /\ Goto(p, IF temp # NoFile /\ TempKind = "file" THEN "removeTempFile" ELSE "removeTempTree")
  /\ UNCHANGED <<files, locks, call, raised, history>>

(* os.path.isfile(entry_path),                                              *)
TestEntry(p) ==
  /\ pc[p] = "testEntry"
  /\ Goto(p, IF entry # NoFile /\ TempKind = "file" THEN "removeTempFile" ELSE "removeTempTree")
  /\ UNCHANGED <<files, locks, call, raised, history>>

(* and os.remove() of a file or shutil.rmtree() of a directory.             *)
RemoveTempFile(p) ==
  /\ pc[p] = "removeTempFile"
  /\ IF temp # NoFile
     THEN temp' = NoFile /\ Robs(p) /\ UNCHANGED raised
     ELSE UNCHANGED <<temp, broken>> /\ Raise(p, "FileNotFoundError")
  /\ Goto(p, "unlockUnlinked")
  /\ UNCHANGED <<lockFile, entry, locks, call, unlinked>>

RemoveTempTree(p) ==
  /\ pc[p] = "removeTempTree"
  /\ IF temp # NoFile /\ TempKind = "dir"
     THEN temp' = Emptied(temp) /\ Robs(p) /\ Goto(p, "emptyTemp") /\ UNCHANGED raised
     ELSE /\ Raise(p, IF temp = NoFile THEN "FileNotFoundError" ELSE "NotADirectoryError")
          /\ Goto(p, "unlockUnlinked") /\ UNCHANGED <<temp, broken>>
  /\ UNCHANGED <<lockFile, entry, locks, call, unlinked>>

EmptyTemp(p) ==
  /\ pc[p] = "emptyTemp"
  /\ \/ /\ temp # NoFile /\ MayBeEmpty(temp)
        /\ temp' = NoFile /\ Robs(p) /\ UNCHANGED raised
     \/ /\ IF temp = NoFile THEN TRUE ELSE MayBeFull(temp)
        /\ Raise(p, IF temp = NoFile THEN "FileNotFoundError" ELSE "OSError")
        /\ UNCHANGED <<temp, broken>>
  /\ Goto(p, "unlockUnlinked")
  /\ UNCHANGED <<lockFile, entry, locks, call, unlinked>>

-----------------------------------------------------------------------------
(* The process is killed; the end of its pipe makes the lock subprocess     *)
(* exit, and the files stay as they are: of a directory that it removes,    *)
(* some are left.                                                           *)
Crash(p) ==
  /\ MayCrash
  /\ pc[p] # "idle"
  /\ temp' = Abandon(temp, p)
  /\ entry' = Abandon(entry, p)
  /\ Unlock(p)
  /\ Return(p)
  /\ broken' = IF pc[p] = "emptyEntry" THEN broken \cup {"halved"} ELSE broken
  /\ UNCHANGED <<lockFile, raised, unlinked>>

Init ==
  /\ lockFile = NoFile /\ entry = NoFile /\ temp = NoFile
  /\ pc = [p \in Procs |-> "idle"]
  /\ fd = [p \in Procs |-> NoFile]
  /\ held = [p \in Procs |-> "none"]
  /\ call = [p \in Procs |-> "none"]
  /\ raised = [p \in Procs |-> "nothing"]
  /\ broken = {} /\ unlinked = FALSE

Call(p) == (p \in Clients /\ CallGet(p)) \/ (p \in Cleaners /\ CallClear(p))

Step(p) ==
  \/ OpenShared(p) \/ GrantShared(p) \/ CheckShared(p) \/ Touch(p)
  \/ LeaveBlock(p) \/ OpenExclusive(p) \/ GrantExclusive(p) \/ LockTimeout(p)
  \/ CheckExclusive(p) \/ ClearTemp(p) \/ DropTemp(p) \/ StartCreate(p) \/ FinishCreate(p)
  \/ FailCreate(p) \/ FailTemp(p) \/ DropFailed(p) \/ FailLock(p) \/ Rename(p)
  \/ CheckDelete(p) \/ RemoveEntry(p) \/ EmptyEntry(p) \/ RemoveLock(p)
  \/ RemoveTemp(p) \/ TestEntry(p) \/ RemoveTempFile(p) \/ RemoveTempTree(p) \/ EmptyTemp(p)
  \/ Release(p)

Next == \E p \in Procs : Call(p) \/ Step(p) \/ Crash(p)

Spec == Init /\ [][Next]_vars

(* A process that is running keeps running: nothing in the code waits on    *)
(* anything but flock() and the caller's own with-block.  Nothing obliges   *)
(* anybody to make another call.                                            *)
FairSpec == Spec /\ \A p \in Procs : WF_vars(Step(p))

-----------------------------------------------------------------------------
TypeOK ==
  /\ lockFile \in Inodes \cup {NoFile}
  /\ entry \in File \cup {NoFile}
  /\ temp \in File \cup {NoFile}
  /\ pc \in [Procs -> Labels]
  /\ fd \in [Procs -> Inodes \cup {NoFile}]
  /\ held \in [Procs -> {"none", "shared", "exclusive"}]
  /\ call \in [Procs -> Calls]
  /\ raised \in [Procs -> Errors]
  /\ broken \subseteq Failures /\ unlinked \in BOOLEAN

Whole(file) == file # NoFile /\ file.writing = {} /\ ~file.torn

(* A with-block of cache_get() or cache_get_or_set() sees one complete      *)
(* entry from its start to its end ("locked with a shared lock, so it won't *)
(* be changed or removed").                                                 *)
ReadersProtected == \A p \in Clients : pc[p] = "reading" => Whole(entry)

Creating ==
  {"clearTemp", "dropTemp", "startCreate", "creating", "rename", "failTemp", "dropFailed", "failLock"}

(* create_function() runs in one process at a time ("the path is locked     *)
(* with an exclusive lock"), and in none while somebody reads.              *)
SingleCreator ==
  \A p, q \in Clients :
    p # q /\ pc[p] \in Creating => pc[q] \notin Creating \cup {"reading"}

Emptying == \E p \in Cleaners : pc[p] = "emptyEntry"

(* The entry is never a file that is being written or was left half-written,*)
(* except that a cleaner is at removing it.                                 *)
NoPartialEntry == entry # NoFile => Whole(entry) \/ Emptying

(* The cache keeps its three promises, with any number of cleaners, until   *)
(* one of three things has happened: a flock was granted on an unlinked lock*)
(* file; a cleaner that had unlinked the lock file removed a temporary file *)
(* (fscache.py:380-385) that another process has by then; a cleaner was     *)
(* killed while it removed a directory (line 376).                          *)
ProtectedUnlessBroken ==
  broken = {} => ReadersProtected /\ SingleCreator /\ NoPartialEntry

(* Only a deletion or a failed creation makes a lock stale: until one has   *)
(* unlinked the lock file, whoever locks it locks the file that the path    *)
(* leads to, however many look up, create and are killed.                   *)
NeverStale == ~unlinked => "stale" \notin broken

(* A lookup raises only what create_function() raises: neither the other    *)
(* clients, nor a cleaner, nor what a killed process left behind shows      *)
(* through.                                                                 *)
ErrorsExplained ==
  \A p \in Clients :
    raised[p] = "nothing" \/ (raised[p] = "CreateError" /\ CreateMayFail)

(* ... until the locking has failed in one of the three ways.               *)
ErrorsExplainedUnlessBroken == broken = {} => ErrorsExplained

(* A single cleaner of files, where the entry is still a file once it has   *)
(* seen one, takes a temporary file from nobody: that needs a second cleaner*)
(* (two evictions, or clear_caches.py at the same time) or directories, or  *)
(* a stale lock.                                                            *)
OneCleanerRobsNobody ==
  /\ TempKind = "file" /\ \A d, e \in Cleaners : d = e
  => broken = {} \/ "stale" \in broken

(* Once nobody makes new calls, every call returns: nobody waits forever    *)
(* for a lock, for a retry or for an entry that keeps disappearing.         *)
CallsEnd ==
  <>[][~\E p \in Procs : Call(p)]_vars =>
    \A p \in Procs : pc[p] # "idle" ~> pc[p] = "idle"

(* A get_or_set call goes on until it has an entry to read, unless          *)
(* create_function() raises or the process is killed.                       *)
Served ==
  <>[][~\E p \in Procs : Call(p)]_vars =>
    \A p \in Clients :
      pc[p] = "openShared" /\ call[p] = "get_or_set"
        ~> pc[p] = "reading" \/ raised[p] # "nothing"

-----------------------------------------------------------------------------
(* The inductive invariant behind ProtectedUnlessBroken.                     *)

Unlocked == {"idle", "openShared", "openExclusive", "waitShared", "waitExclusive"}
SharedLocked == {"checkShared", "touch", "reading", "unlockCreate"}
Unlinked ==
  {"removeTemp", "testEntry", "removeTempFile", "removeTempTree", "emptyTemp", "unlockUnlinked"}
ExclusiveLocked ==
  Creating \cup Unlinked \cup
    {"checkExclusive", "removeEntry", "emptyEntry", "removeLock", "unlockRetry"}

LockDiscipline ==
  \A p \in Procs :
    /\ held[p] # "none" \/ pc[p] \in {"waitShared", "waitExclusive"} => fd[p] # NoFile
    /\ pc[p] \in Unlocked => held[p] = "none"
    /\ pc[p] \in SharedLocked => held[p] = "shared"
    /\ pc[p] \in ExclusiveLocked => held[p] = "exclusive"

FlockExclusion ==
  \A p, q \in Procs :
    p # q /\ held[p] = "exclusive" /\ held[q] # "none" => fd[p] # fd[q]

(* A flock is on the lock file that the path leads to, except between the   *)
(* unlink and the unlock.                                                   *)
LocksCurrent ==
  \A p \in Procs :
    held[p] # "none" /\ pc[p] \notin Unlinked => fd[p] = lockFile

TempOwned ==
  \A p \in Procs :
    /\ pc[p] = "startCreate" => temp = NoFile
    /\ pc[p] = "creating" => temp = [writing |-> {p}, torn |-> FALSE]
    /\ pc[p] = "rename" => temp = [writing |-> {}, torn |-> FALSE]
    /\ pc[p] \in {"dropTemp", "dropFailed"} => temp # NoFile

EntryInPlace ==
  /\ \/ entry \in {NoFile, [writing |-> {}, torn |-> FALSE]}
     \/ Emptying /\ entry = [writing |-> {}, torn |-> TRUE]
  /\ \A p \in Procs : /\ pc[p] \in {"touch", "reading"} => entry # NoFile
                      /\ pc[p] \in Creating => entry = NoFile
                      /\ pc[p] = "removeEntry" => entry # NoFile
                      /\ pc[p] = "emptyEntry" => entry = [writing |-> {}, torn |-> TRUE]

ClientsAndCleaners ==
  /\ \A p \in Cleaners :
       pc[p] \notin Creating \cup SharedLocked
                       \cup {"openShared", "waitShared", "missing", "unlockRetry"}
  /\ \A p \in Clients :
       pc[p] \notin {"removeEntry", "emptyEntry", "removeLock"} \cup (Unlinked \ {"unlockUnlinked"})

(* The only cleaner of files that goes for a temporary file has seen the    *)
(* entry, which is still there.                                             *)
EntrySeen ==
  /\ "halved" \in broken => TempKind = "dir"
  /\ TempKind = "file" =>
       \A p \in Procs : pc[p] \notin {"emptyEntry", "emptyTemp"}
  /\ TempKind = "file" /\ (\A d, e \in Cleaners : d = e) /\ "stale" \notin broken =>
       /\ "robbed" \notin broken
       /\ \A p \in Procs : pc[p] = "removeTempFile" => entry # NoFile

IInv ==
  /\ LockDiscipline
  /\ FlockExclusion
  /\ ClientsAndCleaners
  /\ EntrySeen
  /\ broken = {} => LocksCurrent /\ TempOwned /\ EntryInPlace /\ ErrorsExplained

-----------------------------------------------------------------------------
(* What the users of the cache rely on, until the locking has failed.  An   *)
(* entry is evicted when the cleaner begins to remove it.                   *)
Content ==
  IF entry = NoFile \/ Emptying THEN "none" ELSE IF Whole(entry) THEN "whole" ELSE "partial"
Reading == {p \in Clients : pc[p] = "reading"}
Contract ==
  INSTANCE CacheContract WITH
    Readers <- Clients, content <- Content, readers <- Reading, broken <- (broken # {})

ImplementsContract == Contract!Spec

=============================================================================
