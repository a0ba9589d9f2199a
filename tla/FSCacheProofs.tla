---------------------------- MODULE FSCacheProofs ----------------------------
(***************************************************************************)
(* What FSCache promises for any number of clients, cleaners and inodes,   *)
(* for files and directories, with and without failures and crashes.       *)
(***************************************************************************)
EXTENDS FSCache, TLAPS

USE ProcsAssumption, NoFileAssumption, ModesAssumption DEF Procs

(* The initial state is typed and satisfies the inductive invariant.        *)
LEMMA InitIInv == Init => TypeOK /\ IInv
<1> SUFFICES ASSUME Init PROVE TypeOK /\ IInv
  OBVIOUS
<1>1. TypeOK
  BY DEF Init, TypeOK, Labels, Calls, Errors
<1>2. LockDiscipline /\ FlockExclusion /\ ClientsAndCleaners
  BY DEF Init, LockDiscipline, FlockExclusion, ClientsAndCleaners,
         Unlocked, SharedLocked, ExclusiveLocked, Unlinked, Creating
<1>3. LocksCurrent /\ TempOwned /\ EntryInPlace /\ ErrorsExplained
  BY DEF Init, LocksCurrent, TempOwned, EntryInPlace, ErrorsExplained, Creating, Emptying
<1>4. EntrySeen
  BY DEF Init, EntrySeen
<1> QED BY <1>1, <1>2, <1>3, <1>4 DEF IInv

(* Every variable keeps its type.                                           *)
LEMMA TypeStep == TypeOK /\ [Next]_vars => TypeOK'
<1> SUFFICES ASSUME TypeOK, [Next]_vars PROVE TypeOK'
  OBVIOUS
<1> USE DEF TypeOK, Labels, Calls, Errors, Failures, File, Goto, Raise, Return, files, locks, history
<1>1. CASE UNCHANGED vars
  BY <1>1 DEF vars
<1>2. ASSUME NEW p \in Procs, Call(p) PROVE TypeOK'
  <2>1. CASE CallGet(p) BY <2>1 DEF CallGet
  <2>2. CASE CallClear(p) BY <2>2 DEF CallClear
  <2> QED BY <1>2, <2>1, <2>2 DEF Call
<1>3. ASSUME NEW p \in Procs, Crash(p) PROVE TypeOK'
  BY <1>3 DEF Crash, Unlock, Abandon, Writers
<1>4. ASSUME NEW p \in Procs, Step(p) PROVE TypeOK'
  <2>1. CASE OpenShared(p) BY <2>1 DEF OpenShared
  <2>2. CASE GrantShared(p) BY <2>2 DEF GrantShared, Grant
  <2>3. CASE CheckShared(p) BY <2>3 DEF CheckShared
  <2>4. CASE Touch(p) BY <2>4 DEF Touch, FreeInodes
  <2>5. CASE LeaveBlock(p) BY <2>5 DEF LeaveBlock
  <2>6. CASE OpenExclusive(p) BY <2>6 DEF OpenExclusive, FreeInodes
  <2>7. CASE GrantExclusive(p) BY <2>7 DEF GrantExclusive, Grant
  <2>8. CASE LockTimeout(p) BY <2>8 DEF LockTimeout
  <2>9. CASE CheckExclusive(p) BY <2>9 DEF CheckExclusive
  <2>10. CASE ClearTemp(p) BY <2>10 DEF ClearTemp
  <2>11. CASE StartCreate(p)
    <3>1. Writers(temp) \in SUBSET Procs
      BY DEF Writers
    <3>2. [writing |-> Writers(temp) \cup {p}, torn |-> Writers(temp) # {}] \in File
      BY <3>1
    <3>3. temp' \in File \cup {NoFile}
      BY <2>11, <3>2 DEF StartCreate
    <3> QED BY <2>11, <3>3 DEF StartCreate
  <2>12. CASE FinishCreate(p) BY <2>12 DEF FinishCreate, Close
  <2>13. CASE FailCreate(p) BY <2>13 DEF FailCreate, Abandon, Writers
  <2>14. CASE FailTemp(p) BY <2>14 DEF FailTemp
  <2>15. CASE FailLock(p) BY <2>15 DEF FailLock, UnlinkLock
  <2>16. CASE Rename(p) BY <2>16 DEF Rename
  <2>17. CASE CheckDelete(p) BY <2>17 DEF CheckDelete
  <2>0. ASSUME NEW file \in File PROVE Emptied(file) \in File
    BY DEF Emptied
  <2>18. CASE RemoveEntry(p)
    <3>1. entry' \in File \cup {NoFile}
      BY <2>0, <2>18 DEF RemoveEntry
    <3> QED BY <2>18, <3>1 DEF RemoveEntry
  <2>19. CASE RemoveLock(p) BY <2>19 DEF RemoveLock, UnlinkLock
  <2>20. CASE RemoveTemp(p) BY <2>20 DEF RemoveTemp
  <2>21. CASE Release(p) BY <2>21 DEF Release, Unlock
  <2>31. CASE DropTemp(p) BY <2>31 DEF DropTemp
  <2>32. CASE DropFailed(p) BY <2>32 DEF DropFailed
  <2>33. CASE EmptyEntry(p) BY <2>33 DEF EmptyEntry, MayBeEmpty, MayBeFull
  <2>34. CASE TestEntry(p) BY <2>34 DEF TestEntry
  <2>35. CASE RemoveTempFile(p) BY <2>35 DEF RemoveTempFile, Robs
  <2>36. CASE RemoveTempTree(p)
    <3>1. temp' \in File \cup {NoFile}
      BY <2>0, <2>36 DEF RemoveTempTree
    <3> QED BY <2>36, <3>1 DEF RemoveTempTree, Robs
  <2>37. CASE EmptyTemp(p) BY <2>37 DEF EmptyTemp, Robs, MayBeEmpty, MayBeFull
  <2> QED BY <1>4, <2>1, <2>2, <2>3, <2>4, <2>5, <2>6, <2>7, <2>8, <2>9, <2>10,
             <2>11, <2>12, <2>13, <2>14, <2>15, <2>16, <2>17, <2>18, <2>19,
             <2>20, <2>21, <2>31, <2>32, <2>33, <2>34, <2>35, <2>36, <2>37 DEF Step
<1> QED BY <1>1, <1>2, <1>3, <1>4 DEF Next

(* Type correctness.                                                        *)
THEOREM TypeCorrect == Spec => []TypeOK
<1>1. Init => TypeOK BY InitIInv
<1> QED BY <1>1, TypeStep, PTL DEF Spec

Undamaged(S) == [writing |-> S, torn |-> FALSE]

(* A file that p does not write stays as it is when p closes or abandons it,*)
(* and a file that only p writes is whole once p closed it.                 *)
LEMMA WriterGone ==
  ASSUME NEW p \in Procs
  PROVE  /\ Close(NoFile, p) = NoFile /\ Abandon(NoFile, p) = NoFile
         /\ \A S \in SUBSET Procs :
              /\ Undamaged(S) # NoFile
              /\ p \notin S => /\ Close(Undamaged(S), p) = Undamaged(S)
                              /\ Abandon(Undamaged(S), p) = Undamaged(S)
         /\ Close(Undamaged({p}), p) = Undamaged({})
<1>1. \A S \in SUBSET Procs : Undamaged(S) # NoFile
  <2>1. \A S \in SUBSET Procs : Undamaged(S) \in File
    BY DEF File, Undamaged
  <2> QED BY <2>1
<1>2. ASSUME NEW S \in SUBSET Procs, p \notin S
      PROVE  Close(Undamaged(S), p) = Undamaged(S) /\ Abandon(Undamaged(S), p) = Undamaged(S)
  <2>1. S \ {p} = S
    BY <1>2
  <2> QED BY <1>1, <1>2, <2>1 DEF Close, Abandon, Writers, Undamaged
<1>3. Close(Undamaged({p}), p) = Undamaged({})
  BY <1>1 DEF Close, Undamaged
<1> QED BY <1>1, <1>2, <1>3 DEF Close, Abandon

(* What has failed stays failed.                                            *)
LEMMA FailuresStay ==
  ASSUME NEW p \in Procs, Call(p) \/ Step(p) \/ Crash(p)
  PROVE  broken \subseteq broken'
<1> USE DEF history
<1>1. CASE GrantShared(p) \/ GrantExclusive(p)
  BY <1>1 DEF GrantShared, GrantExclusive, Grant
<1>2. CASE RemoveTempFile(p) \/ RemoveTempTree(p) \/ EmptyTemp(p)
  BY <1>2 DEF RemoveTempFile, RemoveTempTree, EmptyTemp, Robs
<1>3. CASE Crash(p)
  BY <1>3 DEF Crash
<1>4. CASE Call(p)
  BY <1>4 DEF Call, CallGet, CallClear
<1>5. CASE Step(p) /\ ~GrantShared(p) /\ ~GrantExclusive(p) /\ ~RemoveTempFile(p)
           /\ ~RemoveTempTree(p) /\ ~EmptyTemp(p)
  BY <1>5 DEF Step, OpenShared, CheckShared, Touch,
       LeaveBlock, OpenExclusive, LockTimeout, CheckExclusive,
       ClearTemp, StartCreate, FinishCreate, FailCreate, FailTemp, FailLock,
       Rename, CheckDelete, RemoveEntry, RemoveLock, RemoveTemp, Release, DropTemp, DropFailed,
       EmptyEntry, TestEntry
<1> QED BY <1>1, <1>2, <1>3, <1>4, <1>5

(* What is abandoned stays where it is, and so does what is being removed.  *)
LEMMA AbandonedStays ==
  ASSUME NEW p \in Procs, NEW file \in File
  PROVE  Abandon(file, p) # NoFile
<1>1. file # NoFile
  OBVIOUS
<1>2. Abandon(file, p) = [writing |-> file.writing \ {p}, torn |-> file.torn \/ p \in Writers(file)]
  BY <1>1 DEF Abandon
<1>3. Abandon(file, p) \in File
  BY <1>2 DEF File
<1> QED BY <1>3

Torn == [writing |-> {}, torn |-> TRUE]
LEMMA TornStays ==
  ASSUME NEW p \in Procs
  PROVE  Torn # NoFile /\ Close(Torn, p) = Torn /\ Abandon(Torn, p) = Torn
<1>1. Torn \in File
  BY DEF File, Torn
<1> QED BY <1>1 DEF Close, Abandon, Writers, Torn

(* Nobody writes to the entry while nothing has failed.                     *)
LEMMA EntryKept ==
  ASSUME IInv, broken = {}, NEW p \in Procs
  PROVE  Close(entry, p) = entry /\ Abandon(entry, p) = entry
<1>1. entry \in {NoFile, Undamaged({}), Torn}
  BY DEF IInv, EntryInPlace, Undamaged, Torn
<1>2. Close(Undamaged({}), p) = Undamaged({}) /\ Close(NoFile, p) = NoFile /\ Close(Torn, p) = Torn
  BY WriterGone, TornStays
<1>3. Abandon(Undamaged({}), p) = Undamaged({}) /\ Abandon(NoFile, p) = NoFile /\ Abandon(Torn, p) = Torn
  BY WriterGone, TornStays
<1> QED BY <1>1, <1>2, <1>3

LEMMA LockDisciplineStep ==
  ASSUME TypeOK, IInv, NEW p \in Procs, Call(p) \/ Step(p) \/ Crash(p)
  PROVE  LockDiscipline'
<1> USE DEF TypeOK, Labels, Goto, Raise, Return, files, locks, history, IInv, LockDiscipline, ClientsAndCleaners, Unlocked, SharedLocked, ExclusiveLocked, Unlinked, Creating
<1>1. CASE OpenShared(p) BY <1>1 DEF OpenShared
<1>2. CASE GrantShared(p) BY <1>2 DEF GrantShared, Grant
<1>3. CASE CheckShared(p) BY <1>3 DEF CheckShared
<1>4. CASE Touch(p) BY <1>4 DEF Touch, FreeInodes
<1>5. CASE LeaveBlock(p) BY <1>5 DEF LeaveBlock
<1>6. CASE OpenExclusive(p) BY <1>6 DEF OpenExclusive, FreeInodes
<1>7. CASE GrantExclusive(p) BY <1>7 DEF GrantExclusive, Grant, Grantable, Holders
<1>8. CASE LockTimeout(p) BY <1>8 DEF LockTimeout
<1>9. CASE CheckExclusive(p) BY <1>9 DEF CheckExclusive
<1>10. CASE ClearTemp(p) BY <1>10 DEF ClearTemp
<1>11. CASE StartCreate(p) BY <1>11 DEF StartCreate, Writers
<1>12. CASE FinishCreate(p) BY <1>12 DEF FinishCreate, Close
<1>13. CASE FailCreate(p) BY <1>13 DEF FailCreate, Abandon, Writers
<1>14. CASE FailTemp(p) BY <1>14 DEF FailTemp
<1>15. CASE FailLock(p) BY <1>15 DEF FailLock, UnlinkLock
<1>16. CASE Rename(p) BY <1>16 DEF Rename
<1>17. CASE CheckDelete(p) BY <1>17 DEF CheckDelete
<1>18. CASE RemoveEntry(p) BY <1>18 DEF RemoveEntry, Emptied
<1>19. CASE RemoveLock(p) BY <1>19 DEF RemoveLock, UnlinkLock
<1>20. CASE RemoveTemp(p) BY <1>20 DEF RemoveTemp
<1>21. CASE Release(p) BY <1>21 DEF Release, Unlock
<1>22. CASE p \in Clients /\ CallGet(p) BY <1>22 DEF CallGet
<1>23. CASE p \in Cleaners /\ CallClear(p) BY <1>23 DEF CallClear
<1>31. CASE DropTemp(p) BY <1>31 DEF DropTemp
<1>32. CASE DropFailed(p) BY <1>32 DEF DropFailed
<1>33. CASE EmptyEntry(p) BY <1>33 DEF EmptyEntry, MayBeEmpty, MayBeFull
<1>34. CASE TestEntry(p) BY <1>34 DEF TestEntry
<1>35. CASE RemoveTempFile(p) BY <1>35 DEF RemoveTempFile, Robs
<1>36. CASE RemoveTempTree(p) BY <1>36 DEF RemoveTempTree, Robs, Emptied
<1>37. CASE EmptyTemp(p) BY <1>37 DEF EmptyTemp, Robs, MayBeEmpty, MayBeFull
<1>24. CASE Crash(p) BY <1>24 DEF Crash, Unlock, Abandon, Writers
<1> QED BY <1>1, <1>2, <1>3, <1>4, <1>5, <1>6, <1>7, <1>8, <1>9, <1>10, <1>11, <1>12, <1>13, <1>14, <1>15, <1>16, <1>17, <1>18, <1>19, <1>20, <1>21, <1>22, <1>23, <1>24,
           <1>31, <1>32, <1>33, <1>34, <1>35, <1>36, <1>37 DEF Call, Step

LEMMA ClientsAndCleanersStep ==
  ASSUME TypeOK, IInv, NEW p \in Procs, Call(p) \/ Step(p) \/ Crash(p)
  PROVE  ClientsAndCleaners'
<1> USE DEF TypeOK, Labels, Goto, Raise, Return, files, locks, history, IInv, LockDiscipline, ClientsAndCleaners, Unlocked, SharedLocked, ExclusiveLocked, Unlinked, Creating
<1>1. CASE OpenShared(p) BY <1>1 DEF OpenShared
<1>2. CASE GrantShared(p) BY <1>2 DEF GrantShared, Grant, Grantable, Holders
<1>3. CASE CheckShared(p) BY <1>3 DEF CheckShared
<1>4. CASE Touch(p) BY <1>4 DEF Touch, FreeInodes
<1>5. CASE LeaveBlock(p) BY <1>5 DEF LeaveBlock
<1>6. CASE OpenExclusive(p) BY <1>6 DEF OpenExclusive, FreeInodes
<1>7. CASE GrantExclusive(p) BY <1>7 DEF GrantExclusive, Grant, Grantable, Holders
<1>8. CASE LockTimeout(p) BY <1>8 DEF LockTimeout
<1>9. CASE CheckExclusive(p) BY <1>9 DEF CheckExclusive
<1>10. CASE ClearTemp(p) BY <1>10 DEF ClearTemp
<1>11. CASE StartCreate(p) BY <1>11 DEF StartCreate, Writers
<1>12. CASE FinishCreate(p) BY <1>12 DEF FinishCreate, Close
<1>13. CASE FailCreate(p) BY <1>13 DEF FailCreate, Abandon, Writers
<1>14. CASE FailTemp(p) BY <1>14 DEF FailTemp
<1>15. CASE FailLock(p) BY <1>15 DEF FailLock, UnlinkLock
<1>16. CASE Rename(p) BY <1>16 DEF Rename
<1>17. CASE CheckDelete(p) BY <1>17 DEF CheckDelete
<1>18. CASE RemoveEntry(p) BY <1>18 DEF RemoveEntry, Emptied
<1>19. CASE RemoveLock(p) BY <1>19 DEF RemoveLock, UnlinkLock
<1>20. CASE RemoveTemp(p) BY <1>20 DEF RemoveTemp
<1>21. CASE Release(p) BY <1>21 DEF Release, Unlock
<1>22. CASE p \in Clients /\ CallGet(p) BY <1>22 DEF CallGet
<1>23. CASE p \in Cleaners /\ CallClear(p) BY <1>23 DEF CallClear
<1>31. CASE DropTemp(p) BY <1>31 DEF DropTemp
<1>32. CASE DropFailed(p) BY <1>32 DEF DropFailed
<1>33. CASE EmptyEntry(p) BY <1>33 DEF EmptyEntry, MayBeEmpty, MayBeFull
<1>34. CASE TestEntry(p) BY <1>34 DEF TestEntry
<1>35. CASE RemoveTempFile(p) BY <1>35 DEF RemoveTempFile, Robs
<1>36. CASE RemoveTempTree(p) BY <1>36 DEF RemoveTempTree, Robs, Emptied
<1>37. CASE EmptyTemp(p) BY <1>37 DEF EmptyTemp, Robs, MayBeEmpty, MayBeFull
<1>24. CASE Crash(p) BY <1>24 DEF Crash, Unlock, Abandon, Writers
<1> QED BY <1>1, <1>2, <1>3, <1>4, <1>5, <1>6, <1>7, <1>8, <1>9, <1>10, <1>11, <1>12, <1>13, <1>14, <1>15, <1>16, <1>17, <1>18, <1>19, <1>20, <1>21, <1>22, <1>23, <1>24,
           <1>31, <1>32, <1>33, <1>34, <1>35, <1>36, <1>37 DEF Call, Step

LEMMA FlockExclusionStep ==
  ASSUME TypeOK, IInv, NEW p \in Procs, Call(p) \/ Step(p) \/ Crash(p)
  PROVE  FlockExclusion'
<1> USE DEF TypeOK, Labels, Goto, Raise, Return, files, locks, history, IInv, LockDiscipline, FlockExclusion, Unlocked, SharedLocked, ExclusiveLocked, Unlinked, Creating
<1>1. CASE OpenShared(p) BY <1>1 DEF OpenShared
<1>2. CASE GrantShared(p) BY <1>2 DEF GrantShared, Grant, Grantable, Holders
<1>3. CASE CheckShared(p) BY <1>3 DEF CheckShared
<1>4. CASE Touch(p) BY <1>4 DEF Touch, FreeInodes
<1>5. CASE LeaveBlock(p) BY <1>5 DEF LeaveBlock
<1>6. CASE OpenExclusive(p) BY <1>6 DEF OpenExclusive, FreeInodes
<1>7. CASE GrantExclusive(p) BY <1>7 DEF GrantExclusive, Grant, Grantable, Holders
<1>8. CASE LockTimeout(p) BY <1>8 DEF LockTimeout
<1>9. CASE CheckExclusive(p) BY <1>9 DEF CheckExclusive
<1>10. CASE ClearTemp(p) BY <1>10 DEF ClearTemp
<1>11. CASE StartCreate(p) BY <1>11 DEF StartCreate, Writers
<1>12. CASE FinishCreate(p) BY <1>12 DEF FinishCreate, Close
<1>13. CASE FailCreate(p) BY <1>13 DEF FailCreate, Abandon, Writers
<1>14. CASE FailTemp(p) BY <1>14 DEF FailTemp
<1>15. CASE FailLock(p) BY <1>15 DEF FailLock, UnlinkLock
<1>16. CASE Rename(p) BY <1>16 DEF Rename
<1>17. CASE CheckDelete(p) BY <1>17 DEF CheckDelete
<1>18. CASE RemoveEntry(p) BY <1>18 DEF RemoveEntry, Emptied
<1>19. CASE RemoveLock(p) BY <1>19 DEF RemoveLock, UnlinkLock
<1>20. CASE RemoveTemp(p) BY <1>20 DEF RemoveTemp
<1>21. CASE Release(p) BY <1>21 DEF Release, Unlock
<1>22. CASE p \in Clients /\ CallGet(p) BY <1>22 DEF CallGet
<1>23. CASE p \in Cleaners /\ CallClear(p) BY <1>23 DEF CallClear
<1>31. CASE DropTemp(p) BY <1>31 DEF DropTemp
<1>32. CASE DropFailed(p) BY <1>32 DEF DropFailed
<1>33. CASE EmptyEntry(p) BY <1>33 DEF EmptyEntry, MayBeEmpty, MayBeFull
<1>34. CASE TestEntry(p) BY <1>34 DEF TestEntry
<1>35. CASE RemoveTempFile(p) BY <1>35 DEF RemoveTempFile, Robs
<1>36. CASE RemoveTempTree(p) BY <1>36 DEF RemoveTempTree, Robs, Emptied
<1>37. CASE EmptyTemp(p) BY <1>37 DEF EmptyTemp, Robs, MayBeEmpty, MayBeFull
<1>24. CASE Crash(p) BY <1>24 DEF Crash, Unlock, Abandon, Writers
<1> QED BY <1>1, <1>2, <1>3, <1>4, <1>5, <1>6, <1>7, <1>8, <1>9, <1>10, <1>11, <1>12, <1>13, <1>14, <1>15, <1>16, <1>17, <1>18, <1>19, <1>20, <1>21, <1>22, <1>23, <1>24,
           <1>31, <1>32, <1>33, <1>34, <1>35, <1>36, <1>37 DEF Call, Step

LEMMA LocksCurrentStep ==
  ASSUME TypeOK, IInv, broken = {}, broken' = {}, NEW p \in Procs, Call(p) \/ Step(p) \/ Crash(p)
  PROVE  LocksCurrent'
<1> USE DEF TypeOK, Labels, Goto, Raise, Return, files, locks, history, IInv, LockDiscipline, FlockExclusion, LocksCurrent, ClientsAndCleaners, Unlocked, SharedLocked, ExclusiveLocked, Unlinked, Creating
<1>1. CASE OpenShared(p) BY <1>1 DEF OpenShared
<1>2. CASE GrantShared(p) BY <1>2 DEF GrantShared, Grant, Grantable, Holders
<1>3. CASE CheckShared(p) BY <1>3 DEF CheckShared
<1>4. CASE Touch(p) BY <1>4 DEF Touch, FreeInodes
<1>5. CASE LeaveBlock(p) BY <1>5 DEF LeaveBlock
<1>6. CASE OpenExclusive(p) BY <1>6 DEF OpenExclusive, FreeInodes
<1>7. CASE GrantExclusive(p) BY <1>7 DEF GrantExclusive, Grant, Grantable, Holders
<1>8. CASE LockTimeout(p) BY <1>8 DEF LockTimeout
<1>9. CASE CheckExclusive(p) BY <1>9 DEF CheckExclusive
<1>10. CASE ClearTemp(p) BY <1>10 DEF ClearTemp
<1>11. CASE StartCreate(p) BY <1>11 DEF StartCreate, Writers
<1>12. CASE FinishCreate(p) BY <1>12 DEF FinishCreate, Close
<1>13. CASE FailCreate(p) BY <1>13 DEF FailCreate, Abandon, Writers
<1>14. CASE FailTemp(p) BY <1>14 DEF FailTemp
<1>15. CASE FailLock(p) BY <1>15 DEF FailLock, UnlinkLock
<1>16. CASE Rename(p) BY <1>16 DEF Rename
<1>17. CASE CheckDelete(p) BY <1>17 DEF CheckDelete
<1>18. CASE RemoveEntry(p) BY <1>18 DEF RemoveEntry, Emptied
<1>19. CASE RemoveLock(p) BY <1>19 DEF RemoveLock, UnlinkLock
<1>20. CASE RemoveTemp(p) BY <1>20 DEF RemoveTemp
<1>21. CASE Release(p) BY <1>21 DEF Release, Unlock
<1>22. CASE p \in Clients /\ CallGet(p) BY <1>22 DEF CallGet
<1>23. CASE p \in Cleaners /\ CallClear(p) BY <1>23 DEF CallClear
<1>31. CASE DropTemp(p) BY <1>31 DEF DropTemp
<1>32. CASE DropFailed(p) BY <1>32 DEF DropFailed
<1>33. CASE EmptyEntry(p) BY <1>33 DEF EmptyEntry, MayBeEmpty, MayBeFull
<1>34. CASE TestEntry(p) BY <1>34 DEF TestEntry
<1>35. CASE RemoveTempFile(p) BY <1>35 DEF RemoveTempFile, Robs
<1>36. CASE RemoveTempTree(p) BY <1>36 DEF RemoveTempTree, Robs, Emptied
<1>37. CASE EmptyTemp(p) BY <1>37 DEF EmptyTemp, Robs, MayBeEmpty, MayBeFull
<1>24. CASE Crash(p) BY <1>24 DEF Crash, Unlock, Abandon, Writers
<1> QED BY <1>1, <1>2, <1>3, <1>4, <1>5, <1>6, <1>7, <1>8, <1>9, <1>10, <1>11, <1>12, <1>13, <1>14, <1>15, <1>16, <1>17, <1>18, <1>19, <1>20, <1>21, <1>22, <1>23, <1>24,
           <1>31, <1>32, <1>33, <1>34, <1>35, <1>36, <1>37 DEF Call, Step

LEMMA TempOwnedStep ==
  ASSUME TypeOK, IInv, broken = {}, broken' = {}, NEW p \in Procs, Call(p) \/ Step(p) \/ Crash(p)
  PROVE  TempOwned'
<1> USE DEF TypeOK, Labels, Goto, Raise, Return, files, locks, history, IInv, LockDiscipline, FlockExclusion, LocksCurrent, ClientsAndCleaners, Unlocked, SharedLocked, ExclusiveLocked, Unlinked, Creating, TempOwned, EntryInPlace, File
<1>1. CASE OpenShared(p) BY <1>1 DEF OpenShared
<1>2. CASE GrantShared(p) BY <1>2 DEF GrantShared, Grant, Grantable, Holders
<1>3. CASE CheckShared(p) BY <1>3 DEF CheckShared
<1>4. CASE Touch(p) BY <1>4 DEF Touch, FreeInodes
<1>5. CASE LeaveBlock(p) BY <1>5 DEF LeaveBlock
<1>6. CASE OpenExclusive(p) BY <1>6 DEF OpenExclusive, FreeInodes
<1>7. CASE GrantExclusive(p) BY <1>7 DEF GrantExclusive, Grant, Grantable, Holders
<1>8. CASE LockTimeout(p) BY <1>8 DEF LockTimeout
<1>9. CASE CheckExclusive(p) BY <1>9 DEF CheckExclusive
<1>10. CASE ClearTemp(p) BY <1>10 DEF ClearTemp
<1>11. CASE StartCreate(p)
  <2>1. temp = NoFile /\ Writers(temp) = {}
    BY <1>11 DEF StartCreate, Writers
  <2>2. temp' = [writing |-> {p}, torn |-> FALSE] /\ pc' = [pc EXCEPT ![p] = "creating"]
    BY <1>11, <2>1 DEF StartCreate
  <2>3. temp' \in File
    BY <2>2
  <2>4. \A q \in Procs \ {p} : pc[q] \notin Creating
    BY <1>11 DEF StartCreate
  <2> QED BY <2>2, <2>3, <2>4
<1>12. CASE FinishCreate(p)
  <2>1. temp = Undamaged({p})
    BY <1>12 DEF FinishCreate, Undamaged
  <2>2. temp' = Undamaged({})
    BY <1>12, <2>1, WriterGone DEF FinishCreate
  <2> QED BY <1>12, <2>2 DEF FinishCreate, Undamaged
<1>13. CASE FailCreate(p) BY <1>13 DEF FailCreate, Abandon, Writers
<1>14. CASE FailTemp(p) BY <1>14 DEF FailTemp
<1>15. CASE FailLock(p) BY <1>15 DEF FailLock, UnlinkLock
<1>16. CASE Rename(p) BY <1>16 DEF Rename
<1>17. CASE CheckDelete(p) BY <1>17 DEF CheckDelete
<1>18. CASE RemoveEntry(p) BY <1>18 DEF RemoveEntry, Emptied
<1>19. CASE RemoveLock(p) BY <1>19 DEF RemoveLock, UnlinkLock
<1>20. CASE RemoveTemp(p) BY <1>20 DEF RemoveTemp
<1>21. CASE Release(p) BY <1>21 DEF Release, Unlock
<1>22. CASE p \in Clients /\ CallGet(p) BY <1>22 DEF CallGet
<1>23. CASE p \in Cleaners /\ CallClear(p) BY <1>23 DEF CallClear
<1>31. CASE DropTemp(p) BY <1>31 DEF DropTemp
<1>32. CASE DropFailed(p) BY <1>32 DEF DropFailed
<1>33. CASE EmptyEntry(p) BY <1>33 DEF EmptyEntry, MayBeEmpty, MayBeFull
<1>34. CASE TestEntry(p) BY <1>34 DEF TestEntry
<1>35. CASE RemoveTempFile(p) BY <1>35 DEF RemoveTempFile, Robs
<1>36. CASE RemoveTempTree(p) BY <1>36 DEF RemoveTempTree, Robs, Emptied
<1>37. CASE EmptyTemp(p) BY <1>37 DEF EmptyTemp, Robs, MayBeEmpty, MayBeFull
<1>24. CASE Crash(p)
  <2>1. ASSUME NEW q \in Procs \ {p}, pc[q] \in {"startCreate", "creating", "rename"}
        PROVE  temp' = temp
    <3>1. temp \in {NoFile, Undamaged({q}), Undamaged({})}
      BY <1>24, <2>1 DEF Crash, Undamaged
    <3>2. Abandon(Undamaged({q}), p) = Undamaged({q})
      BY WriterGone
    <3>3. Abandon(Undamaged({}), p) = Undamaged({}) /\ Abandon(NoFile, p) = NoFile
      BY WriterGone
    <3> QED BY <1>24, <3>1, <3>2, <3>3 DEF Crash
  <2>2. temp # NoFile => temp' # NoFile
    BY <1>24, AbandonedStays DEF Crash
  <2> QED BY <1>24, <2>1, <2>2 DEF Crash
<1> QED BY <1>1, <1>2, <1>3, <1>4, <1>5, <1>6, <1>7, <1>8, <1>9, <1>10, <1>11, <1>12, <1>13, <1>14, <1>15, <1>16, <1>17, <1>18, <1>19, <1>20, <1>21, <1>22, <1>23, <1>24,
           <1>31, <1>32, <1>33, <1>34, <1>35, <1>36, <1>37 DEF Call, Step

LEMMA EntryInPlaceStep ==
  ASSUME TypeOK, IInv, broken = {}, broken' = {}, NEW p \in Procs, Call(p) \/ Step(p) \/ Crash(p)
  PROVE  EntryInPlace'
<1> USE DEF TypeOK, Labels, Goto, Raise, Return, files, locks, history, IInv, LockDiscipline, FlockExclusion, LocksCurrent, ClientsAndCleaners, Unlocked, SharedLocked, ExclusiveLocked, Unlinked, Creating, TempOwned, EntryInPlace, File, Emptying
<1>1. CASE OpenShared(p) BY <1>1 DEF OpenShared
<1>2. CASE GrantShared(p) BY <1>2 DEF GrantShared, Grant, Grantable, Holders
<1>3. CASE CheckShared(p) BY <1>3 DEF CheckShared
<1>4. CASE Touch(p) BY <1>4 DEF Touch, FreeInodes
<1>5. CASE LeaveBlock(p) BY <1>5 DEF LeaveBlock
<1>6. CASE OpenExclusive(p) BY <1>6 DEF OpenExclusive, FreeInodes
<1>7. CASE GrantExclusive(p) BY <1>7 DEF GrantExclusive, Grant, Grantable, Holders
<1>8. CASE LockTimeout(p) BY <1>8 DEF LockTimeout
<1>9. CASE CheckExclusive(p) BY <1>9 DEF CheckExclusive
<1>10. CASE ClearTemp(p) BY <1>10 DEF ClearTemp
<1>11. CASE StartCreate(p) BY <1>11 DEF StartCreate, Writers
<1>12. CASE FinishCreate(p) BY <1>12 DEF FinishCreate, Close
<1>13. CASE FailCreate(p)
  <2>1. entry' = entry
    BY <1>13, EntryKept DEF FailCreate
  <2> QED BY <1>13, <2>1 DEF FailCreate
<1>14. CASE FailTemp(p) BY <1>14 DEF FailTemp
<1>15. CASE FailLock(p) BY <1>15 DEF FailLock, UnlinkLock
<1>16. CASE Rename(p)
  <2>1. temp = [writing |-> {}, torn |-> FALSE] /\ temp # NoFile
    <3>1. temp = [writing |-> {}, torn |-> FALSE]
      BY <1>16 DEF Rename
    <3>2. [writing |-> {}, torn |-> FALSE] \in File
      BY DEF File
    <3> QED BY <3>1, <3>2
  <2>2. entry = NoFile
    BY <1>16 DEF Rename
  <2>3. entry' = temp /\ pc' = [pc EXCEPT ![p] = "unlockRetry"]
    BY <1>16, <2>1, <2>2 DEF Rename
  <2>4. \A q \in Procs \ {p} : pc[q] \notin Creating \cup {"emptyEntry"}
    BY <1>16, <2>1, <2>2 DEF Rename
  <2> QED BY <2>1, <2>2, <2>3, <2>4
<1>17. CASE CheckDelete(p) BY <1>17 DEF CheckDelete
<1>18. CASE RemoveEntry(p) BY <1>18 DEF RemoveEntry, Emptied
<1>19. CASE RemoveLock(p) BY <1>19 DEF RemoveLock, UnlinkLock
<1>20. CASE RemoveTemp(p) BY <1>20 DEF RemoveTemp
<1>21. CASE Release(p) BY <1>21 DEF Release, Unlock
<1>22. CASE p \in Clients /\ CallGet(p) BY <1>22 DEF CallGet
<1>23. CASE p \in Cleaners /\ CallClear(p) BY <1>23 DEF CallClear
<1>31. CASE DropTemp(p) BY <1>31 DEF DropTemp
<1>32. CASE DropFailed(p) BY <1>32 DEF DropFailed
<1>33. CASE EmptyEntry(p) BY <1>33 DEF EmptyEntry, MayBeEmpty, MayBeFull
<1>34. CASE TestEntry(p) BY <1>34 DEF TestEntry
<1>35. CASE RemoveTempFile(p) BY <1>35 DEF RemoveTempFile, Robs
<1>36. CASE RemoveTempTree(p) BY <1>36 DEF RemoveTempTree, Robs, Emptied
<1>37. CASE EmptyTemp(p) BY <1>37 DEF EmptyTemp, Robs, MayBeEmpty, MayBeFull
<1>24. CASE Crash(p)
  <2>0. pc[p] # "emptyEntry"
    BY <1>24 DEF Crash
  <2>1. entry \in {NoFile, Undamaged({}), Torn}
    BY DEF Undamaged, Torn
  <2>2. Abandon(Undamaged({}), p) = Undamaged({}) /\ Abandon(NoFile, p) = NoFile /\ Abandon(Torn, p) = Torn
    BY WriterGone, TornStays
  <2>3. entry' = entry
    BY <1>24, <2>1, <2>2 DEF Crash
  <2>4. Emptying => Emptying'
    BY <1>24, <2>0 DEF Crash, Emptying
  <2> QED BY <1>24, <2>3, <2>4 DEF Crash
<1> QED BY <1>1, <1>2, <1>3, <1>4, <1>5, <1>6, <1>7, <1>8, <1>9, <1>10, <1>11, <1>12, <1>13, <1>14, <1>15, <1>16, <1>17, <1>18, <1>19, <1>20, <1>21, <1>22, <1>23, <1>24,
           <1>31, <1>32, <1>33, <1>34, <1>35, <1>36, <1>37 DEF Call, Step

LEMMA ErrorsStep ==
  ASSUME TypeOK, IInv, broken = {}, broken' = {}, NEW p \in Procs, Call(p) \/ Step(p) \/ Crash(p)
  PROVE  ErrorsExplained'
<1> USE DEF TypeOK, Labels, Goto, Raise, Return, files, locks, history, IInv, LockDiscipline, FlockExclusion, LocksCurrent, ClientsAndCleaners, Unlocked, SharedLocked, ExclusiveLocked, Unlinked, Creating, TempOwned, EntryInPlace, ErrorsExplained, Errors
<1>1. CASE OpenShared(p) BY <1>1 DEF OpenShared
<1>2. CASE GrantShared(p) BY <1>2 DEF GrantShared, Grant, Grantable, Holders
<1>3. CASE CheckShared(p) BY <1>3 DEF CheckShared
<1>4. CASE Touch(p) BY <1>4 DEF Touch, FreeInodes
<1>5. CASE LeaveBlock(p) BY <1>5 DEF LeaveBlock
<1>6. CASE OpenExclusive(p) BY <1>6 DEF OpenExclusive, FreeInodes
<1>7. CASE GrantExclusive(p) BY <1>7 DEF GrantExclusive, Grant, Grantable, Holders
<1>8. CASE LockTimeout(p) BY <1>8 DEF LockTimeout
<1>9. CASE CheckExclusive(p) BY <1>9 DEF CheckExclusive
<1>10. CASE ClearTemp(p) BY <1>10 DEF ClearTemp
<1>11. CASE StartCreate(p) BY <1>11 DEF StartCreate, Writers
<1>12. CASE FinishCreate(p) BY <1>12 DEF FinishCreate, Close
<1>13. CASE FailCreate(p)
  <2>1. CASE pc[p] = "creating"
    <3>1. temp = [writing |-> {p}, torn |-> FALSE]
      BY <2>1
    <3>2. temp \in File
      BY <3>1 DEF File
    <3>3. p \in Writers(temp)
      BY <3>1, <3>2 DEF Writers
    <3> QED BY <1>13, <3>3 DEF FailCreate
  <2>2. CASE pc[p] # "creating"
    BY <1>13, <2>2 DEF FailCreate
  <2> QED BY <2>1, <2>2
<1>14. CASE FailTemp(p) BY <1>14 DEF FailTemp
<1>15. CASE FailLock(p) BY <1>15 DEF FailLock, UnlinkLock
<1>16. CASE Rename(p)
  <2>1. temp = [writing |-> {}, torn |-> FALSE] /\ entry = NoFile
    BY <1>16 DEF Rename
  <2>2. temp \in File
    BY <2>1 DEF File
  <2>3. raised' = raised
    BY <1>16, <2>1, <2>2 DEF Rename
  <2> QED BY <2>3
<1>17. CASE CheckDelete(p) BY <1>17 DEF CheckDelete
<1>18. CASE RemoveEntry(p) BY <1>18 DEF RemoveEntry, Emptied
<1>19. CASE RemoveLock(p) BY <1>19 DEF RemoveLock, UnlinkLock
<1>20. CASE RemoveTemp(p) BY <1>20 DEF RemoveTemp
<1>21. CASE Release(p) BY <1>21 DEF Release, Unlock
<1>22. CASE p \in Clients /\ CallGet(p) BY <1>22 DEF CallGet
<1>23. CASE p \in Cleaners /\ CallClear(p) BY <1>23 DEF CallClear
<1>31. CASE DropTemp(p) BY <1>31 DEF DropTemp
<1>32. CASE DropFailed(p) BY <1>32 DEF DropFailed
<1>33. CASE EmptyEntry(p) BY <1>33 DEF EmptyEntry, MayBeEmpty, MayBeFull
<1>34. CASE TestEntry(p) BY <1>34 DEF TestEntry
<1>35. CASE RemoveTempFile(p) BY <1>35 DEF RemoveTempFile, Robs
<1>36. CASE RemoveTempTree(p) BY <1>36 DEF RemoveTempTree, Robs, Emptied
<1>37. CASE EmptyTemp(p) BY <1>37 DEF EmptyTemp, Robs, MayBeEmpty, MayBeFull
<1>24. CASE Crash(p) BY <1>24 DEF Crash, Unlock, Abandon, Writers
<1> QED BY <1>1, <1>2, <1>3, <1>4, <1>5, <1>6, <1>7, <1>8, <1>9, <1>10, <1>11, <1>12, <1>13, <1>14, <1>15, <1>16, <1>17, <1>18, <1>19, <1>20, <1>21, <1>22, <1>23, <1>24,
           <1>31, <1>32, <1>33, <1>34, <1>35, <1>36, <1>37 DEF Call, Step

(* A step moves one process, and only four actions can move a reader or the *)
(* entry.                                                                   *)
LEMMA StepFrame ==
  ASSUME TypeOK, NEW p \in Procs, Call(p) \/ Step(p) \/ Crash(p)
  PROVE  /\ \A q \in Procs \ {p} : pc'[q] = pc[q]
         /\ pc'[p] = "reading" => Touch(p)
         /\ pc[p] = "reading" => LeaveBlock(p) \/ Crash(p)
         /\ \/ entry' = entry \/ Rename(p) \/ RemoveEntry(p) \/ EmptyEntry(p)
            \/ entry' = Close(entry, p) \/ entry' = Abandon(entry, p)
BY DEF TypeOK, Labels, Goto, Raise, Return, files, locks, history, Call, CallGet, CallClear,
       Crash, Unlock, Step, OpenShared, GrantShared, Grant, CheckShared, Touch,
       LeaveBlock, OpenExclusive, GrantExclusive, LockTimeout, CheckExclusive,
       ClearTemp, StartCreate, FinishCreate, FailCreate, FailTemp, FailLock,
       UnlinkLock, Rename, CheckDelete, RemoveEntry, RemoveLock, RemoveTemp, Release, DropTemp, DropFailed, EmptyEntry,
       TestEntry, RemoveTempFile, RemoveTempTree, EmptyTemp

(* Of files, the only cleaner goes for a temporary file when it has seen    *)
(* the entry, and while the entry is there nobody creates one.              *)
LEMMA EntrySeenStep ==
  ASSUME TypeOK, IInv, NEW p \in Procs, Call(p) \/ Step(p) \/ Crash(p)
  PROVE  EntrySeen'
<1> USE DEF TypeOK, Labels, Goto, Raise, Return, files, locks, history, IInv, EntrySeen
<1>1. "halved" \in broken' => TempKind = "dir"
  <2>1. CASE Crash(p)
    BY <2>1 DEF Crash
  <2>2. CASE ~Crash(p)
    <3>1. "halved" \in broken' => "halved" \in broken
      BY <2>2 DEF Call, CallGet, CallClear, Step, OpenShared, GrantShared, Grant, CheckShared, Touch,
         LeaveBlock, OpenExclusive, GrantExclusive, LockTimeout, CheckExclusive, Robs,
         ClearTemp, StartCreate, FinishCreate, FailCreate, FailTemp, FailLock,
         Rename, CheckDelete, RemoveEntry, RemoveLock, RemoveTemp, Release, DropTemp, DropFailed,
         EmptyEntry, TestEntry, RemoveTempFile, RemoveTempTree, EmptyTemp
    <3> QED BY <3>1
  <2> QED BY <2>1, <2>2
<1>2. TempKind = "file" => \A q \in Procs : pc'[q] \notin {"emptyEntry", "emptyTemp"}
  BY DEF Call, CallGet, CallClear, Crash, Step, OpenShared, GrantShared, CheckShared, Touch,
     LeaveBlock, OpenExclusive, GrantExclusive, LockTimeout, CheckExclusive,
     ClearTemp, StartCreate, FinishCreate, FailCreate, FailTemp, FailLock,
     Rename, CheckDelete, RemoveEntry, RemoveLock, RemoveTemp, Release, DropTemp, DropFailed,
     EmptyEntry, TestEntry, RemoveTempFile, RemoveTempTree, EmptyTemp
<1>3. ASSUME TempKind = "file", \A d, e \in Cleaners : d = e, "stale" \notin broken'
      PROVE  "robbed" \notin broken' /\ \A q \in Procs : pc'[q] = "removeTempFile" => entry' # NoFile
  <2>1. broken = {}
    BY <1>3, FailuresStay DEF Failures
  <2>2. "robbed" \notin broken'
    <3>1. CASE RemoveTempFile(p)
      <4>1. entry # NoFile
        BY <1>3, <2>1, <3>1 DEF RemoveTempFile
      <4>2. \A q \in Procs : pc[q] \notin {"dropTemp", "creating", "rename", "dropFailed"}
        BY <2>1, <4>1 DEF EntryInPlace, Creating
      <4> QED BY <2>1, <3>1, <4>2 DEF RemoveTempFile, Robs
    <3>2. CASE RemoveTempTree(p) \/ EmptyTemp(p)
      BY <1>3, <2>1, <3>2 DEF RemoveTempTree, EmptyTemp
    <3>3. CASE ~RemoveTempFile(p) /\ ~RemoveTempTree(p) /\ ~EmptyTemp(p)
      BY <2>1, <3>3 DEF Call, CallGet, CallClear, Crash, Step, OpenShared, GrantShared, Grant, CheckShared,
         Touch, LeaveBlock, OpenExclusive, GrantExclusive, LockTimeout, CheckExclusive,
         ClearTemp, StartCreate, FinishCreate, FailCreate, FailTemp, FailLock,
         Rename, CheckDelete, RemoveEntry, RemoveLock, RemoveTemp, Release, DropTemp, DropFailed,
         EmptyEntry, TestEntry
    <3> QED BY <3>1, <3>2, <3>3
  <2>3. ASSUME NEW q \in Procs, pc'[q] = "removeTempFile" PROVE entry' # NoFile
    <3>1. CASE q = p
      <4>1. TestEntry(p)
        BY <2>3, <3>1 DEF Call, CallGet, CallClear, Crash, Step, OpenShared, GrantShared, CheckShared, Touch,
           LeaveBlock, OpenExclusive, GrantExclusive, LockTimeout, CheckExclusive,
           ClearTemp, StartCreate, FinishCreate, FailCreate, FailTemp, FailLock,
           Rename, CheckDelete, RemoveEntry, RemoveLock, RemoveTemp, Release, DropTemp, DropFailed,
           EmptyEntry, TestEntry, RemoveTempFile, RemoveTempTree, EmptyTemp
      <4> QED BY <2>3, <3>1, <4>1 DEF TestEntry
    <3>2. CASE q # p
      <4>1. pc[q] = "removeTempFile"
        BY <2>3, <3>2, StepFrame
      <4>2. entry # NoFile /\ entry \in File
        BY <1>3, <2>1, <4>1
      <4>3. q \in Cleaners
        BY <4>1 DEF ClientsAndCleaners, Unlinked
      <4>4. ~RemoveEntry(p) /\ ~EmptyEntry(p) /\ ~Rename(p)
        <5>1. ~RemoveEntry(p) /\ ~EmptyEntry(p)
          BY <1>3, <3>2, <4>3 DEF RemoveEntry, EmptyEntry, ClientsAndCleaners
        <5>2. ~Rename(p)
          BY <2>1, <4>2 DEF Rename, EntryInPlace, Creating
        <5> QED BY <5>1, <5>2
      <4>5. Close(entry, p) # NoFile
        <5>1. [writing |-> entry.writing \ {p}, torn |-> entry.torn] \in File
          BY <4>2 DEF File
        <5> QED BY <4>2, <5>1 DEF Close
      <4>6. Abandon(entry, p) # NoFile
        BY <4>2, AbandonedStays
      <4> QED BY <4>2, <4>4, <4>5, <4>6, StepFrame
    <3> QED BY <3>1, <3>2
  <2> QED BY <2>2, <2>3
<1> QED BY <1>1, <1>2, <1>3

(* The strengthened invariant holds in every reachable state.               *)
THEOREM IInvCorrect == Spec => [](TypeOK /\ IInv)
<1>1. TypeOK /\ IInv /\ [Next]_vars => IInv'
  <2> SUFFICES ASSUME TypeOK, IInv, [Next]_vars PROVE IInv'
    OBVIOUS
  <2>1. CASE UNCHANGED vars
    BY <2>1 DEF vars, IInv, LockDiscipline, FlockExclusion, ClientsAndCleaners,
                LocksCurrent, TempOwned, EntryInPlace, ErrorsExplained, EntrySeen, Emptying
  <2>2. ASSUME NEW p \in Procs, Call(p) \/ Step(p) \/ Crash(p) PROVE IInv'
    <3>0. broken' = {} => broken = {}
      BY <2>2, FailuresStay
    <3>1. LockDiscipline' /\ FlockExclusion' /\ ClientsAndCleaners'
      BY <2>2, LockDisciplineStep, FlockExclusionStep, ClientsAndCleanersStep
    <3>2. ASSUME broken' = {} PROVE LocksCurrent' /\ TempOwned' /\ EntryInPlace'
      BY <2>2, <3>0, <3>2, LocksCurrentStep, TempOwnedStep, EntryInPlaceStep
    <3>3. ASSUME broken' = {} PROVE ErrorsExplained'
      BY <2>2, <3>0, <3>3, ErrorsStep
    <3>4. EntrySeen'
      BY <2>2, EntrySeenStep
    <3> QED BY <3>1, <3>2, <3>3, <3>4 DEF IInv
  <2> QED BY <2>1, <2>2 DEF Next
<1> QED BY <1>1, InitIInv, TypeStep, PTL DEF Spec

(* Until the locking has failed in one of three ways (a flock granted on an *)
(* unlinked lock file, a temporary file removed from under its creator, a   *)
(* cleaner killed amid a directory), readers keep their entry, one process  *)
(* creates it, and nobody sees a half-written one: for any number of        *)
(* clients and of cleaners.                                                 *)
THEOREM Protection == Spec => []ProtectedUnlessBroken
<1>1. TypeOK /\ IInv => ProtectedUnlessBroken
  <2> SUFFICES ASSUME TypeOK, IInv, broken = {}
               PROVE  ReadersProtected /\ SingleCreator /\ NoPartialEntry
    BY DEF ProtectedUnlessBroken
  <2>1. NoPartialEntry
    BY DEF IInv, EntryInPlace, NoPartialEntry, Whole, Emptying
  <2>2. ReadersProtected
    <3>1. ASSUME NEW p \in Clients, pc[p] = "reading", NEW q \in Cleaners, pc[q] = "emptyEntry" PROVE FALSE
      BY <3>1 DEF IInv, LockDiscipline, FlockExclusion, LocksCurrent, SharedLocked, ExclusiveLocked, Unlinked
    <3> QED BY <2>1, <3>1 DEF IInv, EntryInPlace, ReadersProtected, NoPartialEntry, Emptying
  <2>3. SingleCreator
    <3>1. ASSUME NEW p \in Clients, NEW q \in Clients, p # q, pc[p] \in Creating
          PROVE  pc[q] \notin Creating
      <4>1. \A r \in Procs : pc[r] \in Creating => held[r] = "exclusive" /\ fd[r] = lockFile
        BY DEF IInv, LockDiscipline, LocksCurrent, Creating, ExclusiveLocked, Unlinked
      <4> QED BY <3>1, <4>1 DEF IInv, FlockExclusion
    <3>2. ASSUME NEW p \in Clients, NEW q \in Clients, pc[p] \in Creating
          PROVE  pc[q] # "reading"
      BY <3>2 DEF IInv, EntryInPlace
    <3> QED BY <3>1, <3>2 DEF SingleCreator
  <2> QED BY <2>1, <2>2, <2>3
<1> QED BY <1>1, IInvCorrect, PTL

(* Until then, lookups raise only what create_function() raises, whoever    *)
(* else looks up, creates, deletes, fails or is killed.                     *)
THEOREM LookupErrors == Spec => []ErrorsExplainedUnlessBroken
<1>1. IInv => ErrorsExplainedUnlessBroken
  BY DEF IInv, ErrorsExplainedUnlessBroken
<1> QED BY <1>1, IInvCorrect, PTL

(* With one cleaner, entries that are files fail in the first way only:     *)
(* neither its two-step removal of a temporary file (fscache.py:380-385) nor*)
(* its death costs a creator its file.                                      *)
THEOREM OneCleaner == Spec => []OneCleanerRobsNobody
<1>1. TypeOK /\ IInv => OneCleanerRobsNobody
  BY DEF TypeOK, Failures, IInv, EntrySeen, OneCleanerRobsNobody
<1> QED BY <1>1, IInvCorrect, PTL

(* Steps other than these leave the contract's state alone.                 *)
LEMMA ContractStutter ==
  ASSUME NEW p \in Procs,
         entry' = entry, pc[p] # "reading", pc'[p] # "reading",
         pc[p] # "emptyEntry", pc'[p] # "emptyEntry",
         \A q \in Procs \ {p} : pc'[q] = pc[q], broken' = broken
  PROVE  UNCHANGED Contract!vars
<1>0. Emptying' = Emptying
  BY DEF Emptying
<1>1. Content' = Content
  BY <1>0 DEF Content, Whole
<1>2. Reading' = Reading
  BY DEF Reading
<1> QED BY <1>1, <1>2 DEF Contract!vars

(* While nothing has failed, a cleaner that empties an entry is alone.      *)
LEMMA EmptyingAlone ==
  ASSUME TypeOK, IInv, broken = {}, NEW p \in Procs, pc[p] \in {"reading", "touch", "emptyEntry"},
         NEW q \in Procs \ {p}
  PROVE  pc[q] # "emptyEntry"
BY DEF IInv, LockDiscipline, FlockExclusion, LocksCurrent, SharedLocked, ExclusiveLocked, Unlinked

LEMMA ContractStep ==
  TypeOK /\ IInv /\ IInv' /\ [Next]_vars => [Contract!Next]_Contract!vars
<1> SUFFICES ASSUME TypeOK, IInv, IInv', [Next]_vars PROVE [Contract!Next]_Contract!vars
  OBVIOUS
<1> USE DEF Goto, Raise, Return, files, locks, history
<1>1. CASE UNCHANGED vars
  BY <1>1 DEF vars, Contract!vars, Content, Whole, Reading, Emptying
<1>2. CASE broken' # {}
  BY <1>2 DEF Contract!Next, Contract!Break
<1>3. ASSUME broken' = {}, NEW p \in Procs, Call(p) \/ Step(p) \/ Crash(p)
      PROVE  [Contract!Next]_Contract!vars
  <2>0. broken = {}
    BY <1>3, FailuresStay
  <2>1. CASE Touch(p)
    <3>1. p \in Clients
      BY <2>1 DEF Touch, IInv, ClientsAndCleaners, SharedLocked
    <3>2. entry' = entry /\ entry # NoFile
      BY <2>0, <2>1 DEF Touch, IInv, EntryInPlace
    <3>3. ~Emptying /\ ~Emptying'
      <4>1. \A q \in Procs \ {p} : pc[q] # "emptyEntry"
        BY <2>0, <2>1, EmptyingAlone DEF Touch
      <4> QED BY <2>1, <4>1 DEF Touch, Emptying, TypeOK
    <3>4. Content = "whole" /\ Content' = "whole"
      BY <2>0, <3>2, <3>3 DEF IInv, EntryInPlace, Content, Whole
    <3>5. p \notin Reading /\ Reading' = Reading \cup {p}
      BY <2>1, <3>1 DEF Touch, Reading, TypeOK
    <3> QED BY <1>3, <3>1, <3>4, <3>5 DEF Contract!Next, Contract!Keep, Contract!Enter
  <2>2. CASE pc[p] = "reading" /\ (LeaveBlock(p) \/ Crash(p))
    <3>1. p \in Clients
      BY <2>2 DEF IInv, ClientsAndCleaners, SharedLocked
    <3>2. entry' = entry
      <4>1. CASE LeaveBlock(p) BY <4>1 DEF LeaveBlock
      <4>2. CASE Crash(p)
        BY <2>0, <4>2, EntryKept DEF Crash
      <4> QED BY <2>2, <4>1, <4>2
    <3>3. Emptying' = Emptying
      BY <2>2 DEF LeaveBlock, Crash, Emptying, TypeOK
    <3>4. Content' = Content
      BY <3>2, <3>3 DEF Content, Whole
    <3>5. p \in Reading /\ Reading' = Reading \ {p}
      BY <2>2, <3>1 DEF LeaveBlock, Crash, Reading, TypeOK
    <3> QED BY <1>3, <3>1, <3>4, <3>5 DEF Contract!Next, Contract!Keep, Contract!Leave
  <2>3. CASE Rename(p) /\ entry' # entry
    <3>1. p \in Clients /\ pc[p] \in Creating
      BY <2>3 DEF Rename, IInv, ClientsAndCleaners, Creating
    <3>2. entry = NoFile /\ Content = "none"
      BY <2>0, <3>1 DEF IInv, EntryInPlace, Content
    <3>3. ~Emptying'
      BY <2>0, <2>3, <3>2 DEF Rename, Emptying, IInv, EntryInPlace, TypeOK, File
    <3>4. Content' = "whole"
      BY <1>3, <2>3, <3>3 DEF Rename, IInv, EntryInPlace, Content, Whole, Emptying
    <3>5. Reading = {} /\ Reading' = Reading
      BY <2>0, <2>3, <3>1, <3>2 DEF Rename, IInv, EntryInPlace, Reading, TypeOK
    <3> QED BY <1>3, <3>2, <3>4, <3>5 DEF Contract!Next, Contract!Keep, Contract!Create
  <2>4. CASE RemoveEntry(p) /\ entry' # entry
    <3>1. p \in Cleaners /\ entry # NoFile
      BY <2>4 DEF RemoveEntry, IInv, ClientsAndCleaners
    <3>2. ~Emptying
      <4>1. ASSUME NEW q \in Cleaners, pc[q] = "emptyEntry" PROVE FALSE
        BY <2>0, <2>4, <4>1 DEF RemoveEntry, IInv, LockDiscipline, FlockExclusion, LocksCurrent,
           ExclusiveLocked, Unlinked
      <4> QED BY <4>1 DEF Emptying
    <3>3. Content = "whole"
      BY <2>0, <3>1, <3>2 DEF IInv, EntryInPlace, Content, Whole
    <3>4. Content' = "none"
      BY <2>4, <3>1 DEF RemoveEntry, Content, Emptying, TypeOK
    <3>5. Reading = {}
      BY <2>0, <2>4 DEF RemoveEntry, IInv, LockDiscipline, FlockExclusion, LocksCurrent, SharedLocked,
         ExclusiveLocked, Unlinked, Reading
    <3>6. Reading' = Reading
      BY <2>4 DEF RemoveEntry, Reading, TypeOK
    <3> QED BY <1>3, <3>3, <3>4, <3>5, <3>6 DEF Contract!Next, Contract!Keep, Contract!Evict
  <2>5. CASE EmptyEntry(p)
    <3>1. p \in Cleaners
      BY <2>5 DEF EmptyEntry, IInv, ClientsAndCleaners
    <3>2. entry = Torn /\ entry # NoFile /\ entry' = NoFile
      BY <2>0, <2>5, TornStays DEF EmptyEntry, IInv, EntryInPlace, Torn, MayBeFull
    <3>3. Content = "none" /\ Content' = "none"
      BY <2>5, <3>1, <3>2 DEF EmptyEntry, Content, Emptying
    <3>4. Reading' = Reading
      BY <2>5 DEF EmptyEntry, Reading, TypeOK
    <3> QED BY <1>3, <2>0, <3>3, <3>4 DEF Contract!vars
  <2>6. entry' = entry \/ Rename(p) \/ RemoveEntry(p) \/ EmptyEntry(p)
    BY <1>3, <2>0, StepFrame, EntryKept
  <2>7. CASE Crash(p) /\ pc[p] = "emptyEntry"
    BY <1>3, <2>7 DEF Crash
  <2>8. CASE entry' = entry /\ pc[p] # "reading" /\ ~Touch(p) /\ ~EmptyEntry(p) /\ ~(Crash(p) /\ pc[p] = "emptyEntry")
    <3>1. pc'[p] # "reading" /\ \A q \in Procs \ {p} : pc'[q] = pc[q]
      BY <1>3, <2>8, StepFrame
    <3>2. pc[p] # "emptyEntry"
      BY <1>3, <2>8 DEF Call, CallGet, CallClear, Step, OpenShared, GrantShared, CheckShared, Touch,
         LeaveBlock, OpenExclusive, GrantExclusive, LockTimeout, CheckExclusive,
         ClearTemp, StartCreate, FinishCreate, FailCreate, FailTemp, FailLock,
         Rename, CheckDelete, RemoveEntry, RemoveLock, RemoveTemp, Release, DropTemp, DropFailed,
         TestEntry, RemoveTempFile, RemoveTempTree, EmptyTemp
    <3>3. pc'[p] # "emptyEntry"
      <4>1. ASSUME pc'[p] = "emptyEntry" PROVE RemoveEntry(p) /\ entry' = Emptied(entry)
        BY <1>3, <4>1 DEF TypeOK, Call, CallGet, CallClear, Crash, Step, OpenShared, GrantShared, CheckShared,
           Touch, LeaveBlock, OpenExclusive, GrantExclusive, LockTimeout, CheckExclusive,
           ClearTemp, StartCreate, FinishCreate, FailCreate, FailTemp, FailLock,
           Rename, CheckDelete, RemoveEntry, RemoveLock, RemoveTemp, Release, DropTemp, DropFailed,
           EmptyEntry, TestEntry, RemoveTempFile, RemoveTempTree, EmptyTemp
      <4>2. ASSUME RemoveEntry(p), entry' = Emptied(entry) PROVE FALSE
        <5>1. p \in Cleaners /\ entry # NoFile
          BY <2>0, <4>2 DEF RemoveEntry, IInv, ClientsAndCleaners, EntryInPlace
        <5>2. ~Emptying
          <6>1. ASSUME NEW q \in Cleaners, pc[q] = "emptyEntry" PROVE FALSE
            BY <2>0, <4>2, <6>1 DEF RemoveEntry, IInv, LockDiscipline, FlockExclusion, LocksCurrent,
               ExclusiveLocked, Unlinked
          <6> QED BY <6>1 DEF Emptying
        <5>3. entry = Undamaged({})
          BY <2>0, <5>1, <5>2 DEF IInv, EntryInPlace, Undamaged
        <5>4. entry.torn = FALSE /\ entry'.torn = TRUE
          BY <4>2, <5>3 DEF Emptied, Undamaged
        <5> QED BY <2>8, <5>4
      <4> QED BY <4>1, <4>2
    <3> QED BY <1>3, <2>0, <2>8, <3>1, <3>2, <3>3, ContractStutter
  <2>9. CASE entry' = entry /\ (Rename(p) \/ RemoveEntry(p))
    BY <2>8, <2>9 DEF Rename, RemoveEntry, Touch, EmptyEntry, Crash
  <2>10. pc[p] # "reading" \/ LeaveBlock(p) \/ Crash(p)
    BY <1>3, StepFrame
  <2> QED BY <2>1, <2>2, <2>3, <2>4, <2>5, <2>6, <2>7, <2>8, <2>10
<1> QED BY <1>1, <1>2, <1>3 DEF Next

(* The cache implements CacheContract.                                      *)
THEOREM Refinement == Spec => ImplementsContract
<1>1. Init => Contract!Init
  BY DEF Init, Contract!Init, Content, Reading
<1>2. Spec => Contract!Spec
  BY <1>1, ContractStep, IInvCorrect, PTL DEF Spec, Contract!Spec
<1> QED BY <1>2 DEF ImplementsContract

(* Until a lock file is unlinked, all that are open are the one that the    *)
(* path leads to.                                                           *)
LinkedInv == ~unlinked => "stale" \notin broken /\ \A p \in Procs : fd[p] \in {NoFile, lockFile}

LEMMA LinkedStep ==
  ASSUME TypeOK, IInv, LinkedInv, NEW p \in Procs, Call(p) \/ Step(p) \/ Crash(p)
  PROVE  LinkedInv'
<1> SUFFICES ASSUME ~unlinked'
             PROVE  "stale" \notin broken' /\ \A q \in Procs : fd'[q] \in {NoFile, lockFile'}
  BY DEF LinkedInv
<1> USE DEF files, locks, history, Goto, Raise, Return
<1>1. ~unlinked /\ ~FailLock(p) /\ ~RemoveLock(p)
  BY DEF Call, CallGet, CallClear, Crash, Unlock, Step, OpenShared, GrantShared, Grant, CheckShared, Touch,
     LeaveBlock, OpenExclusive, GrantExclusive, LockTimeout, CheckExclusive,
     ClearTemp, StartCreate, FinishCreate, FailCreate, FailTemp, FailLock,
     UnlinkLock, Rename, CheckDelete, RemoveEntry, RemoveLock, RemoveTemp, Release, DropTemp, DropFailed,
     EmptyEntry, TestEntry, RemoveTempFile, RemoveTempTree, EmptyTemp
<1>2. "stale" \notin broken /\ \A q \in Procs : fd[q] \in {NoFile, lockFile}
  BY <1>1 DEF LinkedInv
<1>3. "stale" \notin broken'
  <2>1. CASE GrantShared(p) \/ GrantExclusive(p)
    BY <1>2, <2>1 DEF GrantShared, GrantExclusive, Grant, IInv, LockDiscipline
  <2>2. CASE RemoveTempFile(p) \/ RemoveTempTree(p) \/ EmptyTemp(p) \/ Crash(p)
    BY <1>2, <2>2 DEF RemoveTempFile, RemoveTempTree, EmptyTemp, Crash, Robs
  <2>3. CASE Call(p)
    BY <1>2, <2>3 DEF Call, CallGet, CallClear
  <2>4. CASE Step(p) /\ ~GrantShared(p) /\ ~GrantExclusive(p) /\ ~RemoveTempFile(p)
             /\ ~RemoveTempTree(p) /\ ~EmptyTemp(p)
    BY <1>1, <1>2, <2>4 DEF Step, OpenShared, CheckShared, Touch,
       LeaveBlock, OpenExclusive, LockTimeout, CheckExclusive, ClearTemp, StartCreate,
       FinishCreate, FailCreate, FailTemp, Rename, CheckDelete, RemoveEntry,
       RemoveTemp, Release, DropTemp, DropFailed, EmptyEntry, TestEntry
  <2> QED BY <2>1, <2>2, <2>3, <2>4
<1>4. \A q \in Procs : fd'[q] \in {NoFile, lockFile'}
  BY <1>1, <1>2 DEF TypeOK, IInv, LockDiscipline, ExclusiveLocked, SharedLocked, Creating, Unlinked,
     Call, CallGet, CallClear,
     Crash, Unlock, Step, OpenShared, GrantShared, Grant, CheckShared, Touch,
     LeaveBlock, OpenExclusive, GrantExclusive, LockTimeout, CheckExclusive,
     ClearTemp, StartCreate, FinishCreate, FailCreate, FailTemp,
     Rename, CheckDelete, RemoveEntry, RemoveTemp, Release, DropTemp, DropFailed, EmptyEntry,
     TestEntry, RemoveTempFile, RemoveTempTree, EmptyTemp
<1> QED BY <1>3, <1>4

(* Only a deletion or a failed creation makes a lock stale, for any number  *)
(* of clients and cleaners, killed wherever they are.                       *)
THEOREM NoUnlinkNoStale == Spec => []NeverStale
<1>1. Init => LinkedInv
  BY DEF Init, LinkedInv
<1>2. TypeOK /\ IInv /\ LinkedInv /\ [Next]_vars => LinkedInv'
  <2> SUFFICES ASSUME TypeOK, IInv, LinkedInv, [Next]_vars PROVE LinkedInv'
    OBVIOUS
  <2>1. CASE UNCHANGED vars BY <2>1 DEF vars, LinkedInv
  <2> QED BY <2>1, LinkedStep DEF Next
<1>3. LinkedInv => NeverStale
  BY DEF LinkedInv, NeverStale
<1> QED BY <1>1, <1>2, <1>3, IInvCorrect, PTL DEF Spec

=============================================================================
