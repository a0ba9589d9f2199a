---------------------------- MODULE ServicesProofs ----------------------------
(* Theorems about the components of Services, for every instance of each,   *)
(* and about what they keep and show for clients: UserData, and the pages   *)
(* of the frontend.                                                         *)
EXTENDS Services, FiniteSetTheorems, SequenceTheorems, TLAPS

EvictP == INSTANCE EvictionProofs WITH Workers <- Threads

-----------------------------------------------------------------------------
(* Whatever the others do, a component takes its own steps or none.         *)
LEMMA StepOfOne ==
  [Next]_vars =>
    /\ [Lock!Next]_lockVars /\ [Shutdown!Next]_shutdownVars /\ [Stats!Next]_statVars
    /\ [Evict!Next]_evictionVars /\ [Portals!Next]_socrataVars /\ [Zen!Next]_zenodoVars
    /\ [Uaz!Next]_uazVars /\ [Query!Next]_queryVars /\ [Lazo!Next]_lazoVars
    /\ [Data!Next]_userVars /\ [Page!Next]_pageVars /\ [Related!Next]_fileVars
    /\ [Form!Next]_uploadVars
BY DEF Next, vars, Others, LockOnly, ShutdownOnly, StatsOnly, EvictOnly, PortalsOnly, ZenOnly,
   UazOnly, QueryOnly, LazoOnly, DataOnly, PageOnly, RelatedOnly, FormOnly

-----------------------------------------------------------------------------
(* LockProcess: what the two processes of a call agree on.                 *)
(* Where the two processes of a call stand: the file is locked between the  *)
(* grant and the exit of the subprocess, in the mode that was asked for; an *)
(* answer 'LOCKED' that nobody read, and a with-block, mean that it still   *)
(* waits for 'UNLOCK' or was killed.                                        *)
Consistent(c) ==
  /\ flock[c] # "none" <=> child[c] \in {"granted", "wait"}
  /\ flock[c] # "none" => flock[c] = IF call[c].exclusive THEN "exclusive" ELSE "shared"
  /\ parent[c] = "idle" => child[c] = "none" /\ answer[c] = "none" /\ ~unlock[c]
  /\ parent[c] \in {"recv", "block"} => ~unlock[c]
  /\ parent[c] = "recv" /\ answer[c] = "LOCKED" => child[c] \in {"wait", "killed"}
  /\ parent[c] = "block" => child[c] \in {"wait", "killed"}
  /\ parent[c] = "returned" /\ raised[c] # "SystemExit" => child[c] \in Lock!Ended \cup {"none"}
Excludes(c, d) == c # d /\ flock[c] = "exclusive" => flock[d] = "none"

LockInv ==
  /\ Lock!LockTypeOK
  /\ \A c \in Callers : Consistent(c)
  /\ \A c, d \in Callers : Excludes(c, d)

LEMMA OutcomeTyped ==
  ASSUME NEW m \in Lock!Answers \ {"none"}
  PROVE  Lock!Outcome(m) \in Lock!Exceptions
BY DEF Lock!Outcome, Lock!Answers, Lock!Exceptions

LEMMA InitLockInv == Lock!Init => LockInv
BY DEF Lock!Init, LockInv, Lock!LockTypeOK, Consistent, Excludes, Lock!Arguments, Lock!Parents,
     Lock!Children, Lock!Answers,
       Lock!Exceptions, Lock!Ended

LEMMA FaultCounted ==
  ASSUME faults \in Nat, Lock!Fault
  PROVE  faults' \in Nat
<1>1. faults' = faults + 1
  BY DEF Lock!Fault
<1> QED BY <1>1

(* Each step of a call keeps the types.                                     *)
LEMMA NextLockTypeOK ==
  ASSUME Lock!LockTypeOK, Lock!Next
  PROVE  Lock!LockTypeOK'
<1> USE DEF Lock!LockTypeOK, Lock!Set, Lock!Parents, Lock!Children, Lock!Ended, Lock!Answers,
     Lock!Exceptions
<1>1. PICK c \in Callers :
        Lock!Steps(c) \/ Lock!Start(c) \/ Lock!StartFails(c) \/ Lock!ParentKilled(c) \/ Lock!ChildKilled(c)
  BY DEF Lock!Next
<1>2. CASE Lock!Recv(c)
  <2>1. Lock!Outcome(answer[c]) \in Lock!Exceptions
    BY <1>2, OutcomeTyped DEF Lock!Recv
  <2> QED BY <1>2, <2>1 DEF Lock!Recv
<1>3. CASE Lock!LeaveBlock(c)
  <2>1. PICK e \in {"none", "body"} : raised' = [raised EXCEPT ![c] = e]
    BY <1>3 DEF Lock!LeaveBlock
  <2>2. raised' \in [Callers -> Lock!Exceptions]
    BY <2>1
  <2> QED BY <1>3, <2>2 DEF Lock!LeaveBlock
<1>4. CASE Lock!Join(c)
  BY <1>4, FaultCounted DEF Lock!Join
<1>5. CASE Lock!Open(c)
  <2>1. \/ /\ child' = [child EXCEPT ![c] = "flock"] /\ UNCHANGED <<answer, flock>>
        \/ Lock!Answer(c, "NOTFOUND", "exit 0")
        \/ Lock!Answer(c, "ERROR", "exit 1")
    BY <1>5 DEF Lock!Open
  <2>2. child' \in [Callers -> Lock!Children] /\ answer' \in [Callers -> Lock!Answers]
    BY <2>1 DEF Lock!Answer, Lock!Exit
  <2>3. flock' \in [Callers -> {"none", "shared", "exclusive"}]
    BY <2>1 DEF Lock!Answer, Lock!Exit
  <2>4. exists' \in BOOLEAN /\ faults' \in Nat
    BY <1>5, FaultCounted DEF Lock!Open
  <2> QED BY <1>5, <2>2, <2>3, <2>4 DEF Lock!Open
<1>6. CASE Lock!Flock(c)
  BY <1>6 DEF Lock!Flock
<1>7. CASE Lock!Expire(c)
  <2>1. Lock!Answer(c, "TIMEOUT", "exit 0") \/ Lock!Answer(c, "ERROR", "exit 1")
    BY <1>7 DEF Lock!Expire
  <2>2. child' \in [Callers -> Lock!Children] /\ answer' \in [Callers -> Lock!Answers]
    BY <2>1 DEF Lock!Answer, Lock!Exit
  <2>3. flock' \in [Callers -> {"none", "shared", "exclusive"}]
    BY <2>1 DEF Lock!Answer, Lock!Exit
  <2> QED BY <1>7, <2>2, <2>3 DEF Lock!Expire
<1>8. CASE Lock!Granted(c)
  BY <1>8 DEF Lock!Granted, Lock!Exit
<1>9. CASE Lock!Unlock(c)
  BY <1>9 DEF Lock!Unlock, Lock!Exit
<1>10. CASE Lock!Start(c)
  BY <1>10 DEF Lock!Start
<1>11. CASE Lock!StartFails(c)
  BY <1>11, FaultCounted DEF Lock!StartFails
<1>12. CASE Lock!ParentKilled(c)
  BY <1>12, FaultCounted DEF Lock!ParentKilled
<1>13. CASE Lock!ChildKilled(c)
  BY <1>13, FaultCounted DEF Lock!ChildKilled, Lock!Exit
<1> QED
  BY <1>1, <1>2, <1>3, <1>4, <1>5, <1>6, <1>7, <1>8, <1>9, <1>10, <1>11, <1>12, <1>13
  DEF Lock!Steps

(* And what the two processes and the file agree on: one case per step.     *)
LEMMA NextConsistent ==
  ASSUME LockInv, Lock!Next, NEW d \in Callers
  PROVE  Consistent(d)'
<1> USE DEF LockInv, Lock!LockTypeOK, Consistent, Lock!Set, Lock!Ended
<1>1. PICK c \in Callers :
        Lock!Steps(c) \/ Lock!Start(c) \/ Lock!StartFails(c) \/ Lock!ParentKilled(c) \/ Lock!ChildKilled(c)
  BY DEF Lock!Next
<1>2. CASE Lock!Recv(c)
  BY <1>2 DEF Lock!Recv
<1>3. CASE Lock!LeaveBlock(c)
  BY <1>3 DEF Lock!LeaveBlock
<1>4. CASE Lock!Join(c)
  BY <1>4 DEF Lock!Join
<1>5. CASE Lock!Open(c)
  <2>1. \/ /\ child' = [child EXCEPT ![c] = "flock"] /\ UNCHANGED <<answer, flock>>
        \/ Lock!Answer(c, "NOTFOUND", "exit 0")
        \/ Lock!Answer(c, "ERROR", "exit 1")
    BY <1>5 DEF Lock!Open
  <2>2. child[c] = "open" /\ UNCHANGED <<call, parent, unlock, raised>>
    BY <1>5 DEF Lock!Open
  <2>3. CASE Lock!Answer(c, "NOTFOUND", "exit 0") \/ Lock!Answer(c, "ERROR", "exit 1")
    <3>1. /\ flock' = [flock EXCEPT ![c] = "none"]
          /\ \/ child' = [child EXCEPT ![c] = "exit 1"]
             \/ child' = [child EXCEPT ![c] = "exit 0"]
          /\ answer' = answer \/ answer' = [answer EXCEPT ![c] = "NOTFOUND"]
                              \/ answer' = [answer EXCEPT ![c] = "ERROR"]
      BY <2>3 DEF Lock!Answer, Lock!Exit
    <3> QED BY <2>2, <3>1
  <2> QED BY <2>1, <2>2, <2>3
<1>6. CASE Lock!Flock(c)
  BY <1>6 DEF Lock!Flock
<1>7. CASE Lock!Expire(c)
  <2>1. Lock!Answer(c, "TIMEOUT", "exit 0") \/ Lock!Answer(c, "ERROR", "exit 1")
    BY <1>7 DEF Lock!Expire
  <2>2. child[c] \in {"flock", "granted"} /\ UNCHANGED <<call, parent, unlock, raised>>
    BY <1>7 DEF Lock!Expire
  <2>3. /\ flock' = [flock EXCEPT ![c] = "none"]
        /\ \/ child' = [child EXCEPT ![c] = "exit 1"]
           \/ child' = [child EXCEPT ![c] = "exit 0"]
        /\ answer' = answer \/ answer' = [answer EXCEPT ![c] = "TIMEOUT"]
                            \/ answer' = [answer EXCEPT ![c] = "ERROR"]
    BY <2>1 DEF Lock!Answer, Lock!Exit
  <2> QED BY <2>2, <2>3
<1>8. CASE Lock!Granted(c)
  <2>1. child[c] = "granted" /\ UNCHANGED <<call, parent, unlock, raised>>
    BY <1>8 DEF Lock!Granted
  <2>2. CASE parent[c] = "killed"
    <3>1. /\ child' = [child EXCEPT ![c] = "exit 1"] /\ flock' = [flock EXCEPT ![c] = "none"]
          /\ answer' = answer
      BY <1>8, <2>2 DEF Lock!Granted, Lock!Exit
    <3> QED BY <2>1, <2>2, <3>1
  <2>3. CASE parent[c] # "killed"
    <3>1. /\ child' = [child EXCEPT ![c] = "wait"] /\ answer' = [answer EXCEPT ![c] = "LOCKED"]
          /\ flock' = flock
      BY <1>8, <2>3 DEF Lock!Granted
    <3> QED BY <2>1, <2>3, <3>1
  <2> QED BY <2>2, <2>3
<1>9. CASE Lock!Unlock(c)
  <2>1. /\ child[c] = "wait" /\ (unlock[c] \/ parent[c] = "killed")
        /\ flock' = [flock EXCEPT ![c] = "none"]
        /\ \/ child' = [child EXCEPT ![c] = "exit 1"]
           \/ child' = [child EXCEPT ![c] = "exit 0"]
        /\ UNCHANGED <<call, parent, answer, unlock, exists, raised, faults>>
    BY <1>9 DEF Lock!Unlock, Lock!Exit
  <2> QED BY <2>1
<1>10. CASE Lock!Start(c)
  BY <1>10 DEF Lock!Start
<1>11. CASE Lock!StartFails(c)
  BY <1>11 DEF Lock!StartFails
<1>12. CASE Lock!ParentKilled(c)
  BY <1>12 DEF Lock!ParentKilled
<1>13. CASE Lock!ChildKilled(c)
  <2>1. /\ child' = [child EXCEPT ![c] = "killed"] /\ flock' = [flock EXCEPT ![c] = "none"]
        /\ UNCHANGED <<call, parent, answer, unlock, raised>>
    BY <1>13 DEF Lock!ChildKilled, Lock!Exit
  <2>2. child[c] # "none"
    BY <1>13 DEF Lock!ChildKilled
  <2>3. flock'[d] # "none" => d # c /\ flock'[d] = flock[d]
    BY <2>1
  <2> QED BY <2>1, <2>2, <2>3
<1> QED
  BY <1>1, <1>2, <1>3, <1>4, <1>5, <1>6, <1>7, <1>8, <1>9, <1>10, <1>11, <1>12, <1>13
  DEF Lock!Steps

(* Only Flock() takes a lock; the kernel looks at the others first.         *)
LEMMA NextExcludes ==
  ASSUME LockInv, Lock!Next, NEW a \in Callers, NEW b \in Callers
  PROVE  Excludes(a, b)'
<1> USE DEF LockInv, Lock!LockTypeOK, Excludes, Lock!Set
<1>1. PICK c \in Callers :
        Lock!Steps(c) \/ Lock!Start(c) \/ Lock!StartFails(c) \/ Lock!ParentKilled(c) \/ Lock!ChildKilled(c)
  BY DEF Lock!Next
<1>2. CASE Lock!Flock(c)
  <2>1. Lock!Free(c) /\ flock' = [flock EXCEPT ![c] = IF call[c].exclusive THEN "exclusive" ELSE "shared"]
    BY <1>2 DEF Lock!Flock
  <2> QED BY <2>1 DEF Lock!Free
<1>3. ASSUME ~Lock!Flock(c) PROVE flock' = flock \/ flock' = [flock EXCEPT ![c] = "none"]
  BY <1>1, <1>3 DEF Lock!Steps, Lock!Recv, Lock!LeaveBlock, Lock!Join, Lock!Open, Lock!Expire,
       Lock!Granted, Lock!Unlock, Lock!Start,
     Lock!StartFails, Lock!ParentKilled, Lock!ChildKilled, Lock!Answer, Lock!Exit
<1> QED BY <1>2, <1>3

LEMMA NextLockInv ==
  ASSUME LockInv, [Lock!Next]_lockVars
  PROVE  LockInv'
<1>1. CASE Lock!Next
  <2>1. Lock!LockTypeOK'
    BY <1>1, NextLockTypeOK DEF LockInv
  <2>2. \A c \in Callers : Consistent(c)'
    BY <1>1, NextConsistent
  <2>3. \A c, d \in Callers : Excludes(c, d)'
    BY <1>1, NextExcludes
  <2> QED BY <2>1, <2>2, <2>3 DEF LockInv
<1>2. CASE UNCHANGED lockVars
  BY <1>2 DEF lockVars, LockInv, Lock!LockTypeOK, Consistent, Excludes
<1> QED BY <1>1, <1>2

LEMMA LockInvHolds == LockInv => Lock!LocksHold
<1> SUFFICES ASSUME LockInv, NEW c \in Callers, NEW d \in Callers
             PROVE  Lock!BlockIsLocked(c) /\ Lock!BlocksExclude(c, d)
  BY DEF Lock!LocksHold
<1>1. Consistent(c) /\ Consistent(d) /\ Excludes(c, d) /\ Excludes(d, c)
  BY DEF LockInv
<1>2. Lock!BlockIsLocked(c)
  BY <1>1 DEF Consistent, Lock!BlockIsLocked, Lock!Ended
<1>3. Lock!BlocksExclude(c, d)
  BY <1>1 DEF Consistent, Excludes, Lock!BlocksExclude
<1> QED BY <1>2, <1>3

-----------------------------------------------------------------------------
(* GracefulShutdown: what the counter says.                                 *)

(* What nb_requests counts as long as no request was refused: the graceful  *)
(* handlers that began and whose do_decrease() has not run.                 *)
Active == {r \in Handlers : r \in Graceful /\ state[r] \in {"running", "decrease"}}
Counted == rejected = {} => IsFiniteSet(Active) /\ nbRequests = Cardinality(Active)

ShutdownInv ==
  /\ Shutdown!ShutdownTypeOK
  /\ \A r \in Handlers : state[r] = "decrease" => r \in Graceful
  /\ Counted
  /\ Shutdown!StopsIdle

LEMMA InitShutdownInv == Shutdown!Init => ShutdownInv
<1> SUFFICES ASSUME Shutdown!Init PROVE ShutdownInv
  OBVIOUS
<1>1. Active = {}
  BY DEF Shutdown!Init, Active
<1>2. Counted
  BY <1>1, FS_EmptySet DEF Shutdown!Init, Counted
<1> QED BY <1>2 DEF Shutdown!Init, ShutdownInv, Shutdown!ShutdownTypeOK, Shutdown!StopsIdle

(* A request that begins or ends adds itself to the set, or leaves it.      *)
LEMMA NextCounted ==
  ASSUME ShutdownInv, Shutdown!Next
  PROVE  Counted'
<1> SUFFICES ASSUME rejected' = {}
             PROVE  IsFiniteSet(Active') /\ nbRequests' = Cardinality(Active')
  BY DEF Counted
<1> USE DEF ShutdownInv, Shutdown!ShutdownTypeOK
<1>1. rejected = {}
  BY DEF Shutdown!Next, Shutdown!Steps, Shutdown!Prepare, Shutdown!OnFinish, Shutdown!Decrease,
       Shutdown!Reject, Shutdown!Sigterm, Shutdown!DoExit, Shutdown!Stopped
<1>2. IsFiniteSet(Active) /\ nbRequests = Cardinality(Active)
  BY <1>1 DEF Counted
<1>3. ASSUME NEW r \in Handlers, Shutdown!Prepare(r)
      PROVE  IsFiniteSet(Active') /\ nbRequests' = Cardinality(Active')
  <2>1. CASE r \in Graceful
    <3>1. Active' = Active \cup {r} /\ r \notin Active /\ nbRequests' = nbRequests + 1
      BY <1>3, <2>1 DEF Shutdown!Prepare, Active
    <3> QED BY <1>2, <3>1, FS_AddElement
  <2>2. CASE r \notin Graceful
    <3>1. Active' = Active /\ nbRequests' = nbRequests
      BY <1>3, <2>2 DEF Shutdown!Prepare, Active
    <3> QED BY <1>2, <3>1
  <2> QED BY <2>1, <2>2
<1>4. ASSUME NEW r \in Handlers, Shutdown!OnFinish(r)
      PROVE  IsFiniteSet(Active') /\ nbRequests' = Cardinality(Active')
  <2>1. Active' = Active /\ nbRequests' = nbRequests
    BY <1>4 DEF Shutdown!OnFinish, Active
  <2> QED BY <1>2, <2>1
<1>5. ASSUME NEW r \in Handlers, Shutdown!Decrease(r)
      PROVE  IsFiniteSet(Active') /\ nbRequests' = Cardinality(Active')
  <2>1. Active' = Active \ {r} /\ r \in Active /\ nbRequests' = nbRequests - 1
    BY <1>5 DEF Shutdown!Decrease, Active
  <2> QED BY <1>2, <2>1, FS_RemoveElement
<1>6. ASSUME NEW r \in Handlers, Shutdown!Reject(r)
      PROVE  FALSE
  BY <1>6 DEF Shutdown!Reject
<1>7. CASE Shutdown!DoExit \/ Shutdown!Stopped \/ Shutdown!Sigterm
  <2>1. Active' = Active /\ nbRequests' = nbRequests
    BY <1>7 DEF Shutdown!DoExit, Shutdown!Stopped, Shutdown!Sigterm, Active
  <2> QED BY <1>2, <2>1
<1> QED BY <1>3, <1>4, <1>5, <1>6, <1>7 DEF Shutdown!Next, Shutdown!Steps

(* do_exit() stops the loop with a counter of zero; what begins in the rest *)
(* of that iteration is late, and nothing begins afterwards.                *)
LEMMA NextStopsIdle ==
  ASSUME ShutdownInv, Shutdown!Next
  PROVE  Shutdown!StopsIdle'
<1> SUFFICES ASSUME closing' \in {"stop", "stopped"}, rejected' = {}
             PROVE  (Shutdown!Running \cap Graceful \subseteq late)'
  BY DEF Shutdown!StopsIdle
<1> USE DEF ShutdownInv, Shutdown!ShutdownTypeOK
<1>1. rejected = {}
  BY DEF Shutdown!Next, Shutdown!Steps, Shutdown!Prepare, Shutdown!OnFinish, Shutdown!Decrease,
       Shutdown!Reject, Shutdown!Sigterm, Shutdown!DoExit, Shutdown!Stopped
<1>2. CASE Shutdown!DoExit
  <2>1. nbRequests <= 0 /\ state' = state
    BY <1>2 DEF Shutdown!DoExit
  <2>2. IsFiniteSet(Active) /\ Cardinality(Active) = 0
    BY <1>1, <2>1, FS_CardinalityType DEF Counted
  <2>3. Active = {}
    BY <2>2, FS_EmptySet
  <2> QED BY <2>1, <2>3 DEF Shutdown!Running, Active
<1>3. ASSUME NEW r \in Handlers, Shutdown!Prepare(r)
      PROVE  (Shutdown!Running \cap Graceful \subseteq late)'
  <2>1. closing = "stop" /\ late' = late \cup {r} /\ Shutdown!Running' = Shutdown!Running \cup {r}
    BY <1>3 DEF Shutdown!Prepare, Shutdown!Running
  <2> QED BY <1>1, <2>1 DEF Shutdown!StopsIdle
<1>4. ASSUME NEW r \in Handlers, Shutdown!OnFinish(r) \/ Shutdown!Decrease(r) \/ Shutdown!Reject(r)
      PROVE  (Shutdown!Running \cap Graceful \subseteq late)'
  <2>1. closing \in {"stop", "stopped"} /\ late' = late /\ Shutdown!Running' \subseteq Shutdown!Running
    BY <1>4 DEF Shutdown!OnFinish, Shutdown!Decrease, Shutdown!Reject, Shutdown!Running
  <2> QED BY <1>1, <2>1 DEF Shutdown!StopsIdle
<1>5. CASE Shutdown!Stopped \/ Shutdown!Sigterm
  <2>1. closing = "stop" /\ late' = late /\ Shutdown!Running' = Shutdown!Running
    BY <1>5 DEF Shutdown!Stopped, Shutdown!Sigterm, Shutdown!Running
  <2> QED BY <1>1, <2>1 DEF Shutdown!StopsIdle
<1> QED BY <1>2, <1>3, <1>4, <1>5 DEF Shutdown!Next, Shutdown!Steps

LEMMA NextShutdownInv ==
  ASSUME ShutdownInv, [Shutdown!Next]_shutdownVars
  PROVE  ShutdownInv'
<1>1. CASE Shutdown!Next
  <2>1. Shutdown!ShutdownTypeOK'
    BY <1>1 DEF ShutdownInv, Shutdown!ShutdownTypeOK, Shutdown!Next, Shutdown!Steps,
         Shutdown!Prepare, Shutdown!OnFinish, Shutdown!Decrease, Shutdown!Reject,
       Shutdown!Sigterm, Shutdown!DoExit, Shutdown!Stopped
  <2>2. (\A r \in Handlers : state[r] = "decrease" => r \in Graceful)'
    BY <1>1 DEF ShutdownInv, Shutdown!ShutdownTypeOK, Shutdown!Next, Shutdown!Steps,
         Shutdown!Prepare, Shutdown!OnFinish, Shutdown!Decrease, Shutdown!Reject,
       Shutdown!Sigterm, Shutdown!DoExit, Shutdown!Stopped
  <2> QED BY <1>1, <2>1, <2>2, NextCounted, NextStopsIdle DEF ShutdownInv
<1>2. CASE UNCHANGED shutdownVars
  BY <1>2 DEF shutdownVars, ShutdownInv, Shutdown!ShutdownTypeOK, Counted, Active,
       Shutdown!StopsIdle, Shutdown!Running
<1> QED BY <1>1, <1>2

-----------------------------------------------------------------------------
(* UazIndicators: what the E-Tag says.                                      *)

UazTypes ==
  /\ version \in Nat /\ etag \in Nat /\ current \in Nat
  /\ stage \in {"idle", "make", "write"} /\ remaining \subseteq Groups
  /\ storage \in [Groups -> Nat] /\ messages \subseteq Groups
  /\ index \in [Groups -> Nat] /\ lost \subseteq Groups
  /\ reading \subseteq Groups \X Nat /\ behind \subseteq Groups

(* A dataset of this version is stored, and indexed or about to be, unless  *)
(* a profiler failed or was slow.                                           *)
GroupDone(g, v) ==
  storage[g] = v /\ (index[g] = v \/ g \in messages \/ <<g, v>> \in reading \/ g \in behind)

(* The datasets that the pass over the database has come to.                *)
GroupsVisited == Groups \ (remaining \cup (IF stage = "write" THEN {group} ELSE {}))

(* During a pass the E-Tag is older than the database, and what the pass    *)
(* has come to is done, if it was not lost.                                 *)
UazInv ==
  /\ UazTypes
  /\ group \in Groups
  /\ etag <= version /\ current <= version /\ version # 0
  /\ stage # "idle" => current # 0 /\ etag < version /\ \A g \in GroupsVisited \ lost : GroupDone(g, current)
  /\ Uaz!EtagTruthful

LEMMA InitUazInv == Uaz!Init => UazInv
BY DEF Uaz!Init, UazInv, UazTypes, Uaz!EtagTruthful

LEMMA NextUazInv ==
  ASSUME UazInv, [Uaz!Next]_uazVars
  PROVE  UazInv'
<1> USE DEF UazInv, UazTypes
<1>1. CASE Uaz!NewVersion
  <2>1. version' = version + 1
        /\ UNCHANGED <<etag, stage, current, remaining, group, storage, messages, reading, index, behind, lost>>
    BY <1>1 DEF Uaz!NewVersion, Uaz!profilerVars
  <2>2. etag' < version' /\ current' <= version'
    BY <2>1
  <2>3. UazTypes' /\ (group \in Groups)'
    BY <2>1
  <2>4. (stage # "idle" => current # 0 /\ \A g \in GroupsVisited \ lost : GroupDone(g, current))'
    BY <2>1 DEF GroupsVisited, GroupDone
  <2> QED BY <2>2, <2>3, <2>4 DEF Uaz!EtagTruthful
<1>2. CASE Uaz!GetData
  <2>1. /\ etag # version /\ stage' = "make" /\ current' = version /\ remaining' = Groups
        /\ UNCHANGED <<version, etag, group, storage, messages, reading, index, behind, lost>>
    BY <1>2 DEF Uaz!GetData, Uaz!profilerVars
  <2>2. GroupsVisited' = {}
    BY <2>1 DEF GroupsVisited
  <2>3. etag' < version' /\ UazTypes' /\ (group \in Groups)'
    BY <2>1
  <2> QED BY <2>1, <2>2, <2>3 DEF Uaz!EtagTruthful
<1>3. ASSUME NEW g \in Groups, Uaz!Remove(g)
      PROVE  UazInv'
  <2>1. /\ stage = "make" /\ stage' = "write" /\ group' = g /\ remaining' = remaining \ {g}
        /\ storage' = [storage EXCEPT ![g] = 0]
        /\ UNCHANGED <<version, etag, current, messages, reading, index, behind, lost>>
    BY <1>3 DEF Uaz!Remove, Uaz!profilerVars
  <2>2. GroupsVisited' \subseteq GroupsVisited \ {g}
    BY <2>1 DEF GroupsVisited
  <2>3. \A h \in GroupsVisited' \ lost' : GroupDone(h, current)'
    BY <2>1, <2>2 DEF GroupDone, GroupsVisited
  <2>4. etag' < version' /\ UazTypes'
    BY <2>1
  <2> QED BY <2>1, <2>3, <2>4 DEF Uaz!EtagTruthful
<1>4. CASE Uaz!Write
  <2>1. /\ stage = "write" /\ stage' = "make" /\ messages' = messages \cup {group}
        /\ UNCHANGED <<version, etag, current, remaining, group, reading, index, behind>>
    BY <1>4 DEF Uaz!Write, Uaz!profilerVars
  <2>2. \/ storage' = [storage EXCEPT ![group] = current] /\ lost' = lost \ {group}
        \/ storage' = storage /\ lost' = lost \cup {group}
    BY <1>4 DEF Uaz!Write
  <2>3. GroupsVisited' \subseteq GroupsVisited \cup {group}
    BY <2>1 DEF GroupsVisited
  <2>4. ASSUME NEW h \in GroupsVisited', h \notin lost'
        PROVE  GroupDone(h, current)'
    <3>1. CASE h = group
      BY <2>1, <2>2, <2>4, <3>1 DEF GroupDone
    <3>2. CASE h # group
      <4>1. h \in GroupsVisited \ lost
        BY <2>2, <2>3, <2>4, <3>2
      <4>2. GroupDone(h, current) /\ storage'[h] = storage[h]
        BY <2>1, <2>2, <3>2, <4>1 DEF GroupsVisited
      <4> QED BY <2>1, <4>2 DEF GroupDone
    <3> QED BY <3>1, <3>2
  <2>5. etag' < version' /\ UazTypes'
    BY <2>1, <2>2
  <2> QED BY <2>1, <2>4, <2>5 DEF Uaz!EtagTruthful
<1>5. CASE Uaz!RecordEtag
  <2>1. /\ stage = "make" /\ remaining = {} /\ etag' = current /\ stage' = "idle"
        /\ UNCHANGED <<version, current, remaining, group, storage, messages, reading, index, behind, lost>>
    BY <1>5 DEF Uaz!RecordEtag, Uaz!profilerVars
  <2>2. \A g \in Groups \ lost : GroupDone(g, current)
    BY <2>1 DEF GroupsVisited
  <2>3. Uaz!EtagTruthful'
    BY <2>1, <2>2 DEF Uaz!EtagTruthful, GroupDone
  <2> QED BY <2>1, <2>3
<1>6. CASE Uaz!Stop
  BY <1>6 DEF Uaz!Stop, Uaz!profilerVars, Uaz!EtagTruthful
<1>7. ASSUME UNCHANGED Uaz!sourceVars, UazTypes',
             \A h \in Groups, v \in Nat \ {0} : GroupDone(h, v) => GroupDone(h, v)'
      PROVE  UazInv'
  <2>1. UNCHANGED <<version, etag, stage, current, remaining, group, storage, lost>>
    BY <1>7 DEF Uaz!sourceVars
  <2>2. GroupsVisited' = GroupsVisited /\ GroupsVisited \subseteq Groups
    BY <2>1 DEF GroupsVisited
  <2>3. (stage # "idle" => current # 0 /\ etag < version /\ \A h \in GroupsVisited \ lost : GroupDone(h, current))'
    BY <1>7, <2>1, <2>2
  <2>4. Uaz!EtagTruthful'
    BY <1>7, <2>1 DEF Uaz!EtagTruthful, GroupDone
  <2> QED BY <1>7, <2>1, <2>3, <2>4
<1>9. ASSUME NEW g \in Groups, Uaz!Read(g)
      PROVE  UazInv'
  <2>1. /\ messages' = messages \ {g} /\ reading' = reading \cup {<<g, v>> : v \in {storage[g]} \ {0}}
        /\ UNCHANGED Uaz!sourceVars /\ UNCHANGED <<index, behind>>
    BY <1>9 DEF Uaz!Read
  <2>2. storage' = storage
    BY <2>1 DEF Uaz!sourceVars
  <2>3. ASSUME NEW h \in Groups, NEW v \in Nat \ {0}, GroupDone(h, v)
        PROVE  GroupDone(h, v)'
    <3>1. CASE h = g
      <4>1. storage[g] = v /\ v # 0
        BY <2>3, <3>1 DEF GroupDone
      <4>2. v \in {storage[g]} \ {0}
        BY <4>1
      <4>3. <<g, v>> \in reading'
        BY <2>1, <4>2
      <4> QED BY <2>2, <3>1, <4>1, <4>3 DEF GroupDone
    <3>2. CASE h # g
      BY <2>1, <2>2, <2>3, <3>2 DEF GroupDone
    <3> QED BY <3>1, <3>2
  <2>4. reading' \subseteq Groups \X Nat
    BY <2>1
  <2>5. UazTypes'
    BY <2>1, <2>4 DEF Uaz!sourceVars
  <2> QED BY <1>7, <2>1, <2>3, <2>5
<1>10. ASSUME NEW g \in Groups, NEW v \in Uaz!UazVersions, Uaz!Index(g, v)
       PROVE  UazInv'
  <2>1. /\ <<g, v>> \in reading /\ reading' = reading \ {<<g, v>>} /\ index' = [index EXCEPT ![g] = v]
        /\ behind' = (IF v = storage[g] THEN behind \ {g} ELSE behind \cup {g})
        /\ UNCHANGED Uaz!sourceVars /\ messages' = messages
    BY <1>10 DEF Uaz!Index
  <2>2. storage' = storage /\ v \in Nat
    BY <2>1 DEF Uaz!sourceVars
  <2>3. ASSUME NEW h \in Groups, NEW w \in Nat \ {0}, GroupDone(h, w)
        PROVE  GroupDone(h, w)'
    <3>1. CASE h = g
      BY <2>1, <2>2, <2>3, <3>1 DEF GroupDone
    <3>2. CASE h # g
      BY <2>1, <2>2, <2>3, <3>2 DEF GroupDone
    <3> QED BY <3>1, <3>2
  <2>4. index' \in [Groups -> Nat] /\ behind' \subseteq Groups
    BY <2>1, <2>2
  <2>5. UazTypes'
    BY <2>1, <2>4 DEF Uaz!sourceVars
  <2> QED BY <1>7, <2>1, <2>3, <2>5
<1>11. ASSUME NEW g \in Groups, NEW v \in Uaz!UazVersions, Uaz!ProfileFails(g, v)
       PROVE  UazInv'
  <2>1. /\ reading' = reading \ {<<g, v>>} /\ behind' = behind \cup {g}
        /\ UNCHANGED Uaz!sourceVars /\ UNCHANGED <<messages, index>>
    BY <1>11 DEF Uaz!ProfileFails
  <2>2. storage' = storage
    BY <2>1 DEF Uaz!sourceVars
  <2>3. ASSUME NEW h \in Groups, NEW w \in Nat \ {0}, GroupDone(h, w)
        PROVE  GroupDone(h, w)'
    BY <2>1, <2>2, <2>3 DEF GroupDone
  <2>4. UazTypes'
    BY <2>1 DEF Uaz!sourceVars
  <2> QED BY <1>7, <2>1, <2>3, <2>4
<1>8. CASE UNCHANGED uazVars
  BY <1>8 DEF uazVars, Uaz!EtagTruthful, GroupsVisited, GroupDone
<1> QED
  BY <1>1, <1>2, <1>3, <1>4, <1>5, <1>6, <1>8, <1>9, <1>10, <1>11 DEF Uaz!Next, Uaz!Discover

-----------------------------------------------------------------------------
(* Zenodo: what the plugin has recorded.                                    *)
Covered == known \cup published \cup bigFiles
First(r) == Files[r][1]
Publishing(r) == step = "files" /\ record = r

(* The first file of a record is only published with all its files.         *)
AllOrNothing(r) ==
  Files[r] # <<>> /\ First(r) \in Covered => Zen!Of(r) \subseteq Covered

(* Half way through a record, what was passed is published.                 *)
Passed(r) ==
  /\ position > 0 => {Files[r][i] : i \in 1..position} \cap Supported \subseteq Covered
  /\ position = 0 => AllOrNothing(r)

ZenodoInv ==
  /\ record \in Records /\ online \subseteq Records /\ page \subseteq Records /\ visited \subseteq Records
  /\ step \in {"list", "records", "files", "delete"}
  /\ position \in 0..Len(Files[record])
  /\ \A r \in Records \ cut : r \in online
  /\ step # "list" =>
       \A r \in Records \ cut : r \in page \cup visited \/ Publishing(r)
  /\ step = "delete" => page = {}
  /\ \A r \in Records \ cut :
       IF Publishing(r) THEN Passed(r) ELSE AllOrNothing(r)

(* The files of a record are a list, and no file is in two records.         *)
LEMMA RangeOf ==
  ASSUME NEW r \in Records
  PROVE  /\ Len(Files[r]) \in Nat /\ DOMAIN Files[r] = 1..Len(Files[r])
         /\ Files[r] # <<>> => Len(Files[r]) > 0
         /\ Zen!Range(Files[r]) = {Files[r][i] : i \in 1..Len(Files[r])}
         /\ \A s \in Records \ {r} : Zen!Range(Files[r]) \cap Zen!Range(Files[s]) = {}
<1>1. PICK F : Files[r] \in Seq(F)
  BY FilesAssumption
<1>2. Len(Files[r]) \in Nat /\ DOMAIN Files[r] = 1..Len(Files[r])
  BY <1>1
<1>3. Files[r] # <<>> => Len(Files[r]) > 0
  BY <1>1
<1> QED BY <1>2, <1>3, FilesAssumption DEF Zen!Range, Range

LEMMA InitZenodoInv == Zen!Init => ZenodoInv
<1> SUFFICES ASSUME Zen!Init PROVE ZenodoInv
  OBVIOUS
<1>1. position \in 0..Len(Files[record])
  BY RangeOf DEF Zen!Init
<1> QED BY <1>1 DEF Zen!Init, ZenodoInv, Publishing, AllOrNothing, Covered

(* The steps that change neither a record nor what is covered of it.        *)
LEMMA KeepAllOrNothing ==
  ASSUME NEW r \in Records, AllOrNothing(r),
         First(r) \in Covered' => First(r) \in Covered,
         Zen!Of(r) \cap Covered \subseteq Covered'
  PROVE  AllOrNothing(r)'
BY DEF AllOrNothing, First, Zen!Of

LEMMA FileZenodoInv ==
  ASSUME ZenodoInv, Zen!File
  PROVE  ZenodoInv'
<1> USE DEF ZenodoInv, Publishing
<1> DEFINE f == Files[record][position + 1]
<1>1. /\ step = "files" /\ UNCHANGED <<online, known, bigFiles, page, record, cut>>
  BY DEF Zen!File
<1>2. CASE position = Len(Files[record]) \/ Zen!Skipped
  <2>1. /\ step' = "records" /\ visited' = visited \cup {record} /\ position' = 0
        /\ Covered' = Covered
    BY <1>1, <1>2 DEF Zen!File, Zen!NextRecord, Covered
  <2>2. ASSUME NEW r \in Records \ cut
        PROVE  AllOrNothing(r)
    <3>1. CASE r = record /\ position = 0 /\ Zen!Skipped
      BY <1>1, <3>1 DEF Passed
    <3>2. CASE r = record /\ position = 0 /\ position = Len(Files[record])
      BY <1>1, <3>2 DEF Passed
    <3>3. CASE r = record /\ position > 0
      <4>1. position = Len(Files[record])
        BY <1>2, <3>3 DEF Zen!Skipped
      <4>2. Zen!Of(r) \subseteq Covered
        BY <1>1, <3>3, <4>1, RangeOf DEF Passed, Zen!Of
      <4> QED BY <4>2 DEF AllOrNothing
    <3>4. CASE r # record
      BY <3>4
    <3> QED BY <1>2, <3>1, <3>2, <3>3, <3>4, RangeOf
  <2>3. \A r \in Records \ cut : AllOrNothing(r)'
    BY <2>1, <2>2 DEF AllOrNothing
  <2>4. position' \in 0..Len(Files[record'])
    BY <1>1, <2>1, RangeOf
  <2> QED BY <1>1, <2>1, <2>3, <2>4
<1>3. CASE ~(position = Len(Files[record]) \/ Zen!Skipped)
  <2>1. /\ position' = position + 1 /\ UNCHANGED <<step, visited>>
        /\ published' = published \cup ({f} \cap Supported)
    BY <1>3 DEF Zen!File, Zen!NextFile
  <2>2. position + 1 \in 1..Len(Files[record]) /\ position \in Nat
    BY <1>3, RangeOf
  <2>3. f \in Zen!Range(Files[record])
    BY <2>2, RangeOf
  <2>4. Covered' = Covered \cup ({f} \cap Supported)
    BY <1>1, <2>1 DEF Covered
  <2>5. ASSUME NEW r \in Records \ cut, r # record
        PROVE  AllOrNothing(r)'
    <3>1. CASE Files[r] = <<>>
      BY <3>1 DEF AllOrNothing
    <3>2. CASE Files[r] # <<>>
      <4>1. First(r) \in Zen!Range(Files[r])
        <5>1. Len(Files[r]) \in Nat /\ Len(Files[r]) > 0
          BY <2>5, <3>2, RangeOf
        <5>2. Zen!Range(Files[r]) = {Files[r][i] : i \in 1..Len(Files[r])}
          BY <2>5, RangeOf
        <5>3. 1 \in 1..Len(Files[r])
          BY <5>1
        <5> QED BY <5>2, <5>3 DEF First
      <4>2. First(r) # f
        BY <2>3, <2>5, <4>1, RangeOf
      <4>3. First(r) \in Covered' => First(r) \in Covered
        BY <2>4, <4>2
      <4> QED BY <2>4, <2>5, <4>3, KeepAllOrNothing
    <3> QED BY <3>1, <3>2
  <2>6. ASSUME record \notin cut
        PROVE  Passed(record)'
    <3>1. position > 0 => {Files[record][i] : i \in 1..position} \cap Supported \subseteq Covered
      BY <1>1, <2>6 DEF Passed
    <3>2. {Files[record][i] : i \in 1..(position + 1)}
            \subseteq {Files[record][i] : i \in 1..position} \cup {f}
      <4>1. ASSUME NEW i \in 1..(position + 1)
            PROVE  i \in 1..position \/ i = position + 1
        BY <2>2
      <4> QED BY <4>1
    <3>3. {Files[record][i] : i \in 1..(position + 1)} \cap Supported \subseteq Covered'
      <4>1. CASE position > 0
        BY <2>4, <3>1, <3>2, <4>1
      <4>2. CASE position = 0
        BY <2>4, <3>2, <4>2
      <4> QED BY <4>1, <4>2
    <3>4. record' = record /\ position' = position + 1 /\ position + 1 > 0
      BY <1>1, <2>1, <2>2
    <3> QED BY <3>3, <3>4 DEF Passed
  <2>7. position' \in 0..Len(Files[record'])
    BY <1>1, <2>1, <2>2
  <2> QED BY <1>1, <2>1, <2>5, <2>6, <2>7
<1> QED BY <1>2, <1>3

LEMMA NextZenodoInv ==
  ASSUME ZenodoInv, [Zen!Next]_zenodoVars
  PROVE  ZenodoInv'
<1> USE DEF ZenodoInv, Publishing, Zen!loopVars
<1>1. CASE Zen!List
  <2>1. /\ step = "list" /\ step' = "records" /\ page' = online /\ visited' = {}
        /\ UNCHANGED <<online, known, published, bigFiles, record, position, cut>>
    BY <1>1 DEF Zen!List
  <2>2. \A r \in Records \ cut : AllOrNothing(r)'
    BY <2>1 DEF AllOrNothing, Covered
  <2> QED BY <2>1, <2>2
<1>2. CASE Zen!File
  BY <1>2, FileZenodoInv
<1>3. CASE Zen!Abort
  <2>1. /\ step # "list" /\ step' = "list" /\ page' = {} /\ position' = 0 /\ visited' = {}
        /\ cut' = (IF step = "files" THEN cut \cup {record} ELSE cut)
        /\ UNCHANGED <<online, known, published, bigFiles, record>>
    BY <1>3 DEF Zen!Abort
  <2>2. \A r \in Records \ cut' : AllOrNothing(r)'
    BY <2>1 DEF AllOrNothing, Covered
  <2>3. position' \in 0..Len(Files[record'])
    BY <2>1, RangeOf
  <2> QED BY <2>1, <2>2, <2>3
<1>4. CASE Zen!Cleanup
  <2>1. /\ step = "records" /\ page = {} /\ step' = "delete"
        /\ UNCHANGED <<online, known, published, bigFiles, page, record, position, visited, cut>>
    BY <1>4 DEF Zen!Cleanup
  <2>2. \A r \in Records \ cut : AllOrNothing(r)'
    BY <2>1 DEF AllOrNothing, Covered
  <2> QED BY <2>1, <2>2
<1>5. CASE Zen!Sleep
  <2>1. /\ step = "delete" /\ step' = "list" /\ visited' = {}
        /\ UNCHANGED <<online, known, published, bigFiles, page, record, position, cut>>
    BY <1>5 DEF Zen!Sleep
  <2>2. \A r \in Records \ cut : AllOrNothing(r)'
    BY <2>1 DEF AllOrNothing, Covered
  <2> QED BY <2>1, <2>2
<1>6. ASSUME NEW s \in Records, Zen!Source(s)
      PROVE  ZenodoInv'
  <2>1. /\ online' = (IF s \in online THEN online \ {s} ELSE online \cup {s})
        /\ cut' = cut \cup {s}
        /\ UNCHANGED <<known, published, bigFiles, step, page, record, position, visited>>
    BY <1>6 DEF Zen!Source
  <2>2. \A r \in Records \ cut' : AllOrNothing(r)' <=> AllOrNothing(r)
    BY <2>1 DEF AllOrNothing, Covered
  <2>3. \A r \in Records \ cut' : Passed(r)' <=> Passed(r)
    BY <2>1 DEF AllOrNothing, Passed, Covered
  <2> QED BY <2>1, <2>2, <2>3
<1>7. ASSUME NEW s \in Records, Zen!Record(s)
      PROVE  ZenodoInv'
  <2>1. /\ step = "records" /\ s \in page /\ page' = page \ {s}
        /\ record' = s /\ position' = 0 /\ step' = "files"
        /\ UNCHANGED <<online, known, published, bigFiles, visited, cut>>
    BY <1>7 DEF Zen!Record
  <2>2. \A r \in Records \ cut : AllOrNothing(r)' /\ Passed(r)'
    BY <2>1 DEF AllOrNothing, Passed, Covered
  <2>3. position' \in 0..Len(Files[record'])
    BY <2>1, RangeOf
  <2> QED BY <2>1, <2>2, <2>3
<1>8. ASSUME NEW f \in Zen!AllFiles, Zen!Profile(f)
      PROVE  ZenodoInv'
  <2>1. Covered' = Covered /\ UNCHANGED <<online, step, page, record, position, visited, cut>>
    BY <1>8 DEF Zen!Profile, Covered
  <2>2. \A r \in Records : (AllOrNothing(r)' <=> AllOrNothing(r)) /\ (Passed(r)' <=> Passed(r))
    BY <2>1 DEF AllOrNothing, Passed
  <2> QED BY <2>1, <2>2
<1>9. ASSUME NEW f \in Zen!AllFiles, Zen!Delete(f)
      PROVE  ZenodoInv'
  <2>1. /\ step = "delete" /\ \A r \in visited : f \notin Zen!Of(r)
        /\ known' = known \ {f} /\ UNCHANGED <<online, published, bigFiles, step, page, record, position, visited, cut>>
    BY <1>9 DEF Zen!Delete
  <2>2. ASSUME NEW r \in Records \ cut
        PROVE  AllOrNothing(r)'
    <3>1. f \notin Zen!Of(r) /\ AllOrNothing(r)
      BY <2>1
    <3>2. Zen!Of(r) \cap Covered \subseteq Covered' /\ Covered' \subseteq Covered
      BY <2>1, <3>1 DEF Covered
    <3> QED BY <3>1, <3>2, KeepAllOrNothing
  <2> QED BY <2>1, <2>2
<1>10. CASE UNCHANGED zenodoVars
  <2>1. UNCHANGED <<online, known, published, bigFiles, step, page, record, position, visited, cut>>
    BY <1>10 DEF zenodoVars
  <2>2. \A r \in Records : (AllOrNothing(r)' <=> AllOrNothing(r)) /\ (Passed(r)' <=> Passed(r))
    BY <2>1 DEF AllOrNothing, Passed, Covered
  <2> QED BY <2>1, <2>2
<1> QED
  BY <1>1, <1>2, <1>3, <1>4, <1>5, <1>6, <1>7, <1>8, <1>9, <1>10 DEF Zen!Next

LEMMA ZenodoInvComplete == ZenodoInv => Zen!RecordsComplete
BY DEF ZenodoInv, Zen!RecordsComplete, AllOrNothing, Publishing, Covered, First

-----------------------------------------------------------------------------
(* Sketches: whose sketches Lazo has.                                       *)
(* Lazo has sketches of these columns only.                                 *)
Only(S) == \A c \in TextColumns : sketches[c] # Lazo!None => c \in S
(* Each of these columns has the sketch of version v.                       *)
Sketched(S, v) == \A c \in S : sketches[c] = v

(* Of what overlaps nothing is said.  A version is compared with its own    *)
(* columns while it is sketched, and with the index when nobody is busy.    *)
Alone == \A p, q \in Lazo!Procs : processing[p] \in Lazo!Busy /\ processing[q] \in Lazo!Busy => p = q
Complete ==
  /\ \A v \in TextVersions : processing[v] = "sketched" => Sketched(text[v], v)
  /\ Lazo!Quiet => Sketched(Lazo!Indexed, sketched)
Limited ==
  /\ Lazo!Quiet => Only(Lazo!Indexed)
  /\ \A v \in TextVersions :
       /\ processing[v] = "forgetting" => Only(Lazo!Indexed \cup text[v])
       /\ processing[v] \in {"sketching", "sketched", "failing"} => Only(text[v])
  /\ \A p \in Lazo!Procs : processing[p] = "emptying" => Only(Lazo!Indexed)
  /\ \A p \in Lazo!Procs : processing[p] = "deleting" => Only({})

SketchInv ==
  /\ Lazo!SketchTypeOK
  /\ sketched # Lazo!None => processing[sketched] = "done"
  /\ "overlap" \notin excuses => Alone
  /\ excuses \cap {"overlap", "failed"} = {} => Complete
  /\ excuses = {} => Limited

LEMMA InitSketchInv == Lazo!Init => SketchInv
BY DEF Lazo!Init, SketchInv, Lazo!SketchTypeOK, Lazo!Procs, Lazo!Busy, Alone, Complete, Limited,
     Sketched, Only,
       Lazo!Indexed, Lazo!Quiet, Lazo!None

LEMMA NextSketchTypeOK ==
  ASSUME Lazo!SketchTypeOK, [Lazo!Next]_lazoVars
  PROVE  Lazo!SketchTypeOK'
<1> USE DEF Lazo!SketchTypeOK, Lazo!Go, Lazo!Excuse, Lazo!Procs, Lazo!Busy, Lazo!Overlap
<1>1. ASSUME NEW v \in TextVersions, Lazo!Profile(v) PROVE Lazo!SketchTypeOK'
  <2>1. PICK columns \in SUBSET TextColumns : text' = [text EXCEPT ![v] = columns]
    BY <1>1 DEF Lazo!Profile
  <2>2. \E s \in Lazo!Busy : processing' = [processing EXCEPT ![v] = s]
    BY <1>1 DEF Lazo!Profile
  <2>3. excuses' \subseteq excuses \cup {"overlap", "no text"}
    BY <1>1 DEF Lazo!Profile
  <2> QED BY <1>1, <2>1, <2>2, <2>3 DEF Lazo!Profile
<1>2. ASSUME NEW v \in TextVersions, Lazo!DeleteFirst(v) PROVE Lazo!SketchTypeOK'
  BY <1>2 DEF Lazo!DeleteFirst, Lazo!Forget
<1>3. ASSUME NEW v \in TextVersions, Lazo!IndexDataPath(v) PROVE Lazo!SketchTypeOK'
  BY <1>3 DEF Lazo!IndexDataPath
<1>4. ASSUME NEW v \in TextVersions, Lazo!Raise(v) \/ Lazo!Nack(v) PROVE Lazo!SketchTypeOK'
  BY <1>4 DEF Lazo!Raise, Lazo!Nack
<1>5. ASSUME NEW v \in TextVersions, Lazo!Rewrite(v) \/ Lazo!Fail(v) PROVE Lazo!SketchTypeOK'
  BY <1>5 DEF Lazo!Rewrite, Lazo!Fail
<1>6. ASSUME NEW v \in TextVersions, Lazo!Empty(v) PROVE Lazo!SketchTypeOK'
  BY <1>6 DEF Lazo!Empty, Lazo!Forget
<1>7. ASSUME NEW d \in Deleters, Lazo!Delete(d) PROVE Lazo!SketchTypeOK'
  BY <1>7 DEF Lazo!Delete
<1>8. ASSUME NEW p \in Lazo!Procs, Lazo!DeleteIndex(p) PROVE Lazo!SketchTypeOK'
  BY <1>8 DEF Lazo!DeleteIndex
<1>9. CASE UNCHANGED lazoVars
  BY <1>9 DEF lazoVars
<1> QED BY <1>1, <1>2, <1>3, <1>4, <1>5, <1>6, <1>7, <1>8, <1>9 DEF Lazo!Next

(* A step of p, when nobody else is busy: only what is said of p matters.   *)
OthersKept(p) == \A q \in Lazo!Procs \ {p} : processing[q] \notin Lazo!Busy
FoundOf(p) ==
  /\ p \in TextVersions /\ processing[p] = "sketched" => Sketched(text[p], p)
  /\ processing[p] \notin Lazo!Busy => Sketched(Lazo!Indexed, sketched)
LimitedOf(p) ==
  /\ processing[p] \notin Lazo!Busy => Only(Lazo!Indexed)
  /\ p \in TextVersions /\ processing[p] = "forgetting" => Only(Lazo!Indexed \cup text[p])
  /\ p \in TextVersions /\ processing[p] \in {"sketching", "sketched", "failing"} => Only(text[p])
  /\ processing[p] = "emptying" => Only(Lazo!Indexed)
  /\ processing[p] = "deleting" => Only({})

LEMMA OneBusy ==
  ASSUME NEW p \in Lazo!Procs, NEW s, SketchInv, Lazo!SketchTypeOK', Lazo!Go(p, s),
         excuses \subseteq excuses',
         "overlap" \notin excuses' => OthersKept(p),
         sketched' # Lazo!None => processing'[sketched'] = "done",
         excuses' \cap {"overlap", "failed"} = {} => FoundOf(p)',
         excuses' = {} => LimitedOf(p)'
  PROVE  SketchInv'
<1>1. "overlap" \notin excuses' => \A q \in Lazo!Procs \ {p} : processing'[q] \notin Lazo!Busy
  BY DEF OthersKept, SketchInv, Lazo!SketchTypeOK, Lazo!Go
<1>2. ASSUME "overlap" \notin excuses' PROVE Alone'
  BY <1>1, <1>2 DEF Alone
<1>3. ASSUME excuses' \cap {"overlap", "failed"} = {} PROVE Complete'
  <2>1. \A q \in Lazo!Procs \ {p} : processing'[q] \notin Lazo!Busy
    BY <1>1, <1>3
  <2>2. ASSUME NEW v \in TextVersions, processing'[v] = "sketched" PROVE Sketched(text[v], v)'
    BY <1>3, <2>1, <2>2 DEF FoundOf, Lazo!Busy, Lazo!Procs
  <2>3. ASSUME Lazo!Quiet' PROVE Sketched(Lazo!Indexed, sketched)'
    BY <1>3, <2>3 DEF FoundOf, Lazo!Quiet
  <2> QED BY <2>2, <2>3 DEF Complete
<1>4. ASSUME excuses' = {} PROVE Limited'
  <2>1. \A q \in Lazo!Procs \ {p} : processing'[q] \notin Lazo!Busy
    BY <1>1, <1>4
  <2>2. Lazo!Quiet' => Only(Lazo!Indexed)'
    BY <1>4 DEF LimitedOf, Lazo!Quiet
  <2>3. ASSUME NEW v \in TextVersions
        PROVE  /\ processing'[v] = "forgetting" => Only(Lazo!Indexed \cup text[v])'
               /\ processing'[v] \in {"sketching", "sketched", "failing"} => Only(text[v])'
    BY <1>4, <2>1 DEF LimitedOf, Lazo!Busy, Lazo!Procs
  <2>4. ASSUME NEW q \in Lazo!Procs
        PROVE  /\ processing'[q] = "emptying" => Only(Lazo!Indexed)'
               /\ processing'[q] = "deleting" => Only({})'
    BY <1>4, <2>1 DEF LimitedOf, Lazo!Busy
  <2> QED BY <2>2, <2>3, <2>4 DEF Limited
<1> QED BY <1>2, <1>3, <1>4 DEF SketchInv

(* A process that is busy, or finds nobody busy when it begins, is alone.   *)
LEMMA BusyAlone ==
  ASSUME NEW p \in Lazo!Procs, SketchInv, processing[p] \in Lazo!Busy, excuses \subseteq excuses'
  PROVE  "overlap" \notin excuses' => OthersKept(p)
BY DEF SketchInv, Alone, OthersKept
LEMMA BeginAlone ==
  ASSUME NEW p \in Lazo!Procs, Lazo!Overlap(p) \subseteq excuses'
  PROVE  "overlap" \notin excuses' => OthersKept(p)
BY DEF Lazo!Overlap, OthersKept

(* What a deleted dataset leaves in Lazo, unless that is refused.           *)
LEMMA ForgetEffect ==
  ASSUME Lazo!SketchTypeOK, Lazo!Forget
  PROVE  /\ excuses \subseteq excuses'
         /\ \A S : excuses' = {} /\ Only(Lazo!Indexed \cup S) =>
              \A c \in TextColumns : sketches'[c] # Lazo!None => c \in S
BY DEF Lazo!Forget, Only, Lazo!SketchTypeOK, Lazo!Excuse

LEMMA NextSketchInv ==
  ASSUME SketchInv, [Lazo!Next]_lazoVars
  PROVE  SketchInv'
<1> Lazo!SketchTypeOK'
  BY NextSketchTypeOK DEF SketchInv
<1> USE DEF Lazo!Busy, Lazo!Procs
<1>1. ASSUME NEW v \in TextVersions, Lazo!Profile(v) PROVE SketchInv'
  <2>1. PICK columns \in SUBSET TextColumns :
          /\ text' = [text EXCEPT ![v] = columns]
          /\ \/ columns # {} /\ Lazo!Go(v, "forgetting") /\ Lazo!Excuse(Lazo!Overlap(v))
             \/ /\ columns = {} /\ Lazo!Go(v, "sketched")
                /\ Lazo!Excuse(Lazo!Overlap(v) \cup (IF Lazo!Indexed # {} THEN {"no text"} ELSE {}))
             \/ columns = {} /\ Lazo!Go(v, "emptying") /\ Lazo!Excuse(Lazo!Overlap(v))
    BY <1>1 DEF Lazo!Profile
  <2>2. processing[v] = "new" /\ UNCHANGED <<sketches, sketched>>
    BY <1>1 DEF Lazo!Profile
  <2>3. text'[v] = columns /\ (\A w \in TextVersions \ {v} : text'[w] = text[w])
    BY <2>1 DEF SketchInv, Lazo!SketchTypeOK
  <2>4. sketched # v \/ sketched = Lazo!None
    BY <2>2 DEF SketchInv
  <2>5. Lazo!Indexed' = Lazo!Indexed
    BY <2>2, <2>3, <2>4 DEF Lazo!Indexed, SketchInv, Lazo!SketchTypeOK
  <2>6. PICK s \in {"forgetting", "sketched", "emptying"} : Lazo!Go(v, s)
    BY <2>1
  <2>7. processing'[v] = s /\ (\A q \in Lazo!Procs \ {v} : processing'[q] = processing[q])
    BY <2>6 DEF Lazo!Go, SketchInv, Lazo!SketchTypeOK
  <2>8. Lazo!Overlap(v) \subseteq excuses' /\ excuses \subseteq excuses'
    BY <2>1 DEF Lazo!Excuse
  <2>9. "overlap" \notin excuses' => OthersKept(v)
    BY <2>8, BeginAlone
  <2>10. sketched' # Lazo!None => processing'[sketched'] = "done"
    BY <2>2, <2>4, <2>7 DEF SketchInv, Lazo!SketchTypeOK
  <2>11. FoundOf(v)'
    <3>1. processing'[v] = "sketched" => columns = {}
      BY <2>1, <2>7 DEF Lazo!Go, SketchInv, Lazo!SketchTypeOK
    <3> QED BY <2>3, <2>6, <2>7, <3>1 DEF FoundOf, Sketched
  <2>12. ASSUME excuses' = {} PROVE LimitedOf(v)'
    <3>1. Only(Lazo!Indexed)
      BY <2>2, <2>8, <2>9, <2>12 DEF SketchInv, Limited, Lazo!Quiet, OthersKept
    <3>2. processing'[v] = "sketched" => Lazo!Indexed = {}
      BY <2>1, <2>7, <2>12 DEF Lazo!Go, Lazo!Excuse, SketchInv, Lazo!SketchTypeOK
    <3> QED BY <2>2, <2>5, <2>7, <3>1, <3>2 DEF LimitedOf, Only
  <2> QED BY <2>6, <2>8, <2>9, <2>10, <2>11, <2>12, OneBusy
<1>2. ASSUME NEW v \in TextVersions, Lazo!DeleteFirst(v) PROVE SketchInv'
  <2>1. processing[v] = "forgetting" /\ Lazo!Forget /\ Lazo!Go(v, "sketching") /\ UNCHANGED <<text, sketched>>
    BY <1>2 DEF Lazo!DeleteFirst
  <2>2. processing'[v] = "sketching" /\ (\A q \in Lazo!Procs \ {v} : processing'[q] = processing[q])
    BY <2>1 DEF Lazo!Go, SketchInv, Lazo!SketchTypeOK
  <2>3. excuses \subseteq excuses' /\ ("overlap" \notin excuses' => OthersKept(v))
    BY <2>1, ForgetEffect, BusyAlone DEF SketchInv
  <2>4. sketched' # Lazo!None => processing'[sketched'] = "done"
    BY <2>1, <2>2 DEF SketchInv, Lazo!SketchTypeOK
  <2>5. FoundOf(v)'
    BY <2>2 DEF FoundOf
  <2>6. ASSUME excuses' = {} PROVE LimitedOf(v)'
    <3>1. Only(Lazo!Indexed \cup text[v])
      BY <2>1, <2>3, <2>6 DEF SketchInv, Limited
    <3>2. \A c \in TextColumns : sketches'[c] # Lazo!None => c \in text'[v]
      BY <2>1, <2>6, <3>1, ForgetEffect DEF SketchInv
    <3> QED BY <2>2, <3>2 DEF LimitedOf, Only
  <2> QED BY <2>1, <2>3, <2>4, <2>5, <2>6, OneBusy
<1>3. ASSUME NEW v \in TextVersions, Lazo!IndexDataPath(v) PROVE SketchInv'
  <2>1. PICK done \in SUBSET text[v] :
          /\ sketches' = [c \in TextColumns |-> IF c \in done THEN v ELSE sketches[c]]
          /\ IF done = text[v] THEN Lazo!Go(v, "sketched") ELSE Lazo!Go(v, "failing")
    BY <1>3 DEF Lazo!IndexDataPath
  <2>2. processing[v] = "sketching" /\ UNCHANGED <<text, sketched, excuses>>
    BY <1>3 DEF Lazo!IndexDataPath
  <2>3. PICK s \in {"sketched", "failing"} : Lazo!Go(v, s) /\ (s = "sketched" => done = text[v])
    BY <2>1
  <2>4. processing'[v] = s /\ (\A q \in Lazo!Procs \ {v} : processing'[q] = processing[q])
    BY <2>3 DEF Lazo!Go, SketchInv, Lazo!SketchTypeOK
  <2>5. "overlap" \notin excuses' => OthersKept(v)
    BY <2>2, BusyAlone
  <2>6. sketched' # Lazo!None => processing'[sketched'] = "done"
    BY <2>2, <2>4 DEF SketchInv, Lazo!SketchTypeOK
  <2>7. text[v] \subseteq TextColumns
    BY DEF SketchInv, Lazo!SketchTypeOK
  <2>8. FoundOf(v)'
    BY <2>1, <2>2, <2>3, <2>4, <2>7 DEF FoundOf, Sketched
  <2>9. ASSUME excuses' = {} PROVE LimitedOf(v)'
    <3>1. Only(text[v])
      BY <2>2, <2>9 DEF SketchInv, Limited
    <3> QED BY <2>1, <2>2, <2>4, <3>1 DEF LimitedOf, Only
  <2> QED BY <2>2, <2>3, <2>5, <2>6, <2>8, <2>9, OneBusy
<1>4. ASSUME NEW v \in TextVersions, Lazo!Raise(v) \/ Lazo!Nack(v) PROVE SketchInv'
  <2>1. /\ processing[v] \in {"sketching", "sketched", "failing"}
        /\ UNCHANGED <<text, sketches, sketched, excuses>>
    BY <1>4 DEF Lazo!Raise, Lazo!Nack
  <2>2. PICK s \in {"failing", "forgetting"} : Lazo!Go(v, s)
    BY <1>4 DEF Lazo!Raise, Lazo!Nack
  <2>3. processing'[v] = s /\ (\A q \in Lazo!Procs \ {v} : processing'[q] = processing[q])
    BY <2>2 DEF Lazo!Go, SketchInv, Lazo!SketchTypeOK
  <2>4. "overlap" \notin excuses' => OthersKept(v)
    BY <2>1, BusyAlone
  <2>5. sketched' # Lazo!None => processing'[sketched'] = "done"
    BY <2>1, <2>3 DEF SketchInv, Lazo!SketchTypeOK
  <2>6. FoundOf(v)'
    BY <2>3 DEF FoundOf
  <2>7. ASSUME excuses' = {} PROVE LimitedOf(v)'
    <3>1. Only(text[v])
      BY <2>1, <2>7 DEF SketchInv, Limited
    <3> QED BY <2>1, <2>3, <3>1 DEF LimitedOf, Only, Lazo!Indexed
  <2> QED BY <2>1, <2>2, <2>4, <2>5, <2>6, <2>7, OneBusy
<1>5. ASSUME NEW v \in TextVersions, Lazo!Rewrite(v) PROVE SketchInv'
  <2>1. /\ processing[v] = "sketched" /\ Lazo!Go(v, "done") /\ sketched' = v
        /\ UNCHANGED <<text, sketches, excuses>>
    BY <1>5 DEF Lazo!Rewrite
  <2>2. processing'[v] = "done" /\ Lazo!Indexed' = text[v]
    BY <2>1, VersionsAssumption DEF Lazo!Go, Lazo!Indexed, Lazo!None, SketchInv, Lazo!SketchTypeOK
  <2>3. "overlap" \notin excuses' => OthersKept(v)
    BY <2>1, BusyAlone
  <2>4. ASSUME excuses' \cap {"overlap", "failed"} = {} PROVE FoundOf(v)'
    <3>1. Sketched(text[v], v)
      BY <2>1, <2>4 DEF SketchInv, Complete
    <3> QED BY <2>1, <2>2, <3>1 DEF FoundOf, Sketched
  <2>5. ASSUME excuses' = {} PROVE LimitedOf(v)'
    <3>1. Only(text[v])
      BY <2>1, <2>5 DEF SketchInv, Limited
    <3> QED BY <2>1, <2>2, <3>1 DEF LimitedOf, Only
  <2> QED BY <2>1, <2>2, <2>3, <2>4, <2>5, OneBusy
<1>6. ASSUME NEW v \in TextVersions, Lazo!Fail(v) PROVE SketchInv'
  <2>1. /\ processing[v] \in {"sketched", "failing"} /\ Lazo!Go(v, "done") /\ "failed" \in excuses'
        /\ excuses \subseteq excuses' /\ sketched' \in {sketched, Lazo!None}
    BY <1>6 DEF Lazo!Fail, Lazo!Excuse
  <2>2. "overlap" \notin excuses' => OthersKept(v)
    BY <2>1, BusyAlone
  <2>3. sketched' # Lazo!None => processing'[sketched'] = "done"
    BY <2>1 DEF Lazo!Go, SketchInv, Lazo!SketchTypeOK
  <2> QED BY <2>1, <2>2, <2>3, OneBusy
<1>7. ASSUME NEW v \in TextVersions, Lazo!Empty(v) PROVE SketchInv'
  <2>1. processing[v] = "emptying" /\ Lazo!Forget /\ Lazo!Go(v, "deleting") /\ UNCHANGED <<text, sketched>>
    BY <1>7 DEF Lazo!Empty
  <2>2. processing'[v] = "deleting" /\ (\A q \in Lazo!Procs \ {v} : processing'[q] = processing[q])
    BY <2>1 DEF Lazo!Go, SketchInv, Lazo!SketchTypeOK
  <2>3. excuses \subseteq excuses' /\ ("overlap" \notin excuses' => OthersKept(v))
    BY <2>1, ForgetEffect, BusyAlone DEF SketchInv
  <2>4. sketched' # Lazo!None => processing'[sketched'] = "done"
    BY <2>1, <2>2 DEF SketchInv, Lazo!SketchTypeOK
  <2>5. FoundOf(v)'
    BY <2>2 DEF FoundOf
  <2>6. ASSUME excuses' = {} PROVE LimitedOf(v)'
    <3>1. Only(Lazo!Indexed \cup {})
      BY <2>1, <2>3, <2>6 DEF SketchInv, Limited
    <3>2. \A c \in TextColumns : sketches'[c] # Lazo!None => c \in {}
      BY <2>1, <2>6, <3>1, ForgetEffect DEF SketchInv
    <3> QED BY <2>2, <3>2 DEF LimitedOf, Only
  <2> QED BY <2>1, <2>3, <2>4, <2>5, <2>6, OneBusy
<1>8. ASSUME NEW d \in Deleters, Lazo!Delete(d) PROVE SketchInv'
  <2>1. /\ processing[d] = "new" /\ Lazo!Go(d, "deleting") /\ UNCHANGED <<text, sketched>>
        /\ Lazo!Overlap(d) \subseteq excuses' /\ excuses \subseteq excuses'
        /\ excuses' = {} =>
             sketches' = [c \in TextColumns |-> IF c \in Lazo!Indexed THEN Lazo!None ELSE sketches[c]]
    BY <1>8 DEF Lazo!Delete, Lazo!Excuse
  <2>2. processing'[d] = "deleting" /\ (\A q \in Lazo!Procs \ {d} : processing'[q] = processing[q])
    BY <2>1 DEF Lazo!Go, SketchInv, Lazo!SketchTypeOK
  <2>3. "overlap" \notin excuses' => OthersKept(d)
    BY <2>1, BeginAlone
  <2>4. sketched' # Lazo!None => processing'[sketched'] = "done"
    BY <2>1, <2>2 DEF SketchInv, Lazo!SketchTypeOK
  <2>5. FoundOf(d)'
    BY <2>2 DEF FoundOf
  <2>6. ASSUME excuses' = {} PROVE LimitedOf(d)'
    <3>1. Only(Lazo!Indexed)
      BY <2>1, <2>3, <2>6 DEF SketchInv, Limited, Lazo!Quiet, OthersKept
    <3> QED BY <2>1, <2>2, <2>6, <3>1 DEF LimitedOf, Only
  <2> QED BY <2>1, <2>3, <2>4, <2>5, <2>6, OneBusy
<1>9. ASSUME NEW p \in Lazo!Procs, Lazo!DeleteIndex(p) PROVE SketchInv'
  <2>1. /\ processing[p] = "deleting" /\ Lazo!Go(p, "done") /\ sketched' = Lazo!None
        /\ UNCHANGED <<text, sketches, excuses>>
    BY <1>9 DEF Lazo!DeleteIndex
  <2>2. processing'[p] = "done" /\ Lazo!Indexed' = {}
    BY <2>1 DEF Lazo!Go, Lazo!Indexed, SketchInv, Lazo!SketchTypeOK
  <2>3. "overlap" \notin excuses' => OthersKept(p)
    BY <2>1, BusyAlone
  <2>4. FoundOf(p)'
    BY <2>2 DEF FoundOf, Sketched
  <2>5. ASSUME excuses' = {} PROVE LimitedOf(p)'
    <3>1. Only({})
      BY <2>1, <2>5 DEF SketchInv, Limited
    <3> QED BY <2>1, <2>2, <3>1 DEF LimitedOf, Only
  <2> QED BY <2>1, <2>3, <2>4, <2>5, OneBusy
<1>10. CASE UNCHANGED lazoVars
  BY <1>10 DEF lazoVars, SketchInv, Lazo!SketchTypeOK, Alone, Complete, Limited, Sketched, Only,
       Lazo!Indexed, Lazo!Quiet
<1> QED BY <1>1, <1>2, <1>3, <1>4, <1>5, <1>6, <1>7, <1>8, <1>9, <1>10 DEF Lazo!Next

LEMMA SketchInvHolds == SketchInv => Lazo!SketchesMatch
BY DEF SketchInv, Complete, Limited, Sketched, Only, Lazo!SketchesMatch, Lazo!Findable, Lazo!Tidy

-----------------------------------------------------------------------------
(* Statistics: no list of discoveries has a dataset twice.                  *)

(* A list that fits and has no dataset twice is one of Lists.               *)
LEMMA ListsAre ==
  /\ \A s \in Seq(Listed) : Stats!IsInjective(s) /\ Len(s) <= Cap => s \in Stats!Lists
  /\ \A s \in Stats!Lists : s \in Seq(Listed) /\ Stats!IsInjective(s) /\ Len(s) <= Cap
<1>1. ASSUME NEW s \in Seq(Listed), Stats!IsInjective(s), Len(s) <= Cap
      PROVE  s \in Stats!Lists
  <2>1. Len(s) \in 0..Cap /\ s \in [1..Len(s) -> Listed]
    BY <1>1, BoundsAssumption
  <2> QED BY <1>1, <2>1 DEF Stats!Lists
<1>2. ASSUME NEW s \in Stats!Lists
      PROVE  s \in Seq(Listed) /\ Stats!IsInjective(s) /\ Len(s) <= Cap
  <2>1. PICK n \in 0..Cap : s \in [1..n -> Listed]
    BY DEF Stats!Lists
  <2>2. s \in Seq(Listed) /\ Len(s) = n /\ n <= Cap
    BY <2>1, BoundsAssumption
  <2> QED BY <2>2 DEF Stats!Lists
<1> QED BY <1>1, <1>2

LEMMA EmptyListed == <<>> \in Stats!Lists
<1>1. ASSUME NEW s \in Seq(Listed), s = <<>>
      PROVE  s \in Stats!Lists
  <2>1. Stats!IsInjective(s) /\ Len(s) = 0
    BY <1>1 DEF Stats!IsInjective
  <2>2. Len(s) <= Cap
    BY <2>1, BoundsAssumption
  <2> QED BY <2>1, <2>2, ListsAre
<1>2. <<>> \in Seq(Listed)
  OBVIOUS
<1> QED BY <1>1, <1>2

LEMMA NewestListed ==
  ASSUME NEW s \in Seq(Listed), Stats!IsInjective(s)
  PROVE  Stats!Newest(s) \in Stats!Lists
<1> DEFINE n == IF Len(s) < Cap THEN Len(s) ELSE Cap
<1>1. n \in Nat /\ n <= Len(s) /\ n <= Cap /\ 1..n \subseteq DOMAIN s
  BY BoundsAssumption
<1> HIDE DEF n
<1>2. \A i \in 1..n : s[i] \in Listed
  BY <1>1
<1>3. /\ SubSeq(s, 1, n) \in Seq(Listed) /\ Len(SubSeq(s, 1, n)) = n
      /\ \A i \in 1..n : SubSeq(s, 1, n)[i] = s[i]
  BY <1>1, <1>2
<1>4. Stats!IsInjective(SubSeq(s, 1, n))
  BY <1>1, <1>3 DEF Stats!IsInjective
<1>5. Stats!Newest(s) = SubSeq(s, 1, n)
  BY DEF Stats!Newest, n
<1> QED BY <1>1, <1>3, <1>4, <1>5, ListsAre

(* A dataset that a list does not have, in front of it.                     *)
LEMMA InFront ==
  ASSUME NEW s \in Seq(Listed), Stats!IsInjective(s), NEW d \in Listed, \A i \in DOMAIN s : s[i] # d
  PROVE  <<d>> \o s \in Seq(Listed) /\ Stats!IsInjective(<<d>> \o s)
<1> DEFINE t == <<d>> \o s
<1>1. /\ t \in Seq(Listed) /\ Len(t) = Len(s) + 1 /\ t[1] = d
      /\ \A i \in 2..Len(t) : t[i] = s[i - 1] /\ i - 1 \in DOMAIN s
  OBVIOUS
<1> HIDE DEF t
<1>2. ASSUME NEW i \in DOMAIN t, NEW j \in DOMAIN t, t[i] = t[j]
      PROVE  i = j
  <2>1. i \in 1..Len(t) /\ j \in 1..Len(t)
    BY <1>1
  <2>2. CASE i = 1 \/ j = 1
    BY <1>1, <1>2, <2>1, <2>2
  <2>3. CASE i # 1 /\ j # 1
    <3>1. i \in 2..Len(t) /\ j \in 2..Len(t)
      BY <2>1, <2>3
    <3>2. s[i - 1] = s[j - 1] /\ i - 1 \in DOMAIN s /\ j - 1 \in DOMAIN s
      BY <1>1, <1>2, <3>1
    <3>3. i - 1 = j - 1
      BY <3>2 DEF Stats!IsInjective
    <3> QED BY <3>1, <3>3
  <2> QED BY <2>2, <2>3
<1>3. Stats!IsInjective(t)
  BY <1>2 DEF Stats!IsInjective
<1> QED BY <1>1, <1>3 DEF t

(* A list without a dataset that it has once.                               *)
LEMMA RemovedOnce ==
  ASSUME NEW s \in Seq(Listed), Stats!IsInjective(s), NEW d \in Listed
  PROVE  /\ Stats!RemoveFirst(s, d) \in Seq(Listed) /\ Stats!IsInjective(Stats!RemoveFirst(s, d))
         /\ \A i \in DOMAIN Stats!RemoveFirst(s, d) : Stats!RemoveFirst(s, d)[i] # d
<1> DEFINE t == Stats!RemoveFirst(s, d)
<1> SUFFICES t \in Seq(Listed) /\ Stats!IsInjective(t) /\ \A i \in DOMAIN t : t[i] # d
  OBVIOUS
<1>1. CASE \A i \in 1..Len(s) : s[i] # d
  <2>1. t = s
    BY <1>1 DEF Stats!RemoveFirst
  <2> HIDE DEF t
  <2>2. t \in Seq(Listed) /\ Stats!IsInjective(t) /\ \A i \in DOMAIN t : t[i] # d
    BY <1>1, <2>1
  <2> QED BY <2>2 DEF t
<1>2. ASSUME NEW k \in 1..Len(s), s[k] = d
      PROVE  t \in Seq(Listed) /\ Stats!IsInjective(t) /\ \A i \in DOMAIN t : t[i] # d
  <2>1. Stats!SelectInSeq(s, LAMBDA v : v = d) = k
    <3> DEFINE I == {i \in 1..Len(s) : s[i] = d}
    <3>1. I = {k}
      BY <1>2 DEF Stats!IsInjective
    <3>2. Stats!SelectInSeq(s, LAMBDA v : v = d) = Stats!Min(I)
      BY <3>1 DEF Stats!SelectInSeq
    <3>3. Stats!Min({k}) = k
      BY DEF Stats!Min
    <3> HIDE DEF I
    <3> QED BY <3>1, <3>2, <3>3
  <2>2. t = SubSeq(s, 1, k - 1) \o SubSeq(s, k + 1, Len(s))
    BY <1>2, <2>1 DEF Stats!RemoveFirst, Stats!RemoveAt
  <2> HIDE DEF t
  <2>3. /\ t \in Seq(Listed) /\ Len(t) = Len(s) - 1
        /\ \A i \in 1..Len(t) : t[i] = IF i < k THEN s[i] ELSE s[i + 1]
    <3> DEFINE a == SubSeq(s, 1, k - 1)
               b == SubSeq(s, k + 1, Len(s))
    <3>1. /\ a \in Seq(Listed) /\ Len(a) = k - 1 /\ \A i \in 1..(k - 1) : a[i] = s[i]
      OBVIOUS
    <3>2. /\ b \in Seq(Listed) /\ Len(b) = Len(s) - k /\ \A i \in 1..(Len(s) - k) : b[i] = s[k + i]
      OBVIOUS
    <3> HIDE DEF a, b
    <3>3. /\ t \in Seq(Listed) /\ Len(t) = Len(a) + Len(b)
          /\ \A i \in 1..(Len(a) + Len(b)) : t[i] = IF i <= Len(a) THEN a[i] ELSE b[i - Len(a)]
      BY <2>2, <3>1, <3>2, ConcatProperties DEF a, b
    <3>4. ASSUME NEW i \in 1..Len(t) PROVE t[i] = IF i < k THEN s[i] ELSE s[i + 1]
      <4>1. CASE i < k
        BY <3>1, <3>2, <3>3, <4>1
      <4>2. CASE ~(i < k)
        <5>1. i - Len(a) = i - (k - 1) /\ i - (k - 1) \in 1..(Len(s) - k) /\ ~(i <= Len(a))
          BY <3>1, <3>2, <3>3, <4>2
        <5>2. t[i] = b[i - (k - 1)] /\ b[i - (k - 1)] = s[k + (i - (k - 1))]
          BY <3>2, <3>3, <5>1
        <5>3. k + (i - (k - 1)) = i + 1
          BY <3>1, <3>3
        <5> QED BY <4>2, <5>2, <5>3
      <4> QED BY <4>1, <4>2
    <3> QED BY <3>1, <3>2, <3>3, <3>4
  <2>4. ASSUME NEW i \in 1..Len(t) PROVE t[i] # d
    BY <1>2, <2>3 DEF Stats!IsInjective
  <2>5. ASSUME NEW i \in 1..Len(t), NEW j \in 1..Len(t), t[i] = t[j] PROVE i = j
    <3> DEFINE p(n) == IF n < k THEN n ELSE n + 1
    <3>1. p(i) \in DOMAIN s /\ p(j) \in DOMAIN s /\ s[p(i)] = s[p(j)]
      BY <2>3, <2>5
    <3>2. p(i) = p(j)
      <4> HIDE DEF p
      <4> QED BY <3>1 DEF Stats!IsInjective
    <3> QED BY <3>2
  <2> QED BY <2>3, <2>4, <2>5 DEF Stats!IsInjective
<1> QED BY <1>1, <1>2

(* A message is announced by an event, and the last attempt raises.         *)
StatInv ==
  /\ Stats!StatTypeOK
  /\ Len(announced) <= events
  /\ coordinator = "starting" => tries < Attempts

LEMMA InitStatInv == Stats!Init => StatInv
<1> SUFFICES ASSUME Stats!Init PROVE StatInv
  OBVIOUS
<1>1. <<>> \in Seq(Listed) /\ Len(<<>>) = 0 /\ Stats!IsInjective(indexed)
  BY DEF Stats!Init, Stats!IsInjective
<1> QED BY <1>1, EmptyListed, BoundsAssumption DEF Stats!Init, StatInv, Stats!StatTypeOK

LEMMA NextStatInv ==
  ASSUME StatInv, [Stats!Next]_statVars
  PROVE  StatInv'
<1> USE BoundsAssumption DEF StatInv, Stats!StatTypeOK
<1>1. CASE Stats!CreateIndices
  <2>1. UNCHANGED <<indexed, announced, recent, thread, found, copy>> /\ coordinator = "starting"
    BY <1>1 DEF Stats!CreateIndices
  <2>2. \/ coordinator' = "running" /\ UNCHANGED <<tries, events>>
        \/ /\ events < MaxListEvents /\ events' = events + 1 /\ tries' = tries + 1
           /\ coordinator' = IF tries' = Attempts THEN "raised" ELSE "starting"
    BY <1>1 DEF Stats!CreateIndices, Stats!Event
  <2>3. Len(announced) \in Nat
    OBVIOUS
  <2>4. tries' \in 0..Attempts /\ events' \in 0..MaxListEvents /\ Len(announced) <= events'
        /\ coordinator' \in {"starting", "running", "raised"} /\ (coordinator' = "starting" => tries' < Attempts)
    BY <2>1, <2>2, <2>3
  <2> QED BY <2>1, <2>4
<1>2. ASSUME NEW d \in Listed, Stats!Profiled(d)
      PROVE  StatInv'
  <2>1. /\ events < MaxListEvents /\ events' = events + 1
        /\ indexed' = <<d>> \o Stats!RemoveFirst(indexed, d)
        /\ announced' = announced \/ announced' = Append(announced, d)
        /\ UNCHANGED <<recent, thread, found, tries, coordinator, copy>>
    BY <1>2 DEF Stats!Profiled, Stats!Event
  <2>2. indexed' \in Seq(Listed) /\ Stats!IsInjective(indexed')
    BY <2>1, RemovedOnce, InFront
  <2>3. announced' \in Seq(Listed) /\ Len(announced') \in Nat /\ Len(announced') <= Len(announced) + 1
    <3>1. CASE announced' = announced
      BY <3>1
    <3>2. CASE announced' = Append(announced, d)
      BY <3>2
    <3> QED BY <2>1, <3>1, <3>2
  <2>4. events' \in 0..MaxListEvents /\ Len(announced') <= events'
    BY <2>1, <2>3
  <2> QED BY <2>1, <2>2, <2>3, <2>4
<1>3. ASSUME NEW d \in Listed, Stats!Deleted(d)
      PROVE  StatInv'
  <2>1. /\ events < MaxListEvents /\ events' = events + 1
        /\ indexed' = Stats!RemoveFirst(indexed, d)
        /\ UNCHANGED <<announced, recent, thread, found, tries, coordinator, copy>>
    BY <1>3 DEF Stats!Deleted, Stats!Event
  <2>2. indexed' \in Seq(Listed) /\ Stats!IsInjective(indexed')
    BY <2>1, RemovedOnce
  <2>3. events' \in 0..MaxListEvents /\ Len(announced) <= events'
    <3>1. Len(announced) \in Nat
      OBVIOUS
    <3> QED BY <2>1, <3>1
  <2> QED BY <2>1, <2>2, <2>3
<1>4. CASE Stats!Consume
  <2>1. /\ announced # <<>> /\ announced' = Tail(announced)
        /\ UNCHANGED <<indexed, thread, found, tries, coordinator, copy, events>>
    BY <1>4 DEF Stats!Consume
  <2>2. /\ Head(announced) \in Listed /\ announced' \in Seq(Listed)
        /\ Len(announced') = Len(announced) - 1
    BY <2>1
  <2>3. recent' \in Stats!Lists
    <3> DEFINE d == Head(announced)
    <3>1. CASE recent' = recent
      BY <3>1
    <3>2. CASE d \notin Stats!Range(recent) /\ recent' = Stats!Newest(<<d>> \o recent)
      <4>1. recent \in Seq(Listed) /\ Stats!IsInjective(recent) /\ \A i \in DOMAIN recent : recent[i] # d
        BY <3>2, ListsAre DEF Stats!Range
      <4>2. <<d>> \o recent \in Seq(Listed) /\ Stats!IsInjective(<<d>> \o recent)
        BY <2>2, <4>1, InFront
      <4> QED BY <3>2, <4>2, NewestListed
    <3> QED BY <1>4, <3>1, <3>2 DEF Stats!Consume
  <2>4. Len(announced') <= MaxListEvents /\ Len(announced') <= events
    BY <2>2
  <2> QED BY <2>1, <2>2, <2>3, <2>4
<1>5. CASE Stats!Read
  <2>1. Stats!Newest(indexed) \in Stats!Lists
    BY NewestListed
  <2>2. /\ thread' \in {"read", "failed"} /\ found' \in Stats!Lists
        /\ events' = events \/ (events < MaxListEvents /\ events' = events + 1)
        /\ UNCHANGED <<indexed, announced, recent, tries, coordinator, copy>>
    BY EmptyListed, <1>5, <2>1 DEF Stats!Read, Stats!Event
  <2>3. events' \in 0..MaxListEvents /\ Len(announced) <= events'
    <3>1. Len(announced) \in Nat
      OBVIOUS
    <3> QED BY <2>2, <3>1
  <2> QED BY <2>2, <2>3
<1>6. CASE Stats!Replace \/ Stats!UpdateFails \/ Stats!Fetch
  BY EmptyListed, <1>6 DEF Stats!Replace, Stats!UpdateFails, Stats!Fetch
<1>7. CASE UNCHANGED statVars
  BY <1>7 DEF statVars
<1> QED BY <1>1, <1>2, <1>3, <1>4, <1>5, <1>6, <1>7 DEF Stats!Next

-----------------------------------------------------------------------------
(* Socrata: a version of a dataset is that of an event.                     *)

LEMMA InitSocrataTypeOK == Portals!Init => Portals!SocrataTypeOK
<1>1. 1 \in DOMAIN Domains
  BY BoundsAssumption
<1>2. 0 \in Portals!Versions /\ 1 \in Portals!Versions /\ 0 \in 0..MaxPortalEvents
  BY BoundsAssumption DEF Portals!Versions
<1> QED BY <1>1, <1>2 DEF Portals!Init, Portals!SocrataTypeOK, Portals!None

LEMMA NextSocrataTypeOK ==
  ASSUME Portals!SocrataTypeOK, [Portals!Next]_socrataVars
  PROVE  Portals!SocrataTypeOK'
<1> USE DEF Portals!SocrataTypeOK
<1>0. 0 \in Portals!Versions /\ 1 \in Portals!Versions
  BY BoundsAssumption DEF Portals!Versions
<1>e. ASSUME Portals!Event PROVE portalEvents' \in 0..MaxPortalEvents /\ portalEvents + 2 \in Portals!Versions
  BY <1>e, BoundsAssumption DEF Portals!Event, Portals!Versions
<1>p. ASSUME Portals!Proceed
      PROVE  /\ turn' \in DOMAIN Domains /\ phase' \in {"list", "process", "delete"}
             /\ listing' \in [Mirrored -> Portals!Versions] /\ todo' \subseteq Mirrored
             /\ seen' \subseteq Mirrored
  <2>1. turn' \in DOMAIN Domains
    BY <1>p, BoundsAssumption DEF Portals!Proceed
  <2> QED BY <1>0, <1>p, <2>1 DEF Portals!Proceed, Portals!None
<1>1. ASSUME NEW d \in Mirrored, Portals!Portal(d)
      PROVE  Portals!SocrataTypeOK'
  <2>1. portalEvents' \in 0..MaxPortalEvents /\ portalEvents + 2 \in Portals!Versions
    BY <1>1, <1>e DEF Portals!Portal
  <2>2. portal' \in [Mirrored -> Portals!Versions]
    BY <1>0, <1>1, <2>1 DEF Portals!Portal
  <2> QED BY <1>1, <2>1, <2>2 DEF Portals!Portal, Portals!worker
<1>2. ASSUME NEW d \in Mirrored, NEW v \in Portals!Versions, Portals!Profile(d, v)
      PROVE  Portals!SocrataTypeOK'
  <2>1. portalEvents' \in 0..MaxPortalEvents
    BY <1>2, <1>e DEF Portals!Profile
  <2>2. datamart' \in [Mirrored -> Portals!Versions] /\ pending' \in [Mirrored -> Portals!Versions]
    BY <1>0, <1>2 DEF Portals!Profile
  <2>3. bigSets' \subseteq Mirrored
    BY <1>2 DEF Portals!Profile
  <2> QED BY <1>2, <2>1, <2>2, <2>3 DEF Portals!Profile, Portals!worker
<1>3. CASE Portals!List
  <2>1. CASE Portals!Proceed
    BY <1>3, <1>p, <2>1 DEF Portals!List
  <2>2. CASE ~Portals!Proceed
    <3>1. /\ listing' \in [Mirrored -> Portals!Versions] /\ todo' \subseteq Mirrored
          /\ phase' = "process" /\ UNCHANGED <<turn, seen>>
      BY <1>0, <1>3, <2>2 DEF Portals!List, Portals!Here
    <3> QED BY <1>3, <3>1 DEF Portals!List
  <2> QED BY <2>1, <2>2
<1>4. ASSUME NEW d \in Mirrored, Portals!Process(d)
      PROVE  Portals!SocrataTypeOK'
  <2>1. portalEvents' \in 0..MaxPortalEvents
    BY <1>4, <1>e DEF Portals!Process
  <2>2. seen' \subseteq Mirrored /\ queue' \subseteq Mirrored \X Portals!Versions
    BY <1>4 DEF Portals!Process
  <2> QED BY <1>4, <2>1, <2>2 DEF Portals!Process
<1>5. CASE Portals!Scan
  BY <1>5 DEF Portals!Scan, Portals!Here
<1>6. ASSUME NEW d \in Mirrored, Portals!Delete(d)
      PROVE  Portals!SocrataTypeOK'
  BY <1>0, <1>6 DEF Portals!Delete
<1>7. CASE Portals!Finish
  BY <1>7, <1>p DEF Portals!Finish
<1>8. CASE Portals!Abort
  BY <1>8, <1>e, <1>p DEF Portals!Abort
<1>9. CASE UNCHANGED socrataVars
  BY <1>9 DEF socrataVars
<1> QED BY <1>1, <1>2, <1>3, <1>4, <1>5, <1>6, <1>7, <1>8, <1>9 DEF Portals!Next, Portals!Sweep

-----------------------------------------------------------------------------
(* DiscoveryQueries: a replica has as many tickets as it does not use.      *)
(* A query is in one place, and its progress says which.                    *)
Handling(p) == \E q \in delivered[p] : progress[q] = "handling"
QueryOf(p) ==
  /\ \A q \in delivered[p] :
       /\ delivered[p] = {q} /\ q \notin queued
       /\ progress[q] \in {"waiting", "handling", "failed", "succeeded", "unsent"}
  /\ p \notin up => delivered[p] = {}
  /\ tickets[p] = IF Handling(p) THEN Concurrent - 1 ELSE Concurrent
TicketInv ==
  /\ Query!QueryTypeOK
  /\ \A q \in queued : progress[q] = "waiting"
  /\ \A p, r \in Replicas : p # r => delivered[p] \cap delivered[r] = {}
  /\ \A p \in Replicas : QueryOf(p)

LEMMA InitTicketInv == Query!Init => TicketInv
<1> SUFFICES ASSUME Query!Init PROVE TicketInv
  OBVIOUS
<1>1. Query!QueryTypeOK
  BY BoundsAssumption DEF Query!Init, Query!QueryTypeOK
<1> QED BY <1>1 DEF Query!Init, TicketInv, QueryOf, Handling

(* A replica that a step does not touch.                                    *)
LEMMA OtherReplica ==
  ASSUME NEW p \in Replicas, QueryOf(p),
         delivered'[p] = delivered[p], tickets'[p] = tickets[p], p \in up => p \in up',
         \A q \in delivered[p] : progress'[q] = progress[q] /\ q \notin queued'
  PROVE  QueryOf(p)'
<1>1. Handling(p)' <=> Handling(p)
  BY DEF Handling
<1> QED BY <1>1 DEF QueryOf

LEMMA GoneKeepsTickets ==
  ASSUME TicketInv, NEW p \in Replicas, p \in up, Query!Gone(p), UNCHANGED told,
         queryFaults' \in 0..MaxQueryFaults
  PROVE  TicketInv'
<1> USE DEF TicketInv, Query!QueryTypeOK
<1> DEFINE rest == queued \cup delivered[p]
<1>1. /\ up' = up \ {p} /\ delivered' = [delivered EXCEPT ![p] = {}]
      /\ tickets' = [tickets EXCEPT ![p] = Concurrent]
  BY DEF Query!Gone
<1>2. \/ up' = {} /\ queued' = {} /\ lostQueries' = lostQueries \cup rest
         /\ progress' = [q \in Asking |-> IF q \in rest THEN "over" ELSE progress[q]]
      \/ up' # {} /\ queued' = rest /\ lostQueries' = lostQueries
         /\ progress' = [q \in Asking |-> IF q \in rest THEN "waiting" ELSE progress[q]]
  BY DEF Query!Gone
<1>3. rest \subseteq Asking
  OBVIOUS
<1> HIDE DEF rest
<1>4. Query!QueryTypeOK'
  <2>1. tickets' \in [Replicas -> 0..Concurrent]
    BY <1>1, BoundsAssumption
  <2>2. delivered' \in [Replicas -> SUBSET Asking] /\ up' \subseteq Replicas
    BY <1>1
  <2> QED BY <1>2, <1>3, <2>1, <2>2
<1>5. \A q \in queued' : progress'[q] = "waiting"
  BY <1>2, <1>3
<1>6. ASSUME NEW r \in Replicas, NEW s \in Replicas, r # s
      PROVE  delivered'[r] \cap delivered'[s] = {}
  BY <1>1, <1>6
<1>7. ASSUME NEW r \in Replicas
      PROVE  QueryOf(r)'
  <2>1. CASE r = p
    BY <1>1, <2>1 DEF QueryOf, Handling
  <2>2. CASE r # p
    <3>1. delivered'[r] = delivered[r] /\ tickets'[r] = tickets[r] /\ (r \in up => r \in up')
      BY <1>1, <2>2
    <3>2. ASSUME NEW q \in delivered[r]
          PROVE  progress'[q] = progress[q] /\ q \notin queued'
      <4>1. q \notin rest /\ q \in Asking
        BY <2>2 DEF QueryOf, rest
      <4> QED BY <1>2, <4>1
    <3> QED BY <3>1, <3>2, OtherReplica
  <2> QED BY <2>1, <2>2
<1> QED BY <1>4, <1>5, <1>6, <1>7

LEMMA NextTicketInv ==
  ASSUME TicketInv, [Query!Next]_queryVars
  PROVE  TicketInv'
<1> USE DEF TicketInv, Query!QueryTypeOK
<1>f. ASSUME Query!QueryFault PROVE queryFaults' \in 0..MaxQueryFaults
  BY <1>f, BoundsAssumption DEF Query!QueryFault
<1>1. ASSUME NEW q \in Asking, Query!Ask(q)
      PROVE  TicketInv'
  <2>1. /\ progress[q] = "new" /\ UNCHANGED <<delivered, tickets, up, told, queryFaults>>
        /\ progress' \in [Asking -> {"new", "waiting", "handling", "failed", "succeeded", "unsent", "over"}]
        /\ queued' \subseteq queued \cup {q} /\ lostQueries' \subseteq Asking
        /\ \A r \in Asking \ {q} : progress'[r] = progress[r]
        /\ q \in queued' => progress'[q] = "waiting"
    BY <1>1 DEF Query!Ask, Query!Becomes
  <2>2. ASSUME NEW r \in Replicas
        PROVE  QueryOf(r)'
    <3>1. \A d \in delivered[r] : progress'[d] = progress[d] /\ d \notin queued'
      BY <2>1 DEF QueryOf
    <3> QED BY <2>1, <3>1, OtherReplica
  <2> QED BY <2>1, <2>2
<1>2. ASSUME NEW p \in Replicas, NEW q \in Asking, Query!Deliver(p, q)
      PROVE  TicketInv'
  <2>1. /\ p \in up /\ q \in queued /\ delivered[p] = {}
        /\ queued' = queued \ {q} /\ delivered' = [delivered EXCEPT ![p] = {q}]
        /\ UNCHANGED <<progress, tickets, up, told, lostQueries, queryFaults>>
    BY <1>2 DEF Query!Deliver
  <2>2. ASSUME NEW r \in Replicas
        PROVE  QueryOf(r)' /\ (r # p => q \notin delivered[r])
    <3>1. CASE r = p
      BY <2>1, <3>1 DEF QueryOf, Handling
    <3>2. CASE r # p
      <4>1. \A d \in delivered[r] : d # q /\ progress'[d] = progress[d] /\ d \notin queued'
        BY <2>1 DEF QueryOf
      <4> QED BY <2>1, <3>2, <4>1, OtherReplica
    <3> QED BY <3>1, <3>2
  <2>3. \A r, s \in Replicas : r # s => delivered'[r] \cap delivered'[s] = {}
    BY <2>1, <2>2
  <2> QED BY <2>1, <2>2, <2>3
<1>3. ASSUME NEW p \in Replicas, NEW q \in Asking, Query!StartQuery(p, q)
      PROVE  TicketInv'
  <2>1. p \in up /\ q \in delivered[p] /\ progress[q] = "waiting" /\ tickets[p] > 0
    BY <1>3 DEF Query!StartQuery
  <2>2. CASE Query!Gone(p) /\ Query!QueryFault /\ UNCHANGED told
    BY <1>f, <2>1, <2>2, GoneKeepsTickets
  <2>3. CASE /\ tickets' = [tickets EXCEPT ![p] = @ - 1]
             /\ Query!Tell(q, "work_started") /\ Query!Becomes(q, "handling")
             /\ UNCHANGED <<queued, delivered, up, lostQueries, queryFaults>>
    <3>1. /\ progress' = [progress EXCEPT ![q] = "handling"]
          /\ told' = [told EXCEPT ![q] = @ \cup {"work_started"}]
      BY <2>3 DEF Query!Tell, Query!Becomes
    <3>2. tickets' \in [Replicas -> 0..Concurrent]
      BY <2>1, <2>3, BoundsAssumption
    <3>3. ASSUME NEW r \in Replicas
          PROVE  QueryOf(r)'
      <4>1. CASE r = p
        <5>1. delivered'[p] = {q} /\ q \notin queued' /\ progress'[q] = "handling"
          BY <2>1, <2>3, <3>1 DEF QueryOf
        <5>2. ~Handling(p) /\ tickets[p] = Concurrent
          BY <2>1 DEF QueryOf, Handling
        <5>3. Handling(p)' /\ tickets'[p] = Concurrent - 1
          BY <2>3, <5>1, <5>2 DEF Handling
        <5> QED BY <2>1, <2>3, <4>1, <5>1, <5>3 DEF QueryOf
      <4>2. CASE r # p
        <5>1. \A d \in delivered[r] : d # q /\ d \notin queued
          BY <2>1, <4>2 DEF QueryOf
        <5> QED BY <2>3, <3>1, <4>2, <5>1, OtherReplica
      <4> QED BY <4>1, <4>2
    <3>4. \A d \in queued' : progress'[d] = "waiting"
      BY <2>1, <2>3, <3>1 DEF QueryOf
    <3> QED BY <2>3, <3>1, <3>2, <3>3, <3>4
  <2> QED BY <1>3, <2>2, <2>3 DEF Query!StartQuery
<1>4. ASSUME NEW p \in Replicas, NEW q \in Asking, Query!Handle(p, q)
      PROVE  TicketInv'
  <2>1. PICK end \in {"failed", "succeeded"} :
          /\ q \in delivered[p] /\ progress[q] = "handling"
          /\ progress' = [progress EXCEPT ![q] = end]
          /\ tickets' = [tickets EXCEPT ![p] = @ + 1]
          /\ UNCHANGED <<queued, delivered, up, told, lostQueries, queryFaults>>
    BY <1>4 DEF Query!Handle, Query!Becomes
  <2>2. delivered[p] = {q} /\ q \notin queued /\ tickets[p] = Concurrent - 1
    BY <2>1 DEF QueryOf, Handling
  <2>3. tickets' \in [Replicas -> 0..Concurrent] /\ tickets'[p] = Concurrent
    BY <2>1, <2>2, BoundsAssumption
  <2>4. ASSUME NEW r \in Replicas
        PROVE  QueryOf(r)'
    <3>1. CASE r = p
      BY <2>1, <2>2, <2>3, <3>1 DEF QueryOf, Handling
    <3>2. CASE r # p
      <4>1. \A d \in delivered[r] : d # q /\ d \notin queued
        BY <2>1, <3>2 DEF QueryOf
      <4> QED BY <2>1, <3>2, <4>1, OtherReplica
    <3> QED BY <3>1, <3>2
  <2>5. \A d \in queued' : progress'[d] = "waiting"
    BY <2>1, <2>2
  <2> QED BY <2>1, <2>3, <2>4, <2>5
<1>5. ASSUME NEW p \in Replicas, NEW q \in Asking, Query!AnswerQuery(p, q)
      PROVE  TicketInv'
  <2>1. PICK end \in {"over", "unsent"} :
          /\ q \in delivered[p] /\ progress[q] \in {"failed", "succeeded"}
          /\ progress' = [progress EXCEPT ![q] = end]
          /\ delivered' = IF end = "over" THEN [delivered EXCEPT ![p] = @ \ {q}] ELSE delivered
          /\ UNCHANGED <<queued, tickets, up, lostQueries>>
    BY <1>5 DEF Query!AnswerQuery, Query!Becomes, Query!Ack
  <2>2. told' \in [Asking -> SUBSET {"work_started", "work_done"}] /\ queryFaults' \in 0..MaxQueryFaults
    BY <1>5, <1>f DEF Query!AnswerQuery, Query!Tell
  <2>3. delivered[p] = {q} /\ q \notin queued /\ tickets[p] = Concurrent
    BY <2>1 DEF QueryOf, Handling
  <2>4. /\ delivered' \in [Replicas -> SUBSET Asking] /\ delivered'[p] \subseteq {q}
        /\ (end = "over" => delivered'[p] = {})
        /\ \A r \in Replicas \ {p} : delivered'[r] = delivered[r]
    BY <2>1, <2>3
  <2>5. ASSUME NEW r \in Replicas
        PROVE  QueryOf(r)'
    <3>1. CASE r = p
      <4>1. ~Handling(p)' /\ tickets'[p] = Concurrent
        BY <2>1, <2>3, <2>4 DEF Handling
      <4>2. p \notin up' => delivered'[p] = {}
        BY <2>1, <2>3 DEF QueryOf
      <4> QED BY <2>1, <2>3, <2>4, <3>1, <4>1, <4>2 DEF QueryOf
    <3>2. CASE r # p
      <4>1. \A d \in delivered[r] : d # q /\ d \notin queued
        BY <2>1, <3>2 DEF QueryOf
      <4> QED BY <2>1, <2>4, <3>2, <4>1, OtherReplica
    <3> QED BY <3>1, <3>2
  <2>6. \A d \in queued' : progress'[d] = "waiting"
    BY <2>1, <2>3
  <2>7. \A r, s \in Replicas : r # s => delivered'[r] \cap delivered'[s] = {}
    BY <2>3, <2>4
  <2> QED BY <2>1, <2>2, <2>4, <2>5, <2>6, <2>7
<1>6. ASSUME NEW p \in Replicas, Query!Crash(p)
      PROVE  TicketInv'
  BY <1>6, <1>f, GoneKeepsTickets DEF Query!Crash
<1>7. ASSUME NEW p \in Replicas, Query!Restart(p)
      PROVE  TicketInv'
  <2>1. p \notin up /\ up' = up \cup {p}
        /\ UNCHANGED <<queued, delivered, progress, tickets, told, lostQueries, queryFaults>>
    BY <1>7 DEF Query!Restart
  <2>2. \A r \in Replicas : QueryOf(r)'
    BY <2>1 DEF QueryOf, Handling
  <2> QED BY <2>1, <2>2
<1>8. CASE UNCHANGED queryVars
  BY <1>8 DEF queryVars, QueryOf, Handling
<1> QED BY <1>1, <1>2, <1>3, <1>4, <1>5, <1>6, <1>7, <1>8 DEF Query!Next, Query!ReplicaSteps

-----------------------------------------------------------------------------
(* UazIndicators: a version of the database is that of an event, and what   *)
(* is stored or indexed has one that it had.                                *)
UazBounds ==
  /\ uazEvents \in 0..MaxUazEvents /\ version <= uazEvents + 1
  /\ \A g \in Groups : storage[g] <= version /\ index[g] <= version
  /\ \A read \in reading : read[2] <= version

LEMMA InitUazBounds == Uaz!Init => UazBounds
<1>1. 0 <= 1
  OBVIOUS
<1> QED BY <1>1, BoundsAssumption DEF Uaz!Init, UazBounds

LEMMA StillBelow ==
  ASSUME NEW a \in Nat, NEW b \in Nat, NEW c \in Nat, a <= b + 1, b <= c
  PROVE  a <= c + 1
OBVIOUS

LEMMA NextUazBounds ==
  ASSUME UazInv, UazBounds, [Uaz!Next]_uazVars
  PROVE  UazBounds'
<1> USE BoundsAssumption DEF UazInv, UazTypes, UazBounds
<1>e. ASSUME Uaz!UazEvent PROVE uazEvents' \in 0..MaxUazEvents /\ uazEvents' = uazEvents + 1
  BY <1>e DEF Uaz!UazEvent
<1>1. CASE Uaz!NewVersion
  BY <1>1, <1>e DEF Uaz!NewVersion, Uaz!profilerVars
<1>2. CASE Uaz!GetData \/ Uaz!RecordEtag
  BY <1>2 DEF Uaz!GetData, Uaz!RecordEtag, Uaz!profilerVars
<1>3. CASE Uaz!Stop
  BY <1>3, <1>e DEF Uaz!Stop, Uaz!profilerVars
<1>4. ASSUME NEW g \in Groups, Uaz!Remove(g)
      PROVE  UazBounds'
  BY <1>4 DEF Uaz!Remove, Uaz!profilerVars
<1>5. CASE Uaz!Write
  <2>1. uazEvents' \in 0..MaxUazEvents /\ (uazEvents' = uazEvents \/ uazEvents' = uazEvents + 1)
    BY <1>5, <1>e DEF Uaz!Write
  <2>2. \A g \in Groups : storage'[g] <= version
    BY <1>5 DEF Uaz!Write
  <2>3. version' = version /\ index' = index /\ reading' = reading
    BY <1>5 DEF Uaz!Write, Uaz!profilerVars
  <2>4. version' <= uazEvents' + 1
    <3>1. version \in Nat /\ uazEvents \in Nat /\ version <= uazEvents + 1 /\ uazEvents' \in Nat
      BY <2>1
    <3>2. uazEvents <= uazEvents'
      BY <2>1, <3>1
    <3>3. version <= uazEvents' + 1
      BY <3>1, <3>2, StillBelow
    <3> QED BY <2>3, <3>3
  <2>5. \A g \in Groups : storage'[g] <= version' /\ index'[g] <= version'
    BY <2>2, <2>3
  <2>6. \A read \in reading' : read[2] <= version'
    BY <2>3
  <2> QED BY <2>1, <2>4, <2>5, <2>6
<1>6. ASSUME NEW g \in Groups, Uaz!Read(g)
      PROVE  UazBounds'
  <2>1. reading' = reading \cup {<<g, v>> : v \in {storage[g]} \ {0}}
    BY <1>6 DEF Uaz!Read
  <2>2. \A read \in reading' : read[2] <= version
    BY <2>1
  <2> QED BY <1>6, <2>2 DEF Uaz!Read, Uaz!sourceVars
<1>8. ASSUME NEW g \in Groups, NEW v \in Uaz!UazVersions, Uaz!Index(g, v)
      PROVE  UazBounds'
  <2>1. v <= version
    BY <1>8 DEF Uaz!Index
  <2> QED BY <1>8, <2>1 DEF Uaz!Index, Uaz!sourceVars
<1>9. ASSUME NEW g \in Groups, NEW v \in Uaz!UazVersions, Uaz!ProfileFails(g, v)
      PROVE  UazBounds'
  BY <1>9 DEF Uaz!ProfileFails, Uaz!sourceVars
<1>7. CASE UNCHANGED uazVars
  BY <1>7 DEF uazVars
<1> QED BY <1>1, <1>2, <1>3, <1>4, <1>5, <1>6, <1>7, <1>8, <1>9 DEF Uaz!Next, Uaz!Discover

LEMMA UazTyped ==
  ASSUME UazInv, UazBounds
  PROVE  Uaz!UazTypeOK
<1> USE BoundsAssumption DEF UazInv, UazTypes, UazBounds
<1>1. \A n \in Nat : n <= version => n \in Uaz!UazVersions
  BY DEF Uaz!UazVersions
<1>2. version \in Uaz!UazVersions /\ etag \in Uaz!UazVersions /\ current \in Uaz!UazVersions
  BY <1>1
<1>3. storage \in [Groups -> Uaz!UazVersions] /\ index \in [Groups -> Uaz!UazVersions]
  BY <1>1
<1>4. reading \subseteq Groups \X Uaz!UazVersions
  BY <1>1
<1> QED BY <1>2, <1>3, <1>4 DEF Uaz!UazTypeOK

-----------------------------------------------------------------------------
(* Zenodo: what is published is known of a record, and what failed is known.*)
ZenodoFiles ==
  /\ known \subseteq Zen!AllFiles /\ failed \subseteq known /\ published \subseteq Zen!AllFiles
  /\ cut \subseteq Records /\ bigFiles \subseteq Zen!AllFiles /\ zenodoEvents \in 0..MaxZenodoEvents

LEMMA InitZenodoFiles == Zen!Init => ZenodoFiles
BY BoundsAssumption DEF Zen!Init, ZenodoFiles

LEMMA NextZenodoFiles ==
  ASSUME ZenodoInv, ZenodoFiles, [Zen!Next]_zenodoVars
  PROVE  ZenodoFiles'
<1> USE DEF ZenodoInv, ZenodoFiles
<1>e. ASSUME Zen!ZenodoEvent PROVE zenodoEvents' \in 0..MaxZenodoEvents
  BY <1>e, BoundsAssumption DEF Zen!ZenodoEvent
<1>1. CASE Zen!List \/ Zen!Cleanup \/ Zen!Sleep
  BY <1>1 DEF Zen!List, Zen!Cleanup, Zen!Sleep
<1>2. CASE Zen!File
  <2>1. CASE UNCHANGED published
    BY <1>2, <2>1 DEF Zen!File
  <2>2. CASE ~UNCHANGED published
    <3>1. position # Len(Files[record]) /\ published' \subseteq published \cup {Files[record][position + 1]}
      BY <1>2, <2>2 DEF Zen!File
    <3>2. position + 1 \in 1..Len(Files[record])
      BY <3>1, RangeOf
    <3>3. Files[record][position + 1] \in Zen!Range(Files[record])
      BY <3>2, RangeOf
    <3>4. Files[record][position + 1] \in Zen!AllFiles
      BY <3>3 DEF Zen!AllFiles
    <3> QED BY <1>2, <3>1, <3>4 DEF Zen!File
  <2> QED BY <2>1, <2>2
<1>3. CASE Zen!Abort
  BY <1>3, <1>e DEF Zen!Abort
<1>4. ASSUME NEW r \in Records, Zen!Source(r) \/ Zen!Record(r)
      PROVE  ZenodoFiles'
  BY <1>4, <1>e DEF Zen!Source, Zen!Record
<1>5. ASSUME NEW f \in Zen!AllFiles, Zen!Profile(f) \/ Zen!Delete(f)
      PROVE  ZenodoFiles'
  BY <1>5 DEF Zen!Profile, Zen!Delete
<1>6. CASE UNCHANGED zenodoVars
  BY <1>6 DEF zenodoVars
<1> QED BY <1>1, <1>2, <1>3, <1>4, <1>5, <1>6 DEF Zen!Next

LEMMA ZenodoTyped ==
  ASSUME ZenodoInv, ZenodoFiles
  PROVE  Zen!ZenodoTypeOK
<1>1. position \in Nat
  BY RangeOf DEF ZenodoInv
<1> QED BY <1>1 DEF ZenodoInv, ZenodoFiles, Zen!ZenodoTypeOK

-----------------------------------------------------------------------------
(* EvictionProofs is about the module that Services has as Evict.           *)
LEMMA EvictSame ==
  /\ Evict!Init => EvictP!Init
  /\ [Evict!Next]_evictionVars => [EvictP!Next]_(EvictP!evictionVars)
  /\ EvictP!EvictionTypeOK => Evict!EvictionTypeOK
  /\ EvictP!KeepsNewest => Evict!KeepsNewest
<1>1. \A w : Evict!Select(w) = EvictP!Select(w)
  BY DEF Evict!Select, EvictP!Select, Evict!Oldest, EvictP!Oldest,
     Evict!Seen, EvictP!Seen, Evict!TotalSize, EvictP!TotalSize, Evict!MapThenSumSet, EvictP!MapThenSumSet,
     Evict!MapThenFoldSet, EvictP!MapThenFoldSet
<1>2. \A S : Evict!TotalSize(S) = EvictP!TotalSize(S)
  BY DEF Evict!TotalSize, EvictP!TotalSize, Evict!MapThenSumSet, EvictP!MapThenSumSet,
     Evict!MapThenFoldSet, EvictP!MapThenFoldSet
<1>3. Evict!Init => EvictP!Init
  BY DEF Evict!Init, EvictP!Init
<1>4. [Evict!Next]_evictionVars => [EvictP!Next]_(EvictP!evictionVars)
  BY <1>1, <1>2 DEF Evict!Next, EvictP!Next, evictionVars, EvictP!evictionVars, Evict!Steps, EvictP!Steps,
     Evict!CheckCache, EvictP!CheckCache, Evict!MayRaise, EvictP!MayRaise, Evict!Measured, EvictP!Measured,
     Evict!Present, EvictP!Present, Evict!StartThread, EvictP!StartThread, Evict!threads, EvictP!threads,
     Evict!CACHES, EvictP!CACHES, Evict!Create, EvictP!Create, Evict!Acquire, EvictP!Acquire,
     Evict!Release, EvictP!Release, Evict!ListDir, EvictP!ListDir, Evict!Stat, EvictP!Stat,
     Evict!End, EvictP!End, Evict!Choose, EvictP!Choose, Evict!Clear, EvictP!Clear, Evict!Done, EvictP!Done
<1>5. EvictP!EvictionTypeOK => Evict!EvictionTypeOK
  BY DEF Evict!EvictionTypeOK, EvictP!EvictionTypeOK, Evict!CACHES, EvictP!CACHES, Evict!Range, EvictP!Range
<1>6. EvictP!KeepsNewest => Evict!KeepsNewest
  BY <1>2 DEF Evict!KeepsNewest, EvictP!KeepsNewest, Evict!Newer, EvictP!Newer, Evict!Seen, EvictP!Seen
<1> QED BY <1>3, <1>4, <1>5, <1>6

LEMMA InitOfAll == Init => Lock!Init /\ Shutdown!Init /\ Zen!Init /\ Uaz!Init /\ Lazo!Init
BY DEF Init

(* Whatever process is killed and whatever call fails: a with-block of a    *)
(* lock whose subprocess was not killed has its lock, such blocks share     *)
(* only shared locks, and an exception other than SystemExit leaves no lock *)
(* behind (fscache.py, _lock() and _lock_process()).                        *)
THEOREM LocksAlwaysHold == Spec => []LocksHold
<1>1. LockInv => LocksHold
  BY LockInvHolds DEF LocksHold
<1>2. Init => LockInv
  BY InitOfAll, InitLockInv
<1>3. LockInv /\ [Next]_vars => LockInv'
  BY StepOfOne, NextLockInv
<1> QED BY <1>1, <1>2, <1>3, PTL DEF Spec

(* The application stops with no graceful handler running, save those that  *)
(* began when it had decided to stop, and unless a request was refused      *)
(* before it was counted (graceful_shutdown.py).                            *)
THEOREM ApplicationStopsIdle == Spec => []StopsIdle
<1>1. ShutdownInv => StopsIdle
  BY DEF ShutdownInv, StopsIdle
<1>2. Init => ShutdownInv
  BY InitOfAll, InitShutdownInv
<1>3. ShutdownInv /\ [Next]_vars => ShutdownInv'
  BY StepOfOne, NextShutdownInv
<1> QED BY <1>1, <1>2, <1>3, PTL DEF Spec

(* Whatever fails, and whoever deletes the dataset meanwhile, its sketches  *)
(* are those of the indexed version but for the excuses (profiler.py 57-83, *)
(* the callback, and delete_dataset_from_lazo() in common.py).              *)
THEOREM SketchesFollowIndex == Spec => []SketchesMatch
<1>1. SketchInv => SketchesMatch
  BY SketchInvHolds DEF SketchesMatch
<1>2. Init => SketchInv
  BY InitOfAll, InitSketchInv
<1>3. SketchInv /\ [Next]_vars => SketchInv'
  BY StepOfOne, NextSketchInv
<1> QED BY <1>1, <1>2, <1>3, PTL DEF Spec

(* What a plugin has recorded as done has been ingested.  A Zenodo record   *)
(* of which the first file is known is known, or queued, as a whole, unless *)
(* its publication was cut short or it went offline.  When the recorded     *)
(* E-Tag is that of the UAZ database, each dataset of this version is       *)
(* stored and indexed or on its way, save those whose last write raised.    *)
THEOREM PluginsIngest == Spec => []IngestedTruthfully
<1>1. UazInv /\ ZenodoInv => IngestedTruthfully
  BY ZenodoInvComplete DEF UazInv, IngestedTruthfully
<1>2. Init => UazInv /\ ZenodoInv
  BY InitOfAll, InitUazInv, InitZenodoInv
<1>3. UazInv /\ ZenodoInv /\ [Next]_vars => UazInv' /\ ZenodoInv'
  BY StepOfOne, NextZenodoInv, NextUazInv
<1> QED BY <1>1, <1>2, <1>3, PTL DEF Spec

(* Each eviction keeps the newest entries that fit, and clears the others,  *)
(* whatever is created, locked or deleted meanwhile (cache.py,              *)
(* clear_caches()).                                                         *)
THEOREM NewestAreKept == Spec => []KeepsNewest
<1>1. EvictP!EvictionAssumption
  BY EvictionAssumption DEF EvictP!EvictionAssumption, EvictP!IsFiniteSet, IsFiniteSet
<1>2. EvictP!EvictInv => KeepsNewest
  BY EvictSame DEF EvictP!EvictInv, KeepsNewest
<1>3. Init => EvictP!EvictInv
  BY <1>1, EvictSame, EvictP!InitEvictInv DEF Init
<1>4. EvictP!EvictInv /\ [EvictP!Next]_(EvictP!evictionVars) => EvictP!EvictInv'
  BY <1>1, EvictP!NextEvictInv
<1>5. EvictP!EvictInv /\ [Next]_vars => EvictP!EvictInv'
  BY <1>4, StepOfOne, EvictSame
<1> QED BY <1>2, <1>3, <1>5, PTL DEF Spec


-----------------------------------------------------------------------------
(* A request that has to profile c, and has the file.                       *)
Creating(v, c) == requests[v].phase = "profile" /\ requests[v].data = c
Settled(c) == profiles[c] # "none" \/ c \in incomplete

(* Before a profile is written, its file is there; a file without a profile *)
(* is being profiled, or was not as it should; who is about to profile a    *)
(* file that is there already is late.                                      *)
Ready(w) ==
  LET c == requests[w].data IN
  /\ requests[w].phase \in {"get", "cache", "profile"} => c \in Contents
  /\ requests[w].phase = "cache" =>
       IF requests[w].known THEN Settled(c) ELSE profiles[c] = "none" \/ c \in incomplete
  /\ requests[w].phase = "profile" =>
       /\ ~requests[w].known /\ c \in files
       /\ requests[w].created \/ c \in incomplete \/ \E v \in Servers \ {w} : Creating(v, c)
ProfileInv ==
  /\ \A w \in Servers : Ready(w)
  /\ \A c \in files : Settled(c) \/ \E v \in Servers : Creating(v, c)
  /\ Data!ProfilesComplete

(* A result is made of what its key says, with some version of the dataset. *)
Made(key, result) ==
  /\ result.right \in 1..datasetVersion /\ result.format = key.format
  /\ result.left = IF key.data = Data!ById THEN result.right ELSE key.data
(* What is augmented is what was asked for, as far as it is converted.      *)
Answers(data, wanted) ==
  IF wanted.data = Data!ById THEN data = Data!ById
  ELSE data \in Contents /\ (data = Csv[wanted.data] \/ (wanted.posted /\ data = wanted.data))
Promised(w) ==
  /\ requests[w].phase # "idle" => requests[w].for \in {"profile", "augment"}
  /\ requests[w].phase \in {"augment", "send"} => requests[w].for = "augment"
  /\ requests[w].phase # "idle" /\ requests[w].for = "augment" =>
       Answers(requests[w].data, requests[w].asked)
  /\ requests[w].phase = "send" => Data!KeyOf(w) \in DOMAIN results
(* What was attached; later results of the same key are not older.          *)
Truthful(r) ==
  /\ Made(r.key, r.result) /\ r.key.format = r.format /\ Answers(r.key.data, r.asked)
  /\ r.key \in DOMAIN results => results[r.key].right >= r.result.right

SessionInv ==
  /\ \A w \in Servers : Promised(w)
  /\ \A k \in DOMAIN results : Made(k, results[k])
  /\ \A i \in DOMAIN session : Truthful(session[i])
  /\ given \subseteq files \cup evicted
  /\ refused \subseteq evicted

(* Requests are records of one kind: a step of a server keeps those of the  *)
(* others.                                                                  *)
LEMMA RequestGoes ==
  ASSUME requests \in [Servers -> Data!Request], NEW w \in Servers, NEW r \in Data!Request, Data!Goes(w, r)
  PROVE  /\ requests' \in [Servers -> Data!Request]
         /\ requests'[w] = r /\ \A v \in Servers \ {w} : requests'[v] = requests[v]
BY DEF Data!Goes

(* Where each step leads the request of its server.                         *)
LEMMA RequestMoves ==
  ASSUME Data!UserTypeOK, NEW w \in Servers
  PROVE  /\ \A c \in Contents : Data!Profile(w, c) =>
              \E r \in Data!Request : Data!Goes(w, r)
                /\ r.phase = "get" /\ r.for = "profile" /\ r.data = c
         /\ \A wanted \in Data!Asks, format \in Formats : Data!Augment(w, wanted, format) =>
              \/ UNCHANGED requests
              \/ \E r \in Data!Request : Data!Goes(w, r)
                   /\ r.for = "augment" /\ r.asked = wanted
                   /\ r.phase = (IF wanted.data = Data!ById THEN "augment" ELSE "get")
                   /\ r.data = (IF wanted.data = Data!ById \/ wanted.posted THEN wanted.data ELSE Csv[wanted.data])
         /\ Data!GetProfile(w) =>
              \E r \in Data!Request : Data!Goes(w, r)
                /\ r.phase = "cache" /\ r.known = (profiles[requests[w].data] # "none")
                /\ r.for = requests[w].for /\ r.data = requests[w].data /\ r.asked = requests[w].asked
         /\ Data!EnterCache(w) /\ ~requests[w].known =>
              \E r \in Data!Request : Data!Goes(w, r)
                /\ r.phase = "profile" /\ ~r.known /\ r.created = (requests[w].data \notin files)
                /\ r.for = requests[w].for /\ r.data = requests[w].data /\ r.asked = requests[w].asked
         /\ (Data!EnterCache(w) /\ requests[w].known) \/ Data!SetProfile(w) =>
              \E r \in Data!Request : Data!Goes(w, r)
                /\ IF requests[w].for = "profile" THEN r.phase = "idle"
                   ELSE /\ r.phase = "augment" /\ r.for = requests[w].for
                        /\ r.data = requests[w].data /\ r.asked = requests[w].asked
         /\ Data!ProfileFails(w) \/ Data!AttachToSession(w) =>
              \E r \in Data!Request : Data!Goes(w, r) /\ r.phase = "idle"
         /\ Data!CreateAug(w) =>
              \E r \in Data!Request : Data!Goes(w, r) /\ r.phase = "send"
                /\ r.for = requests[w].for /\ r.data = requests[w].data /\ r.asked = requests[w].asked
                /\ r.format = requests[w].format
<1> requests[w] \in Data!Request
  BY DEF Data!UserTypeOK
<1>1. ASSUME NEW c \in Contents, Data!Profile(w, c)
      PROVE  \E r \in Data!Request : Data!Goes(w, r) /\ r.phase = "get" /\ r.for = "profile" /\ r.data = c
  <2> DEFINE r == [Data!Idle EXCEPT !.phase = "get", !.for = "profile", !.data = c]
  <2>1. r \in Data!Request /\ r.phase = "get" /\ r.for = "profile" /\ r.data = c
    BY DEF Data!Idle, Data!Request, Data!Asks, Data!Dataset, Data!ById
  <2>2. Data!Goes(w, r)
    BY <1>1 DEF Data!Profile
  <2> QED BY <2>1, <2>2
<1>2. ASSUME NEW wanted \in Data!Asks, NEW format \in Formats, Data!Augment(w, wanted, format)
      PROVE  \/ UNCHANGED requests
             \/ \E r \in Data!Request : Data!Goes(w, r)
                  /\ r.for = "augment" /\ r.asked = wanted
                  /\ r.phase = (IF wanted.data = Data!ById THEN "augment" ELSE "get")
                  /\ r.data = (IF wanted.data = Data!ById \/ wanted.posted THEN wanted.data ELSE Csv[wanted.data])
  <2> DEFINE begins == IF wanted.data = Data!ById THEN "augment" ELSE "get"
             data == IF wanted.data = Data!ById \/ wanted.posted THEN wanted.data ELSE Csv[wanted.data]
             r == [Data!Idle EXCEPT !.phase = begins, !.for = "augment", !.data = data, !.asked = wanted, !.format = format]
  <2>1. begins \in {"augment", "get"}
    OBVIOUS
  <2>2. data \in Contents \cup {Data!ById}
    BY ContentsAssumption DEF Data!Asks, Data!Dataset
  <2>3. UNCHANGED requests \/ Data!Goes(w, r)
    BY <1>2 DEF Data!Augment
  <2> HIDE DEF begins, data
  <2>4. r \in Data!Request /\ r.phase = begins /\ r.for = "augment" /\ r.data = data /\ r.asked = wanted
    BY <2>1, <2>2 DEF Data!Idle, Data!Request, Data!Asks, Data!Dataset, Data!ById
  <2>5. /\ r.phase = (IF wanted.data = Data!ById THEN "augment" ELSE "get")
        /\ r.data = (IF wanted.data = Data!ById \/ wanted.posted THEN wanted.data ELSE Csv[wanted.data])
    BY <2>4 DEF begins, data
  <2> HIDE DEF r
  <2>6. CASE Data!Goes(w, r)
    BY <2>4, <2>5, <2>6
  <2> QED BY <2>3, <2>6
<1>3. ASSUME Data!GetProfile(w)
      PROVE  \E r \in Data!Request : Data!Goes(w, r)
               /\ r.phase = "cache" /\ r.known = (profiles[requests[w].data] # "none")
               /\ r.for = requests[w].for /\ r.data = requests[w].data /\ r.asked = requests[w].asked
  <2> DEFINE recorded == profiles[requests[w].data] # "none"
             r == [requests[w] EXCEPT !.phase = "cache", !.known = recorded]
  <2>1. recorded \in BOOLEAN
    OBVIOUS
  <2>2. Data!Goes(w, r)
    BY <1>3 DEF Data!GetProfile
  <2> HIDE DEF recorded
  <2>3. /\ r \in Data!Request /\ r.phase = "cache" /\ r.known = recorded
        /\ r.for = requests[w].for /\ r.data = requests[w].data /\ r.asked = requests[w].asked
    BY <2>1 DEF Data!Request
  <2> HIDE DEF r
  <2> QED BY <2>2, <2>3 DEF recorded
<1>4. ASSUME Data!EnterCache(w), ~requests[w].known
      PROVE  \E r \in Data!Request : Data!Goes(w, r)
                /\ r.phase = "profile" /\ ~r.known /\ r.created = (requests[w].data \notin files)
                /\ r.for = requests[w].for /\ r.data = requests[w].data /\ r.asked = requests[w].asked
  <2> DEFINE created == requests[w].data \notin files
             r == [requests[w] EXCEPT !.phase = "profile", !.created = created]
  <2>1. created \in BOOLEAN
    OBVIOUS
  <2>2. Data!Goes(w, r)
    BY <1>4 DEF Data!EnterCache
  <2> HIDE DEF created
  <2>3. /\ r \in Data!Request /\ r.phase = "profile" /\ ~r.known /\ r.created = created
        /\ r.for = requests[w].for /\ r.data = requests[w].data /\ r.asked = requests[w].asked
    BY <1>4, <2>1 DEF Data!Request
  <2> HIDE DEF r
  <2> QED BY <2>2, <2>3 DEF created
<1>5. ASSUME (Data!EnterCache(w) /\ requests[w].known) \/ Data!SetProfile(w)
      PROVE  \E r \in Data!Request : Data!Goes(w, r)
                /\ IF requests[w].for = "profile" THEN r.phase = "idle"
                   ELSE /\ r.phase = "augment" /\ r.for = requests[w].for
                        /\ r.data = requests[w].data /\ r.asked = requests[w].asked
  <2>1. Data!Goes(w, Data!Ended(w))
    BY <1>5 DEF Data!EnterCache, Data!SetProfile
  <2>2. CASE requests[w].for = "profile"
    <3>1. Data!Ended(w) \in Data!Request /\ Data!Ended(w).phase = "idle"
      BY <2>2 DEF Data!Ended, Data!Idle, Data!Request, Data!Asks, Data!Dataset, Data!ById
    <3> QED BY <2>1, <2>2, <3>1
  <2>3. CASE requests[w].for # "profile"
    <3> DEFINE r == [requests[w] EXCEPT !.phase = "augment"]
    <3>1. /\ r \in Data!Request /\ r.phase = "augment"
          /\ r.for = requests[w].for /\ r.data = requests[w].data /\ r.asked = requests[w].asked
      BY DEF Data!Request
    <3>2. Data!Goes(w, r)
      BY <2>1, <2>3 DEF Data!Ended
    <3> HIDE DEF r
    <3> QED BY <2>3, <3>1, <3>2
  <2> QED BY <2>2, <2>3
<1>6. ASSUME Data!ProfileFails(w) \/ Data!AttachToSession(w)
      PROVE  \E r \in Data!Request : Data!Goes(w, r) /\ r.phase = "idle"
  <2>1. Data!Goes(w, Data!Idle)
    BY <1>6 DEF Data!ProfileFails, Data!AttachToSession
  <2>2. Data!Idle \in Data!Request /\ Data!Idle.phase = "idle"
    BY DEF Data!Idle, Data!Request, Data!Asks, Data!Dataset, Data!ById
  <2> QED BY <2>1, <2>2
<1>7. ASSUME Data!CreateAug(w)
      PROVE  \E r \in Data!Request : Data!Goes(w, r) /\ r.phase = "send"
                /\ r.for = requests[w].for /\ r.data = requests[w].data /\ r.asked = requests[w].asked
                /\ r.format = requests[w].format
  <2> DEFINE r == [requests[w] EXCEPT !.phase = "send"]
  <2>1. /\ r \in Data!Request /\ r.phase = "send"
        /\ r.for = requests[w].for /\ r.data = requests[w].data /\ r.asked = requests[w].asked
        /\ r.format = requests[w].format
    BY DEF Data!Request
  <2>2. Data!Goes(w, r)
    BY <1>7 DEF Data!CreateAug
  <2> HIDE DEF r
  <2> QED BY <2>1, <2>2
<1> QED BY <1>1, <1>2, <1>3, <1>4, <1>5, <1>6, <1>7

(* Everything keeps its type.                                               *)
LEMMA UserTypesMove ==
  ASSUME Data!UserTypeOK, ProfileInv, SessionInv, [Data!Next]_userVars
  PROVE  Data!UserTypeOK'
<1> USE ContentsAssumption DEF Data!UserTypeOK, Data!Asked, Data!Fault
<1>1. ASSUME NEW w \in Servers, NEW c \in Contents, Data!Profile(w, c)
      PROVE  Data!UserTypeOK'
  <2>1. requests' \in [Servers -> Data!Request]
    BY <1>1, RequestMoves, RequestGoes
  <2> QED BY <1>1, <2>1 DEF Data!Profile
<1>2. ASSUME NEW w \in Servers, NEW wanted \in Data!Asks, NEW format \in Formats, Data!Augment(w, wanted, format)
      PROVE  Data!UserTypeOK'
  <2>1. requests' \in [Servers -> Data!Request]
    BY <1>2, RequestMoves, RequestGoes
  <2>2. refused' \subseteq Contents
    BY <1>2 DEF Data!Augment
  <2> QED BY <1>2, <2>1, <2>2 DEF Data!Augment
<1>3. ASSUME NEW w \in Servers, Data!GetProfile(w)
      PROVE  Data!UserTypeOK'
  <2>1. requests' \in [Servers -> Data!Request]
    BY <1>3, RequestMoves, RequestGoes
  <2> QED BY <1>3, <2>1 DEF Data!GetProfile
<1>4. ASSUME NEW w \in Servers, ProfileInv, Data!EnterCache(w)
      PROVE  Data!UserTypeOK'
  <2>1. requests' \in [Servers -> Data!Request]
    BY <1>4, RequestMoves, RequestGoes
  <2>2. requests[w].data \in Contents
    BY <1>4 DEF ProfileInv, Ready, Data!EnterCache
  <2> QED BY <1>4, <2>1, <2>2 DEF Data!EnterCache, Data!Answered
<1>5. ASSUME NEW w \in Servers, ProfileInv, Data!SetProfile(w)
      PROVE  Data!UserTypeOK'
  <2>1. requests' \in [Servers -> Data!Request]
    BY <1>5, RequestMoves, RequestGoes
  <2>2. requests[w].data \in Contents
    BY <1>5 DEF ProfileInv, Ready, Data!SetProfile
  <2> QED BY <1>5, <2>1, <2>2 DEF Data!SetProfile, Data!Answered
<1>6. ASSUME NEW w \in Servers, ProfileInv, Data!ProfileFails(w)
      PROVE  Data!UserTypeOK'
  <2>1. requests' \in [Servers -> Data!Request]
    BY <1>6, RequestMoves, RequestGoes
  <2>2. requests[w].data \in Contents
    BY <1>6 DEF ProfileInv, Ready, Data!ProfileFails
  <2> QED BY <1>6, <2>1, <2>2 DEF Data!ProfileFails
<1>7. ASSUME NEW w \in Servers, Data!CreateAug(w)
      PROVE  Data!UserTypeOK'
  <2>1. requests' \in [Servers -> Data!Request]
    BY <1>7, RequestMoves, RequestGoes
  <2> DEFINE k == Data!KeyOf(w)
             made == Data!Result(w)
  <2>2. requests[w] \in Data!Request /\ requests[w].data \in Contents \cup {Data!ById}
    BY DEF Data!Request
  <2>3. k \in Data!Keys
    BY <2>2 DEF Data!KeyOf, Data!Key, Data!Keys, Data!Request
  <2>4. made \in Data!Results
    BY <2>2 DEF Data!Result, Data!Results, Data!Request
  <2>5. \/ results' = results
        \/ results' = [x \in DOMAIN results \cup {k} |-> IF x = k THEN made ELSE results[x]]
    BY <1>7 DEF Data!CreateAug
  <2> HIDE DEF k, made
  <2>6. DOMAIN results' \subseteq Data!Keys /\ \A x \in DOMAIN results' : results'[x] \in Data!Results
    BY <2>3, <2>4, <2>5
  <2> QED BY <1>7, <2>1, <2>6 DEF Data!CreateAug
<1>8. ASSUME NEW w \in Servers, SessionInv, Data!AttachToSession(w)
      PROVE  Data!UserTypeOK'
  <2>1. requests' \in [Servers -> Data!Request] /\ requests[w] \in Data!Request
    BY <1>8, RequestMoves, RequestGoes
  <2> DEFINE k == Data!KeyOf(w)
             entry == [key |-> k, result |-> results[k], asked |-> requests[w].asked, format |-> requests[w].format]
  <2>2. k \in DOMAIN results /\ k = [data |-> requests[w].data, format |-> requests[w].format]
    BY <1>8 DEF SessionInv, Promised, Data!AttachToSession, Data!KeyOf, Data!Key
  <2>3. results[k] \in Data!Results /\ k \in Data!Keys
    BY <2>2
  <2>5. requests[w].asked \in Data!Asks /\ requests[w].format \in Formats \cup {"none"}
    BY <2>1 DEF Data!Request
  <2>6. session' = Append(session, entry)
    BY <1>8 DEF Data!AttachToSession
  <2> HIDE DEF k
  <2>7. entry \in Data!Attached
    BY <2>3, <2>5 DEF Data!Attached
  <2> HIDE DEF entry
  <2>8. session' \in Seq(Data!Attached)
    BY <2>6, <2>7
  <2> QED BY <1>8, <2>1, <2>8 DEF Data!AttachToSession
<1>9. ASSUME NEW c \in Contents, Data!EvictFile(c) \/ Data!DropProfile(c)
      PROVE  Data!UserTypeOK'
  BY <1>9 DEF Data!EvictFile, Data!DropProfile
<1>10. CASE Data!DropSession
  <2>1. session' \in Seq(Data!Attached)
    BY <1>10 DEF Data!DropSession
  <2> QED BY <1>10, <2>1 DEF Data!DropSession
<1>13. ASSUME NEW key \in DOMAIN results, Data!EvictAug(key)
      PROVE  Data!UserTypeOK'
  BY <1>13 DEF Data!EvictAug
<1>12. CASE Data!UpdateDataset
  BY <1>12 DEF Data!UpdateDataset
<1>11. CASE UNCHANGED userVars
  BY <1>11 DEF userVars
<1> QED BY <1>1, <1>2, <1>3, <1>4, <1>5, <1>6, <1>7, <1>8, <1>9, <1>10, <1>11, <1>12, <1>13 DEF Data!Next

(* The files and the profiles of clients.                                   *)
LEMMA ProfilesMove ==
  ASSUME Data!UserTypeOK, ProfileInv, [Data!Next]_userVars
  PROVE  ProfileInv'
<1> USE DEF ProfileInv
<1> USE ContentsAssumption
<1>0. files \subseteq Contents /\ requests \in [Servers -> Data!Request] /\ profiles \in [Contents -> {"none", "complete", "bare"}]
  BY DEF Data!UserTypeOK
<1>1. ASSUME NEW w \in Servers, NEW c \in Contents, Data!Profile(w, c)
      PROVE  ProfileInv'
  <2>1. PICK r \in Data!Request : Data!Goes(w, r) /\ r.phase = "get" /\ r.data = c
    BY <1>1, RequestMoves
  <2>2. requests'[w] = r /\ \A v \in Servers \ {w} : requests'[v] = requests[v]
    BY <1>0, <2>1, RequestGoes
  <2>3. UNCHANGED <<profiles, files, incomplete>>
    BY <1>1 DEF Data!Profile
  <2>4. \A v \in Servers, d \in Contents : Creating(v, d)' <=> Creating(v, d)
    BY <1>1, <2>1, <2>2 DEF Creating, Data!Profile, Data!Idle
  <2>5. \A v \in Servers \ {w} : Ready(v)'
    BY <2>2, <2>3, <2>4 DEF Ready, Settled
  <2>6. Ready(w)'
    BY <1>1, <2>1, <2>2, <2>3 DEF Ready, Settled, Data!Profile
  <2> QED BY <1>0, <2>3, <2>4, <2>5, <2>6 DEF Data!ProfilesComplete, Settled
<1>2. ASSUME NEW w \in Servers, NEW wanted \in Data!Asks, NEW format \in Formats, Data!Augment(w, wanted, format)
      PROVE  ProfileInv'
  <2>1. \/ UNCHANGED requests
        \/ \E r \in Data!Request : Data!Goes(w, r)
             /\ r.phase \in {"augment", "get"} /\ (r.phase = "get" => r.data \in Contents)
    <3>1. wanted.data # Data!ById => wanted.data \in Contents /\ Csv[wanted.data] \in Contents
      BY DEF Data!Asks, Data!Dataset
    <3> QED BY <1>2, <3>1, RequestMoves
  <2>2. \/ UNCHANGED requests
        \/ /\ requests'[w].phase \in {"augment", "get"}
           /\ requests'[w].phase = "get" => requests'[w].data \in Contents
           /\ \A v \in Servers \ {w} : requests'[v] = requests[v]
    BY <1>0, <2>1, RequestGoes
  <2>3. UNCHANGED <<profiles, files, incomplete>>
    BY <1>2 DEF Data!Augment
  <2>4. \A v \in Servers, d \in Contents : Creating(v, d)' <=> Creating(v, d)
    BY <1>2, <2>2 DEF Creating, Data!Augment, Data!Idle
  <2>5. \A v \in Servers : Ready(v)'
    BY <2>2, <2>3, <2>4 DEF Ready, Settled
  <2> QED BY <1>0, <2>3, <2>4, <2>5 DEF Data!ProfilesComplete, Settled
<1>3. ASSUME NEW w \in Servers, Data!GetProfile(w)
      PROVE  ProfileInv'
  <2>1. PICK r \in Data!Request : Data!Goes(w, r) /\ r.phase = "cache" /\ r.known = (profiles[requests[w].data] # "none") /\ r.data = requests[w].data
    BY <1>3, RequestMoves
  <2>2. requests'[w] = r /\ \A v \in Servers \ {w} : requests'[v] = requests[v]
    BY <1>0, <2>1, RequestGoes
  <2>3. UNCHANGED <<profiles, files, incomplete>>
    BY <1>3 DEF Data!GetProfile
  <2>4. \A v \in Servers, d \in Contents : Creating(v, d)' <=> Creating(v, d)
    BY <1>3, <2>1, <2>2 DEF Creating, Data!GetProfile, Data!Idle
  <2>5. \A v \in Servers \ {w} : Ready(v)'
    BY <2>2, <2>3, <2>4 DEF Ready, Settled
  <2>6. Ready(w)'
    BY <1>3, <2>1, <2>2, <2>3 DEF Ready, Settled, Data!GetProfile
  <2> QED BY <1>0, <2>3, <2>4, <2>5, <2>6 DEF Data!ProfilesComplete, Settled
<1>4. ASSUME NEW w \in Servers, Data!EnterCache(w), ~requests[w].known
      PROVE  ProfileInv'
  <2>1. PICK r \in Data!Request : Data!Goes(w, r) /\ r.phase = "profile" /\ ~r.known /\ r.created = (requests[w].data \notin files) /\ r.data = requests[w].data
    BY <1>4, RequestMoves
  <2>2. requests'[w] = r /\ \A v \in Servers \ {w} : requests'[v] = requests[v]
    BY <1>0, <2>1, RequestGoes
  <2>3. requests[w].phase = "cache" /\ files' = files \cup {r.data} /\ UNCHANGED <<profiles, incomplete>>
    BY <1>4, <2>1 DEF Data!EnterCache
  <2>4. \A v \in Servers \ {w}, d \in Contents : Creating(v, d)' <=> Creating(v, d)
    BY <2>2 DEF Creating
  <2>5. Creating(w, r.data)' /\ \A d : ~Creating(w, d)
    BY <2>1, <2>2, <2>3 DEF Creating
  <2>6. \A v \in Servers \ {w} : Ready(v)'
    BY <1>0, <2>2, <2>3, <2>4, <2>5 DEF Ready, Settled
  <2>7. r.data \in Contents /\ (profiles[r.data] = "none" \/ r.data \in incomplete)
    BY <1>4, <2>1, <2>3 DEF Ready
  <2>8. Ready(w)'
    <3>1. CASE r.data \in files
      <4>1. r.data \in incomplete \/ \E v \in Servers \ {w} : Creating(v, r.data)
        BY <2>5, <2>7, <3>1 DEF Settled
      <4> QED BY <2>1, <2>2, <2>3, <2>4, <2>7, <4>1 DEF Ready
    <3>2. CASE r.data \notin files
      BY <2>1, <2>2, <2>3, <2>7, <3>2 DEF Ready
    <3> QED BY <3>1, <3>2
  <2>9. \A d \in files' : Settled(d)' \/ \E v \in Servers : Creating(v, d)'
    BY <1>0, <2>3, <2>4, <2>5 DEF Settled
  <2> QED BY <2>3, <2>6, <2>8, <2>9 DEF Data!ProfilesComplete
<1>5. ASSUME NEW w \in Servers, Data!EnterCache(w), requests[w].known
      PROVE  ProfileInv'
  <2>1. PICK r \in Data!Request : Data!Goes(w, r) /\ r.phase \in {"idle", "augment"}
    BY <1>5, RequestMoves
  <2>2. requests'[w] = r /\ \A v \in Servers \ {w} : requests'[v] = requests[v]
    BY <1>0, <2>1, RequestGoes
  <2> QED BY <1>0, <1>5, <2>1, <2>2 DEF Data!EnterCache, Creating, Settled, Ready, Data!ProfilesComplete
<1>6. ASSUME NEW w \in Servers, Data!SetProfile(w)
      PROVE  ProfileInv'
  <2>1. PICK r \in Data!Request : Data!Goes(w, r) /\ r.phase \in {"idle", "augment"}
    BY <1>6, RequestMoves
  <2>2. requests'[w] = r /\ \A v \in Servers \ {w} : requests'[v] = requests[v]
    BY <1>0, <2>1, RequestGoes
  <2> QED BY <1>0, <1>6, <2>1, <2>2 DEF Data!SetProfile, Data!Profiling, Creating, Settled, Ready, Data!ProfilesComplete
<1>7. ASSUME NEW w \in Servers, Data!ProfileFails(w)
      PROVE  ProfileInv'
  <2>1. PICK r \in Data!Request : Data!Goes(w, r) /\ r.phase = "idle"
    BY <1>7, RequestMoves
  <2>2. requests'[w] = r /\ \A v \in Servers \ {w} : requests'[v] = requests[v]
    BY <1>0, <2>1, RequestGoes
  <2> QED BY <1>0, <1>7, <2>1, <2>2 DEF Data!ProfileFails, Creating, Settled, Ready, Data!ProfilesComplete
<1>8. ASSUME NEW w \in Servers, Data!CreateAug(w)
      PROVE  ProfileInv'
  <2>1. PICK r \in Data!Request : Data!Goes(w, r) /\ r.phase = "send"
    BY <1>8, RequestMoves
  <2>2. requests'[w] = r /\ \A v \in Servers \ {w} : requests'[v] = requests[v]
    BY <1>0, <2>1, RequestGoes
  <2> QED BY <1>0, <1>8, <2>1, <2>2 DEF Data!CreateAug, Creating, Settled, Ready, Data!ProfilesComplete
<1>9. ASSUME NEW w \in Servers, Data!AttachToSession(w)
      PROVE  ProfileInv'
  <2>1. PICK r \in Data!Request : Data!Goes(w, r) /\ r.phase = "idle"
    BY <1>9, RequestMoves
  <2>2. requests'[w] = r /\ \A v \in Servers \ {w} : requests'[v] = requests[v]
    BY <1>0, <2>1, RequestGoes
  <2> QED BY <1>0, <1>9, <2>1, <2>2 DEF Data!AttachToSession, Creating, Settled, Ready, Data!ProfilesComplete
<1>10. ASSUME NEW c \in Contents, Data!EvictFile(c)
      PROVE  ProfileInv'
  BY <1>0, <1>10 DEF Data!EvictFile, Creating, Settled, Ready, Data!ProfilesComplete
<1>11. ASSUME NEW c \in Contents, Data!DropProfile(c)
      PROVE  ProfileInv'
  BY <1>0, <1>11 DEF Data!DropProfile, Creating, Settled, Ready, Data!ProfilesComplete
<1>12. CASE Data!DropSession \/ Data!UpdateDataset \/ \E key \in DOMAIN results : Data!EvictAug(key)
  <2>1. UNCHANGED <<requests, profiles, files, incomplete>>
    BY <1>12 DEF Data!DropSession, Data!UpdateDataset, Data!EvictAug
  <2> QED BY <2>1 DEF Creating, Settled, Ready, Data!ProfilesComplete
<1>13. CASE UNCHANGED userVars
  BY <1>13 DEF userVars, Creating, Settled, Ready, Data!ProfilesComplete
<1> QED BY <1>1, <1>2, <1>3, <1>4, <1>5, <1>6, <1>7, <1>8, <1>9, <1>10, <1>11, <1>12, <1>13 DEF Data!Next

(* The requests, the results and the sessions of clients.  A step that only *)
(* concerns the request of one server:                                      *)
LEMMA OneRequest ==
  ASSUME Data!UserTypeOK, SessionInv, NEW w \in Servers, NEW r \in Data!Request, Data!Goes(w, r),
         UNCHANGED <<results, session, datasetVersion, evicted>>,
         r.phase # "idle" => r.for \in {"profile", "augment"},
         r.phase = "augment" => r.for = "augment", r.phase # "send",
         r.phase # "idle" /\ r.for = "augment" => Answers(r.data, r.asked),
         given' \subseteq files' \cup evicted, refused' \subseteq evicted
  PROVE  SessionInv'
<1>1. requests'[w] = r /\ \A v \in Servers \ {w} : requests'[v] = requests[v]
  BY RequestGoes DEF Data!UserTypeOK
<1>2. \A v \in Servers \ {w} : Promised(v)'
  BY <1>1 DEF SessionInv, Promised, Answers, Data!KeyOf
<1>3. Promised(w)'
  BY <1>1 DEF Promised, Answers
<1>4. \A k, result : Made(k, result)' <=> Made(k, result)
  BY DEF Made
<1>5. \A e : Truthful(e)' <=> Truthful(e)
  BY <1>4 DEF Truthful, Answers
<1> QED BY <1>2, <1>3, <1>4, <1>5 DEF SessionInv

LEMMA SessionsMove ==
  ASSUME Data!UserTypeOK, ProfileInv, SessionInv, [Data!Next]_userVars
  PROVE  SessionInv'
<1> USE ContentsAssumption
<1>0. \A w \in Servers : Ready(w) /\ Promised(w) /\ requests[w] \in Data!Request
  BY DEF ProfileInv, SessionInv, Data!UserTypeOK
<1>1. ASSUME NEW w \in Servers, NEW c \in Contents, Data!Profile(w, c)
      PROVE  SessionInv'
  <2>1. PICK r \in Data!Request : Data!Goes(w, r) /\ (r.phase = "get" /\ r.for = "profile")
    BY <1>1, RequestMoves
  <2>2. UNCHANGED <<results, session, datasetVersion, evicted, refused>>
    BY <1>1 DEF Data!Profile
  <2>3. given' \subseteq files' \cup evicted
    BY <1>0, <1>1 DEF SessionInv, Ready, Data!Profile, Data!Answered
  <2>4. requests[w].phase # "idle" \/ r.phase \in {"idle", "get"}
    BY <1>1, <2>1 DEF Data!Profile
  <2>5. r.phase # "idle" => r.for \in {"profile", "augment"}
    BY <1>0, <2>1, <2>4 DEF Promised
  <2>6. r.phase = "augment" => r.for = "augment"
    BY <1>0, <2>1, <2>4 DEF Promised
  <2>7. r.phase # "idle" /\ r.for = "augment" => Answers(r.data, r.asked)
    BY <1>0, <2>1, <2>4 DEF Promised
  <2> QED BY <2>1, <2>2, <2>3, <2>5, <2>6, <2>7, OneRequest DEF SessionInv
<1>2. ASSUME NEW w \in Servers, NEW wanted \in Data!Asks, NEW format \in Formats, Data!Augment(w, wanted, format)
      PROVE  SessionInv'
  <2>1. /\ UNCHANGED <<files, results, session, datasetVersion, evicted, given>>
        /\ refused' = refused \/ (refused' = refused \cup {wanted.data} /\ wanted.data \in given \ files)
    BY <1>2 DEF Data!Augment, Data!Asks, Data!Dataset, Data!ById
  <2>2. given' \subseteq files' \cup evicted /\ refused' \subseteq evicted
    BY <2>1 DEF SessionInv
  <2>3. CASE UNCHANGED requests
    BY <2>1, <2>2, <2>3 DEF SessionInv, Promised, Answers, Made, Truthful, Data!KeyOf
  <2>4. ASSUME NEW r \in Data!Request, Data!Goes(w, r), r.for = "augment", r.asked = wanted,
               r.phase = (IF wanted.data = Data!ById THEN "augment" ELSE "get"),
               r.data = (IF wanted.data = Data!ById \/ wanted.posted THEN wanted.data ELSE Csv[wanted.data])
        PROVE  SessionInv'
    <3>1. wanted.data # Data!ById => wanted.data \in Contents /\ Csv[wanted.data] \in Contents
      BY DEF Data!Asks, Data!Dataset
    <3>2. Answers(r.data, r.asked)
      BY <2>4, <3>1 DEF Answers
    <3> QED BY <2>1, <2>2, <2>4, <3>2, OneRequest
  <2> QED BY <1>2, <2>3, <2>4, RequestMoves
<1>3. ASSUME NEW w \in Servers, Data!GetProfile(w)
      PROVE  SessionInv'
  <2>1. PICK r \in Data!Request : Data!Goes(w, r) /\ (r.phase = "cache" /\ r.for = requests[w].for /\ r.data = requests[w].data /\ r.asked = requests[w].asked)
    BY <1>3, RequestMoves
  <2>2. UNCHANGED <<results, session, datasetVersion, evicted, refused>>
    BY <1>3 DEF Data!GetProfile
  <2>3. given' \subseteq files' \cup evicted
    BY <1>0, <1>3 DEF SessionInv, Ready, Data!GetProfile, Data!Answered
  <2>4. requests[w].phase # "idle" \/ r.phase \in {"idle", "get"}
    BY <1>3, <2>1 DEF Data!GetProfile
  <2>5. r.phase # "idle" => r.for \in {"profile", "augment"}
    BY <1>0, <2>1, <2>4 DEF Promised
  <2>6. r.phase = "augment" => r.for = "augment"
    BY <1>0, <2>1, <2>4 DEF Promised
  <2>7. r.phase # "idle" /\ r.for = "augment" => Answers(r.data, r.asked)
    BY <1>0, <2>1, <2>4 DEF Promised
  <2> QED BY <2>1, <2>2, <2>3, <2>5, <2>6, <2>7, OneRequest DEF SessionInv
<1>4. ASSUME NEW w \in Servers, Data!EnterCache(w), ~requests[w].known
      PROVE  SessionInv'
  <2>1. PICK r \in Data!Request : Data!Goes(w, r) /\ (r.phase = "profile" /\ r.for = requests[w].for /\ r.data = requests[w].data /\ r.asked = requests[w].asked)
    BY <1>4, RequestMoves
  <2>2. UNCHANGED <<results, session, datasetVersion, evicted, refused>>
    BY <1>4 DEF Data!EnterCache
  <2>3. given' \subseteq files' \cup evicted
    BY <1>0, <1>4 DEF SessionInv, Ready, Data!EnterCache, Data!Answered
  <2>4. requests[w].phase # "idle" \/ r.phase \in {"idle", "get"}
    BY <1>4, <2>1 DEF Data!EnterCache
  <2>5. r.phase # "idle" => r.for \in {"profile", "augment"}
    BY <1>0, <2>1, <2>4 DEF Promised
  <2>6. r.phase = "augment" => r.for = "augment"
    BY <1>0, <2>1, <2>4 DEF Promised
  <2>7. r.phase # "idle" /\ r.for = "augment" => Answers(r.data, r.asked)
    BY <1>0, <2>1, <2>4 DEF Promised
  <2> QED BY <2>1, <2>2, <2>3, <2>5, <2>6, <2>7, OneRequest DEF SessionInv
<1>5. ASSUME NEW w \in Servers, Data!EnterCache(w), requests[w].known
      PROVE  SessionInv'
  <2>1. PICK r \in Data!Request : Data!Goes(w, r) /\ (IF requests[w].for = "profile" THEN r.phase = "idle"
                 ELSE r.phase = "augment" /\ r.for = requests[w].for /\ r.data = requests[w].data
                      /\ r.asked = requests[w].asked)
    BY <1>5, RequestMoves
  <2>2. UNCHANGED <<results, session, datasetVersion, evicted, refused>>
    BY <1>5 DEF Data!EnterCache
  <2>3. given' \subseteq files' \cup evicted
    BY <1>0, <1>5 DEF SessionInv, Ready, Data!EnterCache, Data!Answered
  <2>4. requests[w].phase # "idle" \/ r.phase \in {"idle", "get"}
    BY <1>5, <2>1 DEF Data!EnterCache
  <2>5. r.phase # "idle" => r.for \in {"profile", "augment"}
    BY <1>0, <2>1, <2>4 DEF Promised
  <2>6. r.phase = "augment" => r.for = "augment"
    BY <1>0, <2>1, <2>4 DEF Promised
  <2>7. r.phase # "idle" /\ r.for = "augment" => Answers(r.data, r.asked)
    BY <1>0, <2>1, <2>4 DEF Promised
  <2> QED BY <2>1, <2>2, <2>3, <2>5, <2>6, <2>7, OneRequest DEF SessionInv
<1>6. ASSUME NEW w \in Servers, Data!SetProfile(w)
      PROVE  SessionInv'
  <2>1. PICK r \in Data!Request : Data!Goes(w, r) /\ (IF requests[w].for = "profile" THEN r.phase = "idle"
                 ELSE r.phase = "augment" /\ r.for = requests[w].for /\ r.data = requests[w].data
                      /\ r.asked = requests[w].asked)
    BY <1>6, RequestMoves
  <2>2. UNCHANGED <<results, session, datasetVersion, evicted, refused>>
    BY <1>6 DEF Data!SetProfile
  <2>3. given' \subseteq files' \cup evicted
    BY <1>0, <1>6 DEF SessionInv, Ready, Data!SetProfile, Data!Answered
  <2>4. requests[w].phase # "idle" \/ r.phase \in {"idle", "get"}
    BY <1>6, <2>1 DEF Data!SetProfile
  <2>5. r.phase # "idle" => r.for \in {"profile", "augment"}
    BY <1>0, <2>1, <2>4 DEF Promised
  <2>6. r.phase = "augment" => r.for = "augment"
    BY <1>0, <2>1, <2>4 DEF Promised
  <2>7. r.phase # "idle" /\ r.for = "augment" => Answers(r.data, r.asked)
    BY <1>0, <2>1, <2>4 DEF Promised
  <2> QED BY <2>1, <2>2, <2>3, <2>5, <2>6, <2>7, OneRequest DEF SessionInv
<1>7. ASSUME NEW w \in Servers, Data!ProfileFails(w)
      PROVE  SessionInv'
  <2>1. PICK r \in Data!Request : Data!Goes(w, r) /\ (r.phase = "idle")
    BY <1>7, RequestMoves
  <2>2. UNCHANGED <<results, session, datasetVersion, evicted, refused>>
    BY <1>7 DEF Data!ProfileFails
  <2>3. given' \subseteq files' \cup evicted
    BY <1>0, <1>7 DEF SessionInv, Ready, Data!ProfileFails, Data!Answered
  <2>4. requests[w].phase # "idle" \/ r.phase \in {"idle", "get"}
    BY <1>7, <2>1 DEF Data!ProfileFails
  <2>5. r.phase # "idle" => r.for \in {"profile", "augment"}
    BY <1>0, <2>1, <2>4 DEF Promised
  <2>6. r.phase = "augment" => r.for = "augment"
    BY <1>0, <2>1, <2>4 DEF Promised
  <2>7. r.phase # "idle" /\ r.for = "augment" => Answers(r.data, r.asked)
    BY <1>0, <2>1, <2>4 DEF Promised
  <2> QED BY <2>1, <2>2, <2>3, <2>5, <2>6, <2>7, OneRequest DEF SessionInv
<1>8. ASSUME NEW w \in Servers, Data!CreateAug(w)
      PROVE  SessionInv'
  <2>1. PICK r \in Data!Request : Data!Goes(w, r) /\ r.phase = "send" /\ r.for = requests[w].for
            /\ r.data = requests[w].data /\ r.asked = requests[w].asked /\ r.format = requests[w].format
    BY <1>8, RequestMoves
  <2>2. requests'[w] = r /\ \A v \in Servers \ {w} : requests'[v] = requests[v]
    BY <2>1, RequestGoes DEF Data!UserTypeOK
  <2> DEFINE k == Data!KeyOf(w)
             made == Data!Result(w)
  <2>3. /\ requests[w].phase = "augment"
        /\ IF k \in DOMAIN results THEN results' = results
           ELSE results' = [x \in DOMAIN results \cup {k} |-> IF x = k THEN made ELSE results[x]]
        /\ UNCHANGED <<files, session, datasetVersion, evicted, given, refused>>
    BY <1>8 DEF Data!CreateAug
  <2>4. Made(k, made)
    BY DEF Made, Data!Result, Data!KeyOf, Data!Key, Data!UserTypeOK
  <2>5. \A v \in Servers : Data!KeyOf(v)' = Data!KeyOf(v)
    BY <2>1, <2>2 DEF Data!KeyOf, Data!Key
  <2>6. k = Data!KeyOf(w) /\ made.right = datasetVersion
    BY DEF Data!Result
  <2> HIDE DEF k, made
  <2>7. DOMAIN results \subseteq DOMAIN results' /\ k \in DOMAIN results'
        /\ \A x \in DOMAIN results' : results'[x] = IF x \in DOMAIN results THEN results[x] ELSE made
    BY <2>3
  <2>8. \A x, result : Made(x, result)' <=> Made(x, result)
    BY <2>3 DEF Made
  <2>9. \A x \in DOMAIN results' : x \in DOMAIN results \/ x = k
    BY <2>3
  <2>10. (\A x \in DOMAIN results : Made(x, results[x]))'
    BY <2>4, <2>7, <2>8, <2>9 DEF SessionInv
  <2>11. \A v \in Servers \ {w} : Promised(v)'
    BY <1>0, <2>2, <2>5, <2>7 DEF Promised, Answers
  <2>12. Promised(w)'
    BY <1>0, <2>1, <2>2, <2>3, <2>5, <2>6, <2>7 DEF Promised, Answers
  <2>13. ASSUME NEW i \in DOMAIN session
         PROVE  Truthful(session[i])'
    <3>1. Truthful(session[i]) /\ session[i].result.right \in 1..datasetVersion
      BY DEF SessionInv, Truthful, Made
    <3>2. session[i].key \in DOMAIN results' => results'[session[i].key].right >= session[i].result.right
      BY <2>6, <2>7, <3>1 DEF Truthful, Data!UserTypeOK
    <3> QED BY <2>3, <2>8, <3>1, <3>2 DEF Truthful, Answers
  <2> QED BY <2>3, <2>10, <2>11, <2>12, <2>13 DEF SessionInv
<1>9. ASSUME NEW w \in Servers, Data!AttachToSession(w)
      PROVE  SessionInv'
  <2>1. PICK r \in Data!Request : Data!Goes(w, r) /\ r.phase = "idle"
    BY <1>9, RequestMoves
  <2>2. requests'[w] = r /\ \A v \in Servers \ {w} : requests'[v] = requests[v]
    BY <2>1, RequestGoes DEF Data!UserTypeOK
  <2> DEFINE k == Data!KeyOf(w)
             entry == [key |-> k, result |-> results[k], asked |-> requests[w].asked, format |-> requests[w].format]
  <2>3. /\ requests[w].phase = "send" /\ session' = Append(session, entry)
        /\ UNCHANGED <<files, results, datasetVersion, evicted, given, refused>>
    BY <1>9 DEF Data!AttachToSession
  <2>4. k \in DOMAIN results /\ k.data = requests[w].data /\ k.format = requests[w].format
    BY <1>0, <2>3 DEF Promised, Data!KeyOf, Data!Key
  <2>5. \A x, result : Made(x, result)' <=> Made(x, result)
    BY <2>3 DEF Made
  <2>6. results[k].right \in Nat
    BY <2>4 DEF SessionInv, Made
  <2>7. Answers(k.data, requests[w].asked)
    BY <1>0, <2>3, <2>4 DEF Promised
  <2>8. /\ entry.key = k /\ entry.result = results[k] /\ entry.asked = requests[w].asked
        /\ entry.format = requests[w].format
    OBVIOUS
  <2> HIDE DEF k, entry
  <2>9. Truthful(entry)
    BY <2>4, <2>6, <2>7, <2>8 DEF SessionInv, Truthful
  <2>10. \A e : Truthful(e)' <=> Truthful(e)
    BY <2>3, <2>5 DEF Truthful, Answers
  <2>11. \A i \in DOMAIN session' : Truthful(session'[i])
    <3>1. session \in Seq(Data!Attached)
      BY DEF Data!UserTypeOK
    <3>2. \A i \in DOMAIN session' : session'[i] = entry \/ (i \in DOMAIN session /\ session'[i] = session[i])
      BY <2>3, <3>1
    <3> QED BY <2>9, <3>2 DEF SessionInv
  <2>12. \A v \in Servers : Promised(v)'
    BY <1>0, <2>1, <2>2, <2>3 DEF Promised, Answers, Data!KeyOf
  <2> QED BY <2>3, <2>5, <2>10, <2>11, <2>12 DEF SessionInv
<1>10. ASSUME NEW c \in Contents, Data!EvictFile(c) \/ Data!DropProfile(c)
      PROVE  SessionInv'
  <2>1. UNCHANGED <<results, session, datasetVersion, requests, given, refused>>
        /\ evicted \subseteq evicted' /\ files \subseteq files' \cup evicted'
    BY <1>10 DEF Data!EvictFile, Data!DropProfile
  <2> QED BY <2>1 DEF SessionInv, Promised, Answers, Made, Truthful, Data!KeyOf
<1>11. ASSUME NEW key \in DOMAIN results, Data!EvictAug(key)
      PROVE  SessionInv'
  <2>1. /\ \A w \in Servers : requests[w].phase = "send" => Data!KeyOf(w) # key
        /\ results' = [k \in DOMAIN results \ {key} |-> results[k]]
        /\ UNCHANGED <<files, session, datasetVersion, requests, evicted, given, refused>>
    BY <1>11 DEF Data!EvictAug
  <2>2. DOMAIN results' = DOMAIN results \ {key} /\ \A k \in DOMAIN results' : results'[k] = results[k]
    BY <2>1
  <2>3. \A w \in Servers : Promised(w)'
    BY <1>0, <2>1, <2>2 DEF Promised, Answers, Data!KeyOf
  <2>4. \A i \in DOMAIN session : Truthful(session[i])'
    BY <2>1, <2>2 DEF SessionInv, Truthful, Made, Answers
  <2>5. (\A k \in DOMAIN results : Made(k, results[k]))'
    BY <2>1, <2>2 DEF SessionInv, Made
  <2> QED BY <2>1, <2>3, <2>4, <2>5 DEF SessionInv
<1>12. CASE Data!DropSession
  <2>1. UNCHANGED <<files, results, datasetVersion, requests, evicted, given, refused>> /\ session' = <<>>
    BY <1>12 DEF Data!DropSession
  <2> QED BY <2>1 DEF SessionInv, Promised, Answers, Made, Data!KeyOf
<1>13. CASE Data!UpdateDataset
  <2>1. UNCHANGED <<files, results, session, requests, evicted, given, refused>> /\ datasetVersion' = datasetVersion + 1
    BY <1>13 DEF Data!UpdateDataset
  <2>2. \A k, result : Made(k, result) => Made(k, result)'
    BY <2>1 DEF Made, Data!UserTypeOK
  <2>3. \A w \in Servers : Promised(w)'
    BY <1>0, <2>1 DEF Promised, Answers, Data!KeyOf
  <2>4. \A i \in DOMAIN session : Truthful(session[i])'
    BY <2>1, <2>2 DEF SessionInv, Truthful, Answers
  <2> QED BY <2>1, <2>2, <2>3, <2>4 DEF SessionInv
<1>14. CASE UNCHANGED userVars
  BY <1>14 DEF userVars, SessionInv, Promised, Answers, Made, Truthful, Data!KeyOf
<1> QED
  BY <1>1, <1>2, <1>3, <1>4, <1>5, <1>6, <1>7, <1>8, <1>9, <1>10, <1>11, <1>12, <1>13, <1>14
  DEF Data!Next

LEMMA InitUser == Init => Data!UserTypeOK /\ ProfileInv /\ SessionInv
<1> SUFFICES ASSUME Init PROVE Data!UserTypeOK /\ ProfileInv /\ SessionInv
  OBVIOUS
<1> USE ContentsAssumption
<1>1. /\ profiles = [c \in Contents |-> "none"] /\ files = {} /\ results = <<>> /\ session = <<>>
      /\ datasetVersion = 1 /\ requests = [w \in Servers |-> Data!Idle] /\ evicted = {} /\ incomplete = {}
      /\ given = {} /\ refused = {} /\ asks = 0 /\ drops = 0
  BY DEF Init, Data!Init
<1>2. Data!Idle \in Data!Request /\ Data!Idle.phase = "idle"
  BY DEF Data!Idle, Data!Request, Data!Asks, Data!Dataset, Data!ById
<1>3. session \in Seq(Data!Attached) /\ DOMAIN session = {} /\ DOMAIN results = {}
  BY <1>1
<1>4. Data!UserTypeOK
  BY <1>1, <1>2, <1>3 DEF Data!UserTypeOK
<1>5. ProfileInv
  BY <1>1, <1>2 DEF ProfileInv, Ready, Data!ProfilesComplete
<1>6. SessionInv
  BY <1>1, <1>2, <1>3 DEF SessionInv, Promised
<1> QED BY <1>4, <1>5, <1>6

(* A profile lacks the conversions only if Redis dropped it, if it could    *)
(* not be made, or if two servers made it at once; a session leads to the   *)
(* file that was asked for, in its format, with the dataset as it was; and  *)
(* a token is only refused when its file was evicted (profile.py,           *)
(* augment.py).                                                             *)
THEOREM ClientsAreServed == Spec => []ClientsServed
<1> DEFINE Inv == Data!UserTypeOK /\ ProfileInv /\ SessionInv
<1>1. Init => Inv
  BY InitUser
<1>2. Inv /\ [Next]_vars => Inv'
  <2> SUFFICES ASSUME Inv, [Next]_vars PROVE Inv'
    OBVIOUS
  <2>1. [Data!Next]_userVars
    BY StepOfOne
  <2> QED BY <2>1, UserTypesMove, ProfilesMove, SessionsMove
<1>3. Inv => ClientsServed
  <2> SUFFICES ASSUME Inv PROVE Data!ProfilesComplete /\ Data!SessionsTruthful
    BY DEF ClientsServed
  <2>1. ASSUME NEW i \in DOMAIN session
        PROVE  LET r == session[i] IN
               /\ r.result.format = r.format
               /\ r.asked.data # Data!ById =>
                    r.result.left = Csv[r.asked.data] \/ (r.asked.posted /\ r.result.left = r.asked.data)
               /\ r.key \in DOMAIN results => results[r.key] = r.result \/ datasetVersion > r.result.right
    <3> DEFINE r == session[i]
               old == r.result
               new == results[r.key]
    <3>1. Made(r.key, old) /\ r.key.format = r.format /\ Answers(r.key.data, r.asked)
          /\ (r.key \in DOMAIN results => new.right >= old.right)
      BY DEF SessionInv, Truthful
    <3>2. r \in Data!Attached
      BY DEF Data!UserTypeOK
    <3>3. r.key \in DOMAIN results => new = old \/ datasetVersion > old.right
      <4> SUFFICES ASSUME r.key \in DOMAIN results, ~(datasetVersion > old.right)
                   PROVE  new = old
        OBVIOUS
      <4>1. Made(r.key, new) /\ new \in Data!Results /\ old \in Data!Results /\ datasetVersion \in Nat
        BY <3>2, ContentsAssumption DEF SessionInv, Data!UserTypeOK, Data!Attached
      <4>2. new.right = old.right
        BY <3>1, <4>1 DEF Made
      <4>3. new.left = old.left /\ new.format = old.format
        BY <3>1, <4>1, <4>2 DEF Made
      <4> HIDE DEF new, old
      <4> QED BY <4>1, <4>2, <4>3 DEF Data!Results
    <3>4. r.asked.data # Data!ById =>
            old.left = Csv[r.asked.data] \/ (r.asked.posted /\ old.left = r.asked.data)
      BY <3>1, ContentsAssumption DEF Answers, Made, Data!ById
    <3> QED BY <3>1, <3>3, <3>4 DEF Made
  <2> QED BY <2>1 DEF ProfileInv, SessionInv, Data!SessionsTruthful
<1> QED BY <1>1, <1>2, <1>3, PTL DEF Spec

-----------------------------------------------------------------------------
(* SearchPage.  A search in flight is the current one or a rival of it; so  *)
(* is the one whose results are shown, and whose hits the forms are for.    *)
Asked == [query : Searches, rivals : SUBSET Nat]
Hit ==
  [search : Nat, id : {h.id : h \in UNION {Range(Found[q]) : q \in Searches}},
   type : {h.type : h \in UNION {Range(Found[q]) : q \in Searches}}]
PageTypes ==
  /\ asked \in Seq(Asked) /\ searching \subseteq 1..Len(asked)
  /\ searchQuery \in 0..Len(asked) /\ searchResponse \in 0..Len(asked)
  /\ infobox = Page!Nothing \/ infobox \in [hit : Hit, type : {"detail", "augmentation"}, seen : SUBSET Hit]
  /\ \/ options = Page!Nothing
     \/ options \in [hit : Hit, columns : SUBSET {h.id : h \in Hit}, aggregations : SUBSET {h.id : h \in Hit},
                     result : {"undefined", "progress", "success"}]
  /\ added = Page!Nothing \/ added \in [hit : Hit, result : {"progress", "success", "error"}]
  /\ sent = Page!Nothing \/ sent \in [hit : Hit, aggregations : SUBSET {h.id : h \in Hit}, search : Nat]
Current(n) == n = searchQuery \/ n \in asked[searchQuery].rivals
SearchesInv ==
  /\ searchQuery # 0 => \A n \in searching : Current(n)
  /\ searchQuery # 0 /\ searchState = "success" => Current(searchResponse)

(* What is kept for a hit is for one of those that were rendered at its     *)
(* place: the columns are theirs, and one hit alone has its own.            *)
DetailsInv ==
  /\ Page!Shown => infobox # Page!Nothing
  /\ infobox # Page!Nothing =>
       /\ Page!Shown /\ infobox.hit \in Page!Hits(searchResponse)
       /\ infobox.hit \in infobox.seen
OptionsInv ==
  options # Page!Nothing =>
    /\ infobox # Page!Nothing /\ infobox.type = "augmentation" /\ options.hit = infobox.hit
    /\ options.hit.type # "none"
    /\ options.columns \subseteq {h.id : h \in infobox.seen} /\ options.aggregations \subseteq options.columns
    /\ infobox.seen = {infobox.hit} => options.aggregations = options.columns
AddedInv ==
  added # Page!Nothing =>
    infobox # Page!Nothing /\ infobox.type = "detail" /\ added.hit \in infobox.seen
SentInv ==
  sent # Page!Nothing =>
    sent.search \in 1..Len(asked) /\ sent.hit.search \in {sent.search} \cup asked[sent.search].rivals
PageInv == PageTypes /\ SearchesInv /\ DetailsInv /\ OptionsInv /\ AddedInv /\ SentInv

(* Nothing is none of the records that a component keeps.                   *)
LEMMA Something ==
  /\ \A x \in [hit : Hit, type : {"detail", "augmentation"}, seen : SUBSET Hit] : x # Page!Nothing
  /\ \A x \in [hit : Hit, columns : SUBSET {h.id : h \in Hit}, aggregations : SUBSET {h.id : h \in Hit},
               result : {"undefined", "progress", "success"}] : x # Page!Nothing
  /\ \A x \in [hit : Hit, result : {"progress", "success", "error"}] : x # Page!Nothing
BY DEF Page!Nothing

(* The hits of a search are known by their identifier and type, and the     *)
(* first one is a hit; without a file, there is nothing to join or append.  *)
LEMMA HitsOf ==
  ASSUME asked \in Seq(Asked), NEW n \in 1..Len(asked)
  PROVE  /\ Page!Hits(n) \subseteq Hit
         /\ \A h \in Page!Hits(n) : h.search = n
         /\ \A h, g \in Page!Hits(n) : h.id = g.id /\ h.type = g.type => h = g
         /\ Found[asked[n].query] # <<>> => Page!First(n) \in Page!Hits(n)
         /\ FileOf[asked[n].query] = NoData => \A h \in Page!Hits(n) : h.type = "none"
<1> DEFINE q == asked[n].query
<1>1. q \in Searches /\ n # 0 /\ n \in Nat
  <2>1. asked[n] \in Asked /\ n # 0 /\ n \in Nat
    OBVIOUS
  <2> QED BY <2>1 DEF Asked
<1>2. Found[q] \in Seq(Range(Found[q]))
  BY <1>1, PagesAssumption
<1> HIDE DEF q
<1>3. Page!Hits(n) = {[search |-> n, id |-> h.id, type |-> h.type] : h \in {Found[q][i] : i \in DOMAIN Found[q]}}
  BY <1>1 DEF Page!Hits, q
<1>4. \A i \in DOMAIN Found[q] : Found[q][i] \in Range(Found[q])
  BY DEF Range
<1>5. \A h \in Page!Hits(n) : \E i \in DOMAIN Found[q] : h = [search |-> n, id |-> Found[q][i].id, type |-> Found[q][i].type]
  BY <1>3
<1>6. Found[q] # <<>> => 1 \in DOMAIN Found[q]
  BY <1>2
<1>7. Page!Hits(n) \subseteq Hit
  BY <1>1, <1>4, <1>5 DEF Hit
<1>8. Found[q] # <<>> => Page!First(n) \in Page!Hits(n)
  BY <1>3, <1>6 DEF Page!First, q
<1>9. FileOf[q] = NoData => \A h \in Page!Hits(n) : h.type = "none"
  BY <1>1, <1>4, <1>5, PagesAssumption
<1> QED BY <1>5, <1>7, <1>8, <1>9 DEF q

(* The searches that were made stay as they are.                            *)
LEMMA HitsStay ==
  ASSUME UNCHANGED asked
  PROVE  \A n : Page!Hits(n)' = Page!Hits(n)
BY DEF Page!Hits

LEMMA FetchKeeps ==
  ASSUME PageInv, NEW q \in Searches, Page!FetchSearchResults(q)
  PROVE  PageInv'
<1> DEFINE m == Len(asked) + 1
<1>1. /\ asked' = Append(asked, [query |-> q, rivals |-> searching])
      /\ searching' = searching \cup {Len(asked')} /\ searchQuery' = Len(asked') /\ searchState' = "requesting"
      /\ infobox' = Page!Nothing /\ options' = Page!Nothing /\ added' = Page!Nothing
      /\ UNCHANGED <<searchResponse, sent>>
  BY DEF Page!FetchSearchResults, Page!Unmounted
<1>2. asked \in Seq(Asked) /\ searching \subseteq 1..Len(asked) /\ Len(asked) \in Nat
  BY DEF PageInv, PageTypes
<1>3. [query |-> q, rivals |-> searching] \in Asked
  BY <1>2 DEF Asked
<1>4. /\ asked' \in Seq(Asked) /\ Len(asked') = m /\ asked'[m].rivals = searching
      /\ \A n \in 1..Len(asked) : asked'[n] = asked[n]
  BY <1>1, <1>2, <1>3
<1>5. PageTypes'
  <2>1. /\ asked' \in Seq(Asked) /\ searching' \subseteq 1..Len(asked')
        /\ searchQuery' \in 0..Len(asked') /\ searchResponse' \in 0..Len(asked')
    <3>1. searchResponse \in 0..Len(asked)
      BY DEF PageInv, PageTypes
    <3>2. searching' = searching \cup {m} /\ searchQuery' = m /\ searchResponse' = searchResponse
      BY <1>1, <1>4
    <3> HIDE DEF m
    <3>3. m \in Nat /\ Len(asked) < m
      BY <1>2 DEF m
    <3>4. searching' \subseteq 1..m
      BY <1>2, <3>2, <3>3
    <3>5. searchQuery' \in 0..m /\ searchResponse' \in 0..m
      BY <1>2, <3>1, <3>2, <3>3
    <3> QED BY <1>4, <3>4, <3>5
  <2> QED BY <1>1, <2>1 DEF PageInv, PageTypes
<1>6. SearchesInv'
  BY <1>1, <1>2, <1>4 DEF SearchesInv, Current
<1>7. DetailsInv' /\ OptionsInv' /\ AddedInv'
  BY <1>1 DEF DetailsInv, OptionsInv, AddedInv, Page!Shown, Page!Nothing
<1>8. SentInv'
  BY <1>1, <1>2, <1>4 DEF PageInv, SentInv, Page!Nothing
<1> QED BY <1>5, <1>6, <1>7, <1>8 DEF PageInv

LEMMA RespondKeeps ==
  ASSUME PageInv, NEW n \in searching, Page!Respond(n)
  PROVE  PageInv'
<1> DEFINE kept == infobox # Page!Nothing /\ infobox.type = "detail"
           others == IF kept THEN infobox.seen ELSE {}
           empty == searchQuery = 0 \/ Found[asked[n].query] = <<>>
<1>1. /\ searching' = searching \ {n} /\ searchResponse' = n /\ searchState' = "success"
      /\ options' = Page!Nothing /\ UNCHANGED <<asked, searchQuery, sent>>
  BY DEF Page!Respond
<1>2. empty => infobox' = Page!Nothing /\ added' = Page!Nothing
  BY DEF Page!Respond
<1>3. ~empty => /\ infobox' = [hit |-> Page!First(n), type |-> "detail", seen |-> {Page!First(n)} \cup others]
                /\ added' = IF kept THEN added ELSE Page!Nothing
  BY DEF Page!Respond
<1>4. asked \in Seq(Asked) /\ n \in 1..Len(asked) /\ Len(asked) \in Nat
  BY DEF PageInv, PageTypes
<1>5. others \subseteq Hit
  BY DEF PageInv, PageTypes
<1>6. ~empty => Page!First(n) \in Page!Hits(n) /\ Page!First(n) \in Hit
  BY <1>4, HitsOf
<1>8. kept => others = infobox.seen
  OBVIOUS
<1>9. Page!Hits(n)' = Page!Hits(n)
  BY <1>1, HitsStay
<1>10. empty => ~Page!Shown'
  BY <1>1, <1>4 DEF Page!Shown, Page!Hits
<1>11. ~empty => Page!Shown'
  BY <1>1, <1>6, <1>9 DEF Page!Shown, Page!Hits
<1>12. ~empty => infobox'.hit = Page!First(n) /\ infobox'.type = "detail" /\ infobox'.seen = {Page!First(n)} \cup others
          /\ infobox' \in [hit : Hit, type : {"detail", "augmentation"}, seen : SUBSET Hit]
  BY <1>3, <1>5, <1>6
<1>13. added' = Page!Nothing \/ (kept /\ added' = added /\ ~empty)
  BY <1>2, <1>3
<1> HIDE DEF others, empty
<1>14. PageTypes'
  BY <1>1, <1>2, <1>4, <1>12, <1>13 DEF PageInv, PageTypes
<1>15. SearchesInv'
  BY <1>1 DEF PageInv, SearchesInv, Current
<1>16. DetailsInv'
  BY <1>1, <1>2, <1>6, <1>9, <1>10, <1>11, <1>12, Something DEF DetailsInv
<1>17. OptionsInv' /\ SentInv'
  BY <1>1 DEF PageInv, OptionsInv, SentInv
<1>18. AddedInv'
  BY <1>2, <1>8, <1>12, <1>13, Something DEF PageInv, AddedInv
<1> QED BY <1>14, <1>15, <1>16, <1>17, <1>18 DEF PageInv

LEMMA HomeAndFailKeep ==
  ASSUME PageInv, Page!GoHome \/ \E n \in searching : Page!SearchFails(n)
  PROVE  PageInv'
<1>1. /\ infobox' = Page!Nothing /\ options' = Page!Nothing /\ added' = Page!Nothing
      /\ searching' \subseteq searching /\ UNCHANGED <<asked, sent>>
      /\ \/ searchQuery' = 0 /\ searchResponse' = 0
         \/ searchState' = "failed" /\ UNCHANGED <<searchQuery, searchResponse>>
  BY DEF Page!GoHome, Page!SearchFails, Page!Unmounted
<1>2. PageTypes'
  BY <1>1 DEF PageInv, PageTypes
<1>3. SearchesInv'
  BY <1>1 DEF PageInv, SearchesInv, Current
<1>4. DetailsInv' /\ OptionsInv' /\ AddedInv' /\ SentInv'
  BY <1>1 DEF PageInv, DetailsInv, OptionsInv, AddedInv, SentInv, Page!Shown, Page!Nothing
<1> QED BY <1>2, <1>3, <1>4 DEF PageInv

(* The details and the options of a hit.                                    *)
LEMMA SelectMoves ==
  ASSUME PageInv, Page!Shown, NEW hit \in Page!Hits(searchResponse),
         NEW type \in {"detail", "augmentation"}, Page!Select(hit, type)
  PROVE  /\ infobox' \in [hit : Hit, type : {"detail", "augmentation"}, seen : SUBSET Hit]
         /\ infobox' # Page!Nothing
         /\ infobox'.hit = hit /\ infobox'.type = type /\ hit \in infobox'.seen
         /\ infobox.type = type => infobox.seen \subseteq infobox'.seen
<1> DEFINE others == IF infobox.type = type THEN infobox.seen ELSE {}
<1>1. infobox' = [hit |-> hit, type |-> type, seen |-> {hit} \cup others]
  BY DEF Page!Select
<1>2. infobox # Page!Nothing /\ infobox.seen \subseteq Hit
  BY DEF PageInv, DetailsInv, PageTypes
<1>3. hit \in Hit
  <2>1. searchResponse # 0 /\ searchResponse \in 1..Len(asked) /\ asked \in Seq(Asked)
    BY DEF Page!Hits, PageInv, PageTypes
  <2> QED BY <2>1, HitsOf
<1>4. others \subseteq Hit
  BY <1>2
<1>5. infobox.type = type => others = infobox.seen
  OBVIOUS
<1> HIDE DEF others
<1>7. infobox' \in [hit : Hit, type : {"detail", "augmentation"}, seen : SUBSET Hit]
  BY <1>1, <1>3, <1>4
<1> QED BY <1>1, <1>5, <1>7, Something

LEMMA ViewKeeps ==
  ASSUME PageInv, NEW hit \in Page!Hits(searchResponse), Page!ViewDetails(hit)
  PROVE  PageInv'
<1>1. /\ Page!Shown /\ Page!Select(hit, "detail") /\ options' = Page!Nothing
      /\ UNCHANGED <<asked, searching, searchQuery, searchState, searchResponse, added, sent>>
  BY DEF Page!ViewDetails
<1>2. Page!Shown' /\ \A n : Page!Hits(n)' = Page!Hits(n)
  BY <1>1, HitsStay DEF Page!Shown, Page!Hits
<1>3. /\ infobox' \in [hit : Hit, type : {"detail", "augmentation"}, seen : SUBSET Hit]
      /\ infobox' # Page!Nothing
      /\ infobox'.hit = hit /\ infobox'.type = "detail" /\ hit \in infobox'.seen
      /\ infobox.type = "detail" => infobox.seen \subseteq infobox'.seen
  BY <1>1, SelectMoves
<1>4. PageTypes'
  BY <1>1, <1>3 DEF PageInv, PageTypes
<1>5. SearchesInv'
  BY <1>1 DEF PageInv, SearchesInv, Current
<1>6. DetailsInv'
  BY <1>1, <1>2, <1>3 DEF DetailsInv
<1>7. OptionsInv' /\ SentInv'
  BY <1>1 DEF PageInv, OptionsInv, SentInv
<1>8. AddedInv'
  BY <1>1, <1>3 DEF PageInv, AddedInv
<1> QED BY <1>4, <1>5, <1>6, <1>7, <1>8 DEF PageInv

(* What the form of a hit begins with.                                      *)
Option ==
  [hit : Hit, columns : SUBSET {h.id : h \in Hit}, aggregations : SUBSET {h.id : h \in Hit},
   result : {"undefined", "progress", "success"}]
LEMMA DerivedFrom ==
  ASSUME PageInv, NEW hit \in Hit
  PROVE  \/ /\ options # Page!Nothing /\ options.hit.id = hit.id /\ options.hit.type = hit.type
            /\ Page!Derived(hit) = options
         \/ /\ Page!Derived(hit) \in Option /\ Page!Derived(hit).hit = hit
            /\ Page!Derived(hit).aggregations = {}
            /\ \/ Page!Derived(hit).columns = {}
               \/ /\ options # Page!Nothing /\ options.hit # hit
                  /\ Page!Derived(hit).columns = options.columns
<1>1. CASE options = Page!Nothing
  <2> DEFINE o == [hit |-> hit, columns |-> {}, aggregations |-> {}, result |-> "undefined"]
  <2>1. Page!Derived(hit) = o
    BY <1>1 DEF Page!Derived
  <2>2. o \in Option
    BY DEF Option
  <2> QED BY <2>1, <2>2
<1>2. CASE options # Page!Nothing /\ options.hit.id = hit.id /\ options.hit.type = hit.type
  BY <1>2 DEF Page!Derived
<1>3. CASE options # Page!Nothing /\ ~(options.hit.id = hit.id /\ options.hit.type = hit.type)
  <2> DEFINE c == IF hit.type = "join" /\ options.hit.type = "join" THEN options.columns ELSE {}
             o == [hit |-> hit, aggregations |-> {}, result |-> options.result, columns |-> c]
  <2>1. Page!Derived(hit) = o
    BY <1>3 DEF Page!Derived
  <2>2. options \in Option
    BY <1>3 DEF PageInv, PageTypes, Option
  <2>3. c \in {{}, options.columns}
    OBVIOUS
  <2> HIDE DEF c
  <2>4. o \in Option
    BY <2>2, <2>3 DEF Option
  <2> QED BY <1>3, <2>1, <2>3, <2>4
<1> QED BY <1>1, <1>2, <1>3

LEMMA OptionsKeep ==
  ASSUME PageInv, NEW hit \in Page!Hits(searchResponse), Page!AugmentOptions(hit)
  PROVE  PageInv'
<1>1. /\ Page!Shown /\ hit.type # "none" /\ Page!Select(hit, "augmentation")
      /\ options' = Page!Derived(hit) /\ added' = Page!Nothing
      /\ UNCHANGED <<asked, searching, searchQuery, searchState, searchResponse, sent>>
  BY DEF Page!AugmentOptions
<1>2. Page!Shown' /\ \A n : Page!Hits(n)' = Page!Hits(n)
  BY <1>1, HitsStay DEF Page!Shown, Page!Hits
<1>3. /\ infobox' \in [hit : Hit, type : {"detail", "augmentation"}, seen : SUBSET Hit]
      /\ infobox' # Page!Nothing
      /\ infobox'.hit = hit /\ infobox'.type = "augmentation" /\ hit \in infobox'.seen
      /\ infobox.type = "augmentation" => infobox.seen \subseteq infobox'.seen
  BY <1>1, SelectMoves
<1>4. searchResponse \in 1..Len(asked) /\ asked \in Seq(Asked)
  BY DEF Page!Hits, PageInv, PageTypes
<1>5. hit \in Hit
  BY <1>4, HitsOf
<1>6. options # Page!Nothing =>
        /\ options \in Option /\ options.hit \in Page!Hits(searchResponse) /\ options.hit \in infobox'.seen
        /\ options.columns \subseteq {h.id : h \in infobox'.seen} /\ options.aggregations \subseteq options.columns
        /\ options.aggregations = options.columns \/ infobox.seen # {infobox.hit}
        /\ infobox.seen \subseteq infobox'.seen /\ options.hit \in infobox.seen
  BY <1>3 DEF PageInv, PageTypes, OptionsInv, DetailsInv, Option
<1>7. options' # Page!Nothing /\ options' \in Option
  BY <1>1, <1>5, <1>6, DerivedFrom, Something DEF Option
<1>8. options'.hit = hit
  BY <1>1, <1>4, <1>5, <1>6, DerivedFrom, HitsOf
<1>9. options'.columns \subseteq {h.id : h \in infobox'.seen} /\ options'.aggregations \subseteq options'.columns
  BY <1>1, <1>5, <1>6, DerivedFrom
<1>10. ASSUME infobox'.seen = {infobox'.hit}
       PROVE  options'.aggregations = options'.columns
  <2>1. options # Page!Nothing => options.hit = hit /\ infobox.seen = {infobox.hit}
    BY <1>3, <1>6, <1>10 DEF PageInv, OptionsInv, DetailsInv
  <2> QED BY <1>1, <1>5, <1>6, <2>1, DerivedFrom
<1>11. PageTypes'
  BY <1>1, <1>3, <1>7 DEF PageInv, PageTypes, Option
<1>12. SearchesInv'
  BY <1>1 DEF PageInv, SearchesInv, Current
<1>13. DetailsInv'
  BY <1>1, <1>2, <1>3 DEF DetailsInv
<1>14. OptionsInv'
  BY <1>1, <1>3, <1>8, <1>9, <1>10 DEF OptionsInv
<1>15. AddedInv' /\ SentInv'
  BY <1>1 DEF PageInv, AddedInv, SentInv
<1> QED BY <1>11, <1>12, <1>13, <1>14, <1>15 DEF PageInv

(* Options whose columns or result change, for the hit they are for.        *)
LEMMA OptionsChange ==
  ASSUME PageInv, options # Page!Nothing,
         UNCHANGED <<asked, searching, searchQuery, searchState, searchResponse, infobox, added>>,
         options' \in Option, options'.hit = options.hit,
         options'.columns \subseteq {h.id : h \in infobox.seen},
         options'.aggregations \subseteq options'.columns,
         infobox.seen = {infobox.hit} => options'.aggregations = options'.columns,
         sent' = sent \/ sent' = [hit |-> options.hit, aggregations |-> options.aggregations, search |-> searchQuery]
  PROVE  PageInv'
<1>1. Page!Shown /\ infobox # Page!Nothing /\ options.hit \in Page!Hits(searchResponse) /\ options \in Option
  BY DEF PageInv, OptionsInv, DetailsInv, PageTypes, Option
<1>2. Page!Shown' /\ \A n : Page!Hits(n)' = Page!Hits(n)
  BY <1>1, HitsStay DEF Page!Shown, Page!Hits
<1>3. searchResponse \in 1..Len(asked) /\ searchQuery \in 1..Len(asked) /\ asked \in Seq(Asked)
  BY <1>1 DEF Page!Shown, Page!Hits, PageInv, PageTypes
<1>4. options.hit.search = searchResponse
  BY <1>1, <1>3, HitsOf
<1>5. Current(searchResponse)
  BY <1>1, <1>3 DEF Page!Shown, PageInv, SearchesInv
<1>6. sent' = sent \/ (/\ sent' \in [hit : Hit, aggregations : SUBSET {h.id : h \in Hit}, search : Nat]
                       /\ sent'.hit = options.hit /\ sent'.search = searchQuery)
  BY <1>1, <1>3 DEF Option
<1>7. PageTypes'
  BY <1>6 DEF PageInv, PageTypes, Option
<1>8. SearchesInv' /\ AddedInv'
  BY DEF PageInv, SearchesInv, AddedInv, Current
<1>9. DetailsInv'
  BY <1>1, <1>2 DEF PageInv, DetailsInv
<1>10. OptionsInv'
  BY <1>1 DEF PageInv, OptionsInv
<1>11. SentInv'
  BY <1>3, <1>4, <1>5, <1>6 DEF PageInv, SentInv, Current
<1> QED BY <1>7, <1>8, <1>9, <1>10, <1>11 DEF PageInv

LEMMA FormKeeps ==
  ASSUME PageInv,
         Page!HandleDrop \/ (options # Page!Nothing /\ \E c \in options.columns : Page!RemoveColumn(c))
           \/ Page!SubmitAugmentationForm \/ Page!AugmentAnswers
  PROVE  PageInv'
<1>1. options # Page!Nothing
  BY DEF Page!HandleDrop, Page!SubmitAugmentationForm, Page!AugmentAnswers
<1>2. /\ options \in Option /\ options.columns \subseteq {h.id : h \in infobox.seen}
      /\ options.aggregations \subseteq options.columns /\ options.hit \in infobox.seen
      /\ infobox.seen = {infobox.hit} => options.aggregations = options.columns
  BY <1>1 DEF PageInv, PageTypes, OptionsInv, DetailsInv, Option
<1>3. ASSUME NEW columns \in SUBSET {h.id : h \in infobox.seen}, Page!SetColumns(columns)
      PROVE  PageInv'
  <2>1. /\ options' = [options EXCEPT !.columns = columns, !.aggregations = columns]
        /\ UNCHANGED <<asked, searching, searchQuery, searchState, searchResponse, infobox, added, sent>>
    BY <1>3 DEF Page!SetColumns
  <2>2. infobox.seen \subseteq Hit
    BY <1>1 DEF PageInv, OptionsInv, PageTypes
  <2>3. columns \subseteq {h.id : h \in Hit}
    BY <1>3, <2>2
  <2>4. /\ options' \in Option /\ options'.hit = options.hit /\ options'.columns = columns
        /\ options'.aggregations = columns
    BY <1>2, <2>1, <2>3 DEF Option
  <2> QED BY <1>1, <1>3, <2>1, <2>4, OptionsChange
<1>4. CASE Page!HandleDrop
  <2>1. options.columns \cup {options.hit.id} \subseteq {h.id : h \in infobox.seen}
    BY <1>2
  <2> QED BY <1>3, <1>4, <2>1 DEF Page!HandleDrop
<1>5. ASSUME NEW c \in options.columns, Page!RemoveColumn(c) PROVE PageInv'
  <2>1. options.columns \ {c} \subseteq {h.id : h \in infobox.seen}
    BY <1>2
  <2> QED BY <1>3, <1>5, <2>1 DEF Page!RemoveColumn
<1>6. CASE Page!SubmitAugmentationForm
  <2>1. /\ options' = [options EXCEPT !.result = "progress"]
        /\ sent' = [hit |-> options.hit, aggregations |-> options.aggregations, search |-> searchQuery]
        /\ UNCHANGED <<asked, searching, searchQuery, searchState, searchResponse, infobox, added>>
    BY <1>6 DEF Page!SubmitAugmentationForm
  <2>2. /\ options' \in Option /\ options'.hit = options.hit /\ options'.columns = options.columns
        /\ options'.aggregations = options.aggregations
    BY <1>2, <2>1 DEF Option
  <2> QED BY <1>1, <1>2, <2>1, <2>2, OptionsChange
<1>7. CASE Page!AugmentAnswers
  <2>1. /\ options' = [options EXCEPT !.result = "success"]
        /\ UNCHANGED <<asked, searching, searchQuery, searchState, searchResponse, infobox, added, sent>>
    BY <1>7 DEF Page!AugmentAnswers
  <2>2. /\ options' \in Option /\ options'.hit = options.hit /\ options'.columns = options.columns
        /\ options'.aggregations = options.aggregations
    BY <1>2, <2>1 DEF Option
  <2> QED BY <1>1, <1>2, <2>1, <2>2, OptionsChange
<1> QED BY <1>4, <1>5, <1>6, <1>7

LEMMA AddedKeeps ==
  ASSUME PageInv, Page!AddToSession \/ \E result \in {"success", "error"} : Page!SessionAnswers(result)
  PROVE  PageInv'
<1> DEFINE Session == [hit : Hit, result : {"progress", "success", "error"}]
<1>1. UNCHANGED <<asked, searching, searchQuery, searchState, searchResponse, infobox, options, sent>>
  BY DEF Page!AddToSession, Page!SessionAnswers
<1>2. /\ added' \in Session /\ infobox # Page!Nothing /\ infobox.type = "detail"
      /\ added'.hit \in infobox.seen
  <2>1. CASE Page!AddToSession
    <3>1. Page!Shown /\ infobox.type = "detail" /\ added' = [hit |-> infobox.hit, result |-> "progress"]
      BY <2>1 DEF Page!AddToSession
    <3>2. infobox # Page!Nothing /\ infobox.hit \in infobox.seen /\ infobox.hit \in Hit
      BY <3>1 DEF PageInv, DetailsInv, PageTypes
    <3> QED BY <3>1, <3>2
  <2>2. ASSUME NEW result \in {"success", "error"}, Page!SessionAnswers(result)
        PROVE  /\ added' \in Session /\ infobox # Page!Nothing /\ infobox.type = "detail"
               /\ added'.hit \in infobox.seen
    <3>1. added.result = "progress" /\ added' = [added EXCEPT !.result = result]
      BY <2>2 DEF Page!SessionAnswers
    <3>2. added # Page!Nothing
      BY <3>1 DEF Page!Nothing
    <3>3. added \in Session
      BY <3>2 DEF PageInv, PageTypes
    <3>4. added' \in Session /\ added'.hit = added.hit
      BY <3>1, <3>3
    <3> QED BY <3>2, <3>4 DEF PageInv, AddedInv
  <2> QED BY <2>1, <2>2
<1>3. Page!Shown' = Page!Shown /\ \A n : Page!Hits(n)' = Page!Hits(n)
  BY <1>1, HitsStay DEF Page!Shown, Page!Hits
<1>4. PageTypes'
  BY <1>1, <1>2 DEF PageInv, PageTypes
<1>5. SearchesInv' /\ OptionsInv' /\ SentInv' /\ AddedInv'
  BY <1>1, <1>2 DEF PageInv, SearchesInv, Current, OptionsInv, SentInv, AddedInv
<1>6. DetailsInv'
  BY <1>1, <1>3 DEF PageInv, DetailsInv
<1> QED BY <1>4, <1>5, <1>6 DEF PageInv

LEMMA PageMoves ==
  ASSUME PageInv, [Page!Next]_pageVars
  PROVE  PageInv'
<1>1. CASE UNCHANGED pageVars
  <2>1. UNCHANGED <<asked, searching, searchQuery, searchState, searchResponse, infobox, options, added, sent>>
    BY <1>1 DEF pageVars
  <2>2. Page!Shown' = Page!Shown /\ \A n : Page!Hits(n)' = Page!Hits(n)
    BY <2>1, HitsStay DEF Page!Shown, Page!Hits
  <2>3. PageTypes' /\ SearchesInv' /\ OptionsInv' /\ SentInv' /\ AddedInv'
    BY <2>1 DEF PageInv, PageTypes, SearchesInv, Current, OptionsInv, SentInv, AddedInv
  <2>4. DetailsInv'
    BY <2>1, <2>2 DEF PageInv, DetailsInv
  <2> QED BY <2>3, <2>4 DEF PageInv
<1>2. CASE Page!Next
  BY <1>2, FetchKeeps, RespondKeeps, HomeAndFailKeep, ViewKeeps, OptionsKeep, FormKeeps, AddedKeeps DEF Page!Next
<1> QED BY <1>1, <1>2

LEMMA PageGood ==
  ASSUME PageInv
  PROVE  Page!ResultsExplained /\ Page!TasksMatch
<1>1. Page!ResultsExplained
  BY DEF PageInv, SearchesInv, DetailsInv, Current, Page!ResultsExplained, Page!Rivals, Page!Shown
<1>2. ASSUME options # Page!Nothing, FileOf[asked[searchQuery].query] = NoData
      PROVE  searchResponse \in Page!Rivals(searchQuery)
  <2>1. /\ Page!Shown /\ options.hit \in Page!Hits(searchResponse) /\ options.hit.type # "none"
    BY <1>2 DEF PageInv, OptionsInv, DetailsInv
  <2>2. searchQuery \in 1..Len(asked) /\ asked \in Seq(Asked) /\ Current(searchResponse)
    BY <2>1 DEF Page!Shown, PageInv, PageTypes, SearchesInv
  <2>3. searchResponse # searchQuery
    BY <1>2, <2>1, <2>2, HitsOf
  <2> QED BY <2>2, <2>3 DEF Current, Page!Rivals
<1>3. added # Page!Nothing => added.hit = infobox.hit \/ infobox.seen # {infobox.hit}
  BY DEF PageInv, AddedInv
<1>4. sent # Page!Nothing => sent.hit.search \in {sent.search} \cup Page!Rivals(sent.search)
  BY DEF PageInv, SentInv, Page!Rivals
<1>5. options # Page!Nothing =>
        /\ infobox.type = "augmentation" /\ options.hit = infobox.hit
        /\ options.columns \subseteq {h.id : h \in infobox.seen}
        /\ infobox.seen = {infobox.hit} => options.aggregations = options.columns
  BY DEF PageInv, OptionsInv
<1>6. Page!TasksMatch
  BY <1>2, <1>3, <1>4, <1>5 DEF Page!TasksMatch
<1> QED BY <1>1, <1>6

LEMMA InitPage == Init => PageInv
<1> SUFFICES ASSUME Init PROVE PageInv
  OBVIOUS
<1>1. /\ asked = <<>> /\ searching = {} /\ searchQuery = 0 /\ searchState = "clean" /\ searchResponse = 0
      /\ infobox = Page!Nothing /\ options = Page!Nothing /\ added = Page!Nothing /\ sent = Page!Nothing
  BY DEF Init, Page!Init
<1> QED BY <1>1 DEF PageInv, PageTypes, SearchesInv, DetailsInv, OptionsInv, AddedInv, SentInv, Page!Shown

-----------------------------------------------------------------------------
(* RelatedFile.                                                             *)
AllColumns == UNION {ColumnsOf[f] : f \in LocalFiles}
Chosen == [file : LocalFiles, columns : SUBSET AllColumns, edit : Nat]
FileQuery ==
  [kind : {"drop", "get", "hidden"}, related : Chosen, status : {"pending", "answered", "failed", "forgotten"}]
NoHidden(all) == \A n \in DOMAIN all : all[n].kind # "hidden"
Failed(all, related) == \E n \in DOMAIN all : all[n].related = related /\ all[n].status = "failed"
DropFailed(all) == \E n \in DOMAIN all : all[n].kind = "drop" /\ all[n].status = "failed"
FileTypes ==
  /\ fileQueries \in Seq(FileQuery) /\ profileQuery \in 0..Len(fileQueries)
  /\ filter \in Chosen \cup {Related!NoFile} /\ shown \in BOOLEAN
  /\ queryFile = (IF shown THEN filter ELSE Related!NoFile)
  /\ ~shown => profileQuery = 0 /\ profiled = "none" /\ loading = "undefined"
(* The query of the form is for the file searched with, or for a first one. *)
QueryInv ==
  /\ profileQuery # 0 =>
       IF filter = Related!NoFile THEN fileQueries[profileQuery].kind = "drop"
       ELSE fileQueries[profileQuery].kind = "get" /\ fileQueries[profileQuery].related = filter
  /\ shown /\ filter # Related!NoFile =>
       \/ profiled = filter.file /\ selected = filter.columns
       \/ Failed(fileQueries, filter)
       \/ profileQuery # 0 /\ fileQueries[profileQuery].status = "pending"
(* One file is dropped at a time, and its query is the current one unless   *)
(* the page was rendered or another answer came.                            *)
Dropped(q) == q.kind = "drop" /\ q.status = "pending"
DropInv ==
  /\ \A n \in DOMAIN fileQueries : Dropped(fileQueries[n]) =>
       /\ shown /\ loading = "progress"
       /\ profileQuery = n \/ rendered \/ ~NoHidden(fileQueries)
       /\ \A m \in DOMAIN fileQueries : Dropped(fileQueries[m]) => m = n
  /\ loading = "error" => rendered \/ dropRefused \/ ~NoHidden(fileQueries) \/ DropFailed(fileQueries)
(* Without answers to a form that was hidden, columns are those of a file.  *)
ColumnsInv ==
  /\ \A n \in DOMAIN fileQueries : fileQueries[n].kind = "drop" =>
       fileQueries[n].related.columns \subseteq ColumnsOf[fileQueries[n].related.file]
  /\ NoHidden(fileQueries) =>
       /\ filter # Related!NoFile => filter.columns \subseteq ColumnsOf[filter.file]
       /\ profiled # "none" => filter # Related!NoFile /\ profiled = filter.file
FileInv == FileTypes /\ QueryInv /\ DropInv /\ ColumnsInv

LEMMA FileIsChosen ==
  /\ \A related \in Chosen : related # Related!NoFile
  /\ \A f \in LocalFiles :
       /\ [file |-> f, columns |-> ColumnsOf[f], edit |-> 0] \in Chosen
       /\ [file |-> f, columns |-> ColumnsOf[f], edit |-> 0].file = f
       /\ [file |-> f, columns |-> ColumnsOf[f], edit |-> 0].columns = ColumnsOf[f]
BY PagesAssumption DEF Chosen, AllColumns, Related!NoFile

(* An answer changes the status of its query, and nothing else.             *)
LEMMA AnsweredOf ==
  ASSUME fileQueries \in Seq(FileQuery), NEW n \in DOMAIN fileQueries,
         NEW status \in {"answered", "failed"}
  PROVE  LET all == Related!Answered(n, status) IN
         /\ all \in Seq(FileQuery) /\ Len(all) = Len(fileQueries) /\ DOMAIN all = DOMAIN fileQueries
         /\ all[n].status = status /\ \A m \in DOMAIN fileQueries \ {n} : all[m].status = fileQueries[m].status
         /\ \A m \in DOMAIN fileQueries :
              all[m].kind = fileQueries[m].kind /\ all[m].related = fileQueries[m].related
         /\ NoHidden(all) = NoHidden(fileQueries)
         /\ \A related : fileQueries[n].status # "failed" =>
              Failed(all, related) = (Failed(fileQueries, related) \/ (fileQueries[n].related = related /\ status = "failed"))
         /\ fileQueries[n].status # "failed" =>
              DropFailed(all) = (DropFailed(fileQueries) \/ (fileQueries[n].kind = "drop" /\ status = "failed"))
<1> DEFINE all == Related!Answered(n, status)
<1>1. all = [fileQueries EXCEPT ![n] = [fileQueries[n] EXCEPT !.status = status]]
  BY DEF Related!Answered
<1>2. fileQueries[n] \in FileQuery
  OBVIOUS
<1>3. /\ [fileQueries[n] EXCEPT !.status = status] \in FileQuery
      /\ [fileQueries[n] EXCEPT !.status = status].status = status
      /\ [fileQueries[n] EXCEPT !.status = status].kind = fileQueries[n].kind
      /\ [fileQueries[n] EXCEPT !.status = status].related = fileQueries[n].related
  BY <1>2 DEF FileQuery
<1>4. /\ all \in Seq(FileQuery) /\ Len(all) = Len(fileQueries) /\ DOMAIN all = DOMAIN fileQueries
      /\ all[n] = [fileQueries[n] EXCEPT !.status = status]
      /\ \A m \in DOMAIN fileQueries \ {n} : all[m] = fileQueries[m]
  BY <1>1, <1>3
<1> HIDE DEF all
<1>5. /\ all[n].status = status /\ \A m \in DOMAIN fileQueries \ {n} : all[m].status = fileQueries[m].status
      /\ \A m \in DOMAIN fileQueries :
           all[m].kind = fileQueries[m].kind /\ all[m].related = fileQueries[m].related
  BY <1>3, <1>4
<1>6. NoHidden(all) = NoHidden(fileQueries)
  BY <1>4, <1>5 DEF NoHidden
<1>7. ASSUME NEW related, fileQueries[n].status # "failed"
      PROVE  Failed(all, related) = (Failed(fileQueries, related) \/ (fileQueries[n].related = related /\ status = "failed"))
  <2>1. Failed(all, related) => Failed(fileQueries, related) \/ (fileQueries[n].related = related /\ status = "failed")
    BY <1>4, <1>5 DEF Failed
  <2>2. Failed(fileQueries, related) => Failed(all, related)
    BY <1>4, <1>5, <1>7 DEF Failed
  <2>3. fileQueries[n].related = related /\ status = "failed" => Failed(all, related)
    BY <1>4, <1>5 DEF Failed
  <2> QED BY <2>1, <2>2, <2>3 DEF Failed
<1>8. ASSUME fileQueries[n].status # "failed"
      PROVE  DropFailed(all) = (DropFailed(fileQueries) \/ (fileQueries[n].kind = "drop" /\ status = "failed"))
  <2>1. DropFailed(all) => DropFailed(fileQueries) \/ (fileQueries[n].kind = "drop" /\ status = "failed")
    BY <1>4, <1>5 DEF DropFailed
  <2>2. DropFailed(fileQueries) => DropFailed(all)
    BY <1>4, <1>5, <1>8 DEF DropFailed
  <2>3. fileQueries[n].kind = "drop" /\ status = "failed" => DropFailed(all)
    BY <1>4, <1>5 DEF DropFailed
  <2> QED BY <2>1, <2>2, <2>3 DEF DropFailed
<1> QED BY <1>4, <1>5, <1>6, <1>7, <1>8 DEF all

(* A new query comes after the others.                                      *)
LEMMA AskedOf ==
  ASSUME NEW all \in Seq(FileQuery), NEW kind \in {"drop", "get"}, NEW related \in Chosen
  PROVE  LET more == Append(all, [kind |-> kind, related |-> related, status |-> "pending"]) IN
         /\ more \in Seq(FileQuery) /\ Len(more) = Len(all) + 1 /\ DOMAIN more = DOMAIN all \cup {Len(more)}
         /\ \A n \in DOMAIN all : more[n] = all[n]
         /\ Len(more) \notin DOMAIN all
         /\ more[Len(more)].kind = kind /\ more[Len(more)].related = related /\ more[Len(more)].status = "pending"
         /\ NoHidden(more) = NoHidden(all) /\ (\A r : Failed(all, r) => Failed(more, r))
         /\ DropFailed(all) => DropFailed(more)
<1> DEFINE q == [kind |-> kind, related |-> related, status |-> "pending"]
           more == Append(all, q)
<1>1. q \in FileQuery /\ q.kind = kind /\ q.related = related /\ q.status = "pending"
  BY DEF FileQuery
<1> HIDE DEF q
<1>2. more = Append(all, q)
  OBVIOUS
<1>3. /\ more \in Seq(FileQuery) /\ Len(more) = Len(all) + 1 /\ DOMAIN more = DOMAIN all \cup {Len(more)}
      /\ Len(more) \notin DOMAIN all
      /\ more[Len(more)] = q /\ \A n \in DOMAIN all : more[n] = all[n]
  BY <1>1, <1>2
<1> HIDE DEF more
<1>4. NoHidden(more) = NoHidden(all)
  BY <1>1, <1>3 DEF NoHidden
<1>5. \A r : Failed(all, r) => Failed(more, r)
  BY <1>3 DEF Failed
<1>6. DropFailed(all) => DropFailed(more)
  BY <1>3 DEF DropFailed
<1> QED BY <1>1, <1>3, <1>4, <1>5, <1>6 DEF more, q

(* Each answer, to a form that waits for it or not.                         *)
LEMMA DropFailsKeeps ==
  ASSUME FileInv, NEW n \in DOMAIN fileQueries, Related!DropFails(n)
  PROVE  FileInv'
<1>1. /\ fileQueries[n].kind = "drop" /\ fileQueries[n].status = "pending" /\ loading' = "error"
      /\ fileQueries' = Related!Answered(n, "failed")
      /\ UNCHANGED <<filter, shown, profileQuery, queryFile, profiled, selected, rendered, dropRefused>>
  BY DEF Related!DropFails
<1>2. /\ fileQueries' \in Seq(FileQuery) /\ Len(fileQueries') = Len(fileQueries)
      /\ DOMAIN fileQueries' = DOMAIN fileQueries
      /\ fileQueries'[n].status = "failed"
      /\ \A m \in DOMAIN fileQueries \ {n} : fileQueries'[m].status = fileQueries[m].status
      /\ \A m \in DOMAIN fileQueries :
           fileQueries'[m].kind = fileQueries[m].kind /\ fileQueries'[m].related = fileQueries[m].related
      /\ NoHidden(fileQueries') = NoHidden(fileQueries)
      /\ \A related : Failed(fileQueries, related) => Failed(fileQueries', related)
      /\ DropFailed(fileQueries')
  BY <1>1, AnsweredOf DEF FileInv, FileTypes
<1>3. shown /\ (profileQuery = 0 \/ profileQuery \in DOMAIN fileQueries)
  BY <1>1 DEF FileInv, FileTypes, DropInv, Dropped
<1>4. FileTypes'
  BY <1>1, <1>2, <1>3 DEF FileInv, FileTypes
<1>5. QueryInv'
  BY <1>1, <1>2, <1>3 DEF FileInv, QueryInv
<1>6. DropInv'
  <2>1. \A m \in DOMAIN fileQueries' : ~Dropped(fileQueries'[m])
    BY <1>1, <1>2 DEF FileInv, DropInv, Dropped
  <2> QED BY <1>2, <2>1 DEF DropInv
<1>7. ColumnsInv'
  BY <1>1, <1>2 DEF FileInv, ColumnsInv
<1> QED BY <1>4, <1>5, <1>6, <1>7 DEF FileInv

LEMMA DropProfiledKeeps ==
  ASSUME FileInv, NEW n \in DOMAIN fileQueries, Related!DropProfiled(n)
  PROVE  FileInv'
<1> DEFINE r == fileQueries[n].related
<1>1. /\ shown /\ fileQueries[n].kind = "drop" /\ fileQueries[n].status = "pending"
      /\ fileQueries' = Related!Answered(n, "answered")
      /\ \/ /\ profileQuery = n /\ filter' = r /\ queryFile' = r /\ profiled' = r.file /\ selected' = r.columns
            /\ loading' = "success" /\ profileQuery' = 0
         \/ /\ profileQuery # n /\ loading' = "error" /\ UNCHANGED <<filter, profileQuery, queryFile, profiled, selected>>
      /\ UNCHANGED <<shown, rendered, dropRefused>>
  BY DEF Related!DropProfiled
<1>2. /\ fileQueries' \in Seq(FileQuery) /\ Len(fileQueries') = Len(fileQueries)
      /\ DOMAIN fileQueries' = DOMAIN fileQueries
      /\ fileQueries'[n].status = "answered"
      /\ \A m \in DOMAIN fileQueries \ {n} : fileQueries'[m].status = fileQueries[m].status
      /\ \A m \in DOMAIN fileQueries :
           fileQueries'[m].kind = fileQueries[m].kind /\ fileQueries'[m].related = fileQueries[m].related
      /\ NoHidden(fileQueries') = NoHidden(fileQueries)
      /\ \A related : Failed(fileQueries, related) => Failed(fileQueries', related)
      /\ DropFailed(fileQueries) => DropFailed(fileQueries')
  BY <1>1, AnsweredOf DEF FileInv, FileTypes
<1>3. /\ profileQuery = 0 \/ profileQuery \in DOMAIN fileQueries
      /\ r \in Chosen /\ r # Related!NoFile
  <2>1. fileQueries[n] \in FileQuery /\ (profileQuery = 0 \/ profileQuery \in DOMAIN fileQueries)
    BY DEF FileInv, FileTypes
  <2> QED BY <2>1, FileIsChosen DEF FileQuery
<1> HIDE DEF r
<1>4. FileTypes'
  BY <1>1, <1>2, <1>3 DEF FileInv, FileTypes
<1>5. QueryInv'
  BY <1>1, <1>2, <1>3 DEF FileInv, QueryInv
<1>6. DropInv'
  <2>1. \A m \in DOMAIN fileQueries' : ~Dropped(fileQueries'[m])
    BY <1>1, <1>2 DEF FileInv, DropInv, Dropped
  <2>2. loading' = "error" => rendered \/ ~NoHidden(fileQueries)
    BY <1>1 DEF FileInv, DropInv, Dropped
  <2> QED BY <1>1, <1>2, <2>1, <2>2 DEF DropInv
<1>7. ColumnsInv'
  BY <1>1, <1>2, <1>3 DEF FileInv, ColumnsInv, r
<1> QED BY <1>4, <1>5, <1>6, <1>7 DEF FileInv

LEMMA GetProfiledKeeps ==
  ASSUME FileInv, NEW n \in DOMAIN fileQueries, Related!GetProfiled(n)
  PROVE  FileInv'
<1> DEFINE r == fileQueries[n].related
<1>1. /\ fileQueries[n].kind = "get" /\ fileQueries[n].status = "pending"
      /\ fileQueries' = Related!Answered(n, "answered")
      /\ \/ profileQuery = n /\ profiled' = r.file /\ selected' = r.columns
         \/ profileQuery # n /\ UNCHANGED <<profiled, selected>>
      /\ UNCHANGED <<filter, shown, profileQuery, queryFile, loading, rendered, dropRefused>>
  BY DEF Related!GetProfiled
<1>2. /\ fileQueries' \in Seq(FileQuery) /\ Len(fileQueries') = Len(fileQueries)
      /\ DOMAIN fileQueries' = DOMAIN fileQueries
      /\ fileQueries'[n].status = "answered"
      /\ \A m \in DOMAIN fileQueries \ {n} : fileQueries'[m].status = fileQueries[m].status
      /\ \A m \in DOMAIN fileQueries :
           fileQueries'[m].kind = fileQueries[m].kind /\ fileQueries'[m].related = fileQueries[m].related
      /\ NoHidden(fileQueries') = NoHidden(fileQueries)
      /\ \A related : Failed(fileQueries, related) => Failed(fileQueries', related)
      /\ DropFailed(fileQueries) => DropFailed(fileQueries')
  BY <1>1, AnsweredOf DEF FileInv, FileTypes
<1>3. /\ profileQuery = 0 \/ profileQuery \in DOMAIN fileQueries
      /\ n # 0
  BY DEF FileInv, FileTypes
<1>4. profileQuery = n => shown /\ filter # Related!NoFile /\ r = filter
  BY <1>1, <1>3 DEF FileInv, FileTypes, QueryInv
<1> HIDE DEF r
<1>5. FileTypes'
  BY <1>1, <1>2, <1>3, <1>4 DEF FileInv, FileTypes
<1>6. QueryInv'
  BY <1>1, <1>2, <1>3, <1>4 DEF FileInv, QueryInv
<1>7. DropInv'
  <2>1. \A m \in DOMAIN fileQueries : Dropped(fileQueries'[m]) = Dropped(fileQueries[m])
    BY <1>1, <1>2 DEF Dropped
  <2> QED BY <1>1, <1>2, <2>1 DEF FileInv, DropInv
<1>8. ColumnsInv'
  BY <1>1, <1>2, <1>4 DEF FileInv, ColumnsInv
<1> QED BY <1>5, <1>6, <1>7, <1>8 DEF FileInv

LEMMA GetFailsKeeps ==
  ASSUME FileInv, NEW n \in DOMAIN fileQueries, Related!GetFails(n)
  PROVE  FileInv'
<1> DEFINE r == fileQueries[n].related
<1>1. /\ fileQueries[n].kind = "get" /\ fileQueries[n].status = "pending"
      /\ fileQueries' = Related!Answered(n, "failed")
      /\ UNCHANGED <<filter, shown, profileQuery, queryFile, profiled, selected, loading, rendered, dropRefused>>
  BY DEF Related!GetFails
<1>2. /\ fileQueries' \in Seq(FileQuery) /\ Len(fileQueries') = Len(fileQueries)
      /\ DOMAIN fileQueries' = DOMAIN fileQueries
      /\ fileQueries'[n].status = "failed"
      /\ \A m \in DOMAIN fileQueries \ {n} : fileQueries'[m].status = fileQueries[m].status
      /\ \A m \in DOMAIN fileQueries :
           fileQueries'[m].kind = fileQueries[m].kind /\ fileQueries'[m].related = fileQueries[m].related
      /\ NoHidden(fileQueries') = NoHidden(fileQueries)
      /\ \A related : Failed(fileQueries, related) => Failed(fileQueries', related)
      /\ Failed(fileQueries', r)
      /\ DropFailed(fileQueries) => DropFailed(fileQueries')
  BY <1>1, AnsweredOf DEF FileInv, FileTypes
<1>3. profileQuery = 0 \/ profileQuery \in DOMAIN fileQueries
  BY DEF FileInv, FileTypes
<1>4. profileQuery = n /\ n # 0 /\ filter # Related!NoFile => r = filter
  BY <1>1, <1>3 DEF FileInv, QueryInv
<1> HIDE DEF r
<1>5. FileTypes'
  BY <1>1, <1>2, <1>3, <1>4 DEF FileInv, FileTypes
<1>6. QueryInv'
  BY <1>1, <1>2, <1>3, <1>4 DEF FileInv, QueryInv
<1>7. DropInv'
  <2>1. \A m \in DOMAIN fileQueries : Dropped(fileQueries'[m]) = Dropped(fileQueries[m])
    BY <1>1, <1>2 DEF Dropped
  <2> QED BY <1>1, <1>2, <2>1 DEF FileInv, DropInv
<1>8. ColumnsInv'
  BY <1>1, <1>2, <1>4 DEF FileInv, ColumnsInv
<1> QED BY <1>5, <1>6, <1>7, <1>8 DEF FileInv

(* A file is dropped: nothing is being profiled for the form.               *)
LEMMA DropKeeps ==
  ASSUME FileInv, NEW f \in LocalFiles, Related!HandleSelectedFile(f)
  PROVE  FileInv'
<1> DEFINE r == [file |-> f, columns |-> ColumnsOf[f], edit |-> 0]
<1>1. /\ shown /\ filter = Related!NoFile /\ loading # "progress"
      /\ loading' = "progress" /\ rendered' = FALSE
      /\ fileQueries' = Append(fileQueries, [kind |-> "drop", related |-> r, status |-> "pending"])
      /\ profileQuery' = Len(fileQueries') /\ UNCHANGED <<filter, shown, queryFile, profiled, selected>>
  BY DEF Related!HandleSelectedFile, Related!Ask
<1>2. r \in Chosen /\ r.columns = ColumnsOf[r.file]
  BY FileIsChosen
<1>3. fileQueries \in Seq(FileQuery) /\ Len(fileQueries) \in Nat
  BY DEF FileInv, FileTypes
<1> HIDE DEF r
<1>4. /\ fileQueries' \in Seq(FileQuery) /\ Len(fileQueries') = Len(fileQueries) + 1
      /\ DOMAIN fileQueries' = DOMAIN fileQueries \cup {Len(fileQueries')}
      /\ \A n \in DOMAIN fileQueries : fileQueries'[n] = fileQueries[n]
      /\ fileQueries'[Len(fileQueries')].kind = "drop" /\ fileQueries'[Len(fileQueries')].related = r
      /\ NoHidden(fileQueries') = NoHidden(fileQueries)
  BY <1>1, <1>2, <1>3, AskedOf
<1>5. FileTypes'
  BY <1>1, <1>3, <1>4 DEF FileInv, FileTypes
<1>6. QueryInv'
  BY <1>1, <1>4 DEF QueryInv
<1>7. DropInv'
  <2>1. \A n \in DOMAIN fileQueries : ~Dropped(fileQueries'[n])
    BY <1>1, <1>4 DEF FileInv, DropInv
  <2> QED BY <1>1, <1>4, <2>1 DEF DropInv
<1>8. ColumnsInv'
  BY <1>1, <1>2, <1>4 DEF FileInv, ColumnsInv
<1> QED BY <1>5, <1>6, <1>7, <1>8 DEF FileInv

LEMMA RenderAndCloseKeep ==
  ASSUME FileInv, Related!RenderedAgain \/ Related!Close \/ Related!RejectFile
  PROVE  FileInv'
<1>1. /\ UNCHANGED <<filter, shown, fileQueries, queryFile, profiled, selected>>
      /\ \/ filter = Related!NoFile /\ shown /\ profileQuery' = 0 /\ rendered' = TRUE /\ loading' = loading
         \/ shown /\ loading = "error" /\ loading' = "undefined" /\ UNCHANGED <<profileQuery, rendered>>
         \/ /\ filter = Related!NoFile /\ shown /\ profileQuery' = 0 /\ rendered' = rendered
            /\ loading # "progress" /\ loading' = "error" /\ dropRefused' = TRUE
  BY DEF Related!RenderedAgain, Related!Close, Related!RejectFile
<1>2. FileTypes' /\ QueryInv' /\ DropInv' /\ ColumnsInv'
  BY <1>1 DEF FileInv, FileTypes, QueryInv, DropInv, ColumnsInv
<1> QED BY <1>2 DEF FileInv

(* The form asks for the profile of the file that is searched with from now *)
(* on; the columns of that are its own if nothing was hidden.               *)
LEMMA AskKeeps ==
  ASSUME FileInv, NEW all, NEW r \in Chosen,
         all \in Seq(FileQuery), DOMAIN all = DOMAIN fileQueries,
         \A n \in DOMAIN all : all[n].kind = fileQueries[n].kind /\ all[n].related = fileQueries[n].related,
         \A n \in DOMAIN all : Dropped(all[n]) => Dropped(fileQueries[n]),
         DropFailed(fileQueries) => DropFailed(all),
         fileQueries' = Append(all, [kind |-> "get", related |-> r, status |-> "pending"]),
         profileQuery' = Len(fileQueries'), shown', filter' = r, queryFile' = r,
         shown \/ \A n \in DOMAIN fileQueries : ~Dropped(fileQueries[n]),
         UNCHANGED <<profiled, loading, rendered, dropRefused>>,
         NoHidden(fileQueries) =>
           /\ r.columns \subseteq ColumnsOf[r.file]
           /\ profiled # "none" => profiled = r.file,
         \A n \in DOMAIN fileQueries : Dropped(fileQueries[n]) =>
           profileQuery # n \/ ~NoHidden(fileQueries)
  PROVE  FileInv'
<1>1. /\ fileQueries' \in Seq(FileQuery) /\ Len(fileQueries') = Len(all) + 1
      /\ DOMAIN fileQueries' = DOMAIN all \cup {Len(fileQueries')}
      /\ \A n \in DOMAIN all : fileQueries'[n] = all[n]
      /\ fileQueries'[Len(fileQueries')].kind = "get" /\ fileQueries'[Len(fileQueries')].related = r
      /\ fileQueries'[Len(fileQueries')].status = "pending"
      /\ NoHidden(fileQueries') = NoHidden(all)
      /\ DropFailed(all) => DropFailed(fileQueries')
  BY AskedOf
<1>2. NoHidden(all) = NoHidden(fileQueries)
  BY DEF NoHidden
<1>3. r # Related!NoFile /\ Len(all) \in Nat
  BY FileIsChosen
<1>4. FileTypes'
  BY <1>1, <1>3 DEF FileTypes
<1>5. QueryInv'
  BY <1>1, <1>3 DEF QueryInv
<1>6. DropInv'
  <2>1. ~Dropped(fileQueries'[Len(fileQueries')])
    BY <1>1 DEF Dropped
  <2>2. \A n \in DOMAIN fileQueries' : Dropped(fileQueries'[n]) => n \in DOMAIN fileQueries /\ Dropped(fileQueries[n])
    BY <1>1, <2>1
  <2> QED BY <1>1, <1>2, <2>2 DEF FileInv, DropInv
<1>7. ColumnsInv'
  BY <1>1, <1>2, <1>3 DEF FileInv, ColumnsInv
<1> QED BY <1>4, <1>5, <1>6, <1>7 DEF FileInv

LEMMA ShowKeeps ==
  ASSUME FileInv, Related!Show
  PROVE  FileInv'
<1>1. ~shown /\ shown' /\ UNCHANGED <<filter, profiled, selected, loading, rendered, dropRefused>>
  BY DEF Related!Show
<1>2. /\ queryFile = Related!NoFile /\ profileQuery = 0 /\ profiled = "none" /\ fileQueries \in Seq(FileQuery)
      /\ filter \in Chosen \cup {Related!NoFile} /\ shown' = TRUE
      /\ \A n \in DOMAIN fileQueries : ~Dropped(fileQueries[n])
  BY <1>1 DEF FileInv, FileTypes, DropInv, Related!Show
<1>3. CASE filter = Related!NoFile
  <2>1. UNCHANGED <<fileQueries, profileQuery, queryFile>>
    BY <1>3 DEF Related!Show
  <2> QED BY <1>1, <1>2, <1>3, <2>1 DEF FileInv, FileTypes, QueryInv, DropInv, ColumnsInv
<1>4. CASE filter # Related!NoFile
  <2>1. /\ fileQueries' = Append(fileQueries, [kind |-> "get", related |-> filter, status |-> "pending"])
        /\ profileQuery' = Len(fileQueries') /\ queryFile' = filter
    BY <1>2, <1>4 DEF Related!Show, Related!DidUpdate, Related!Ask
  <2>2. filter \in Chosen /\ (NoHidden(fileQueries) => filter.columns \subseteq ColumnsOf[filter.file])
    BY <1>2, <1>4 DEF FileInv, ColumnsInv
  <2> QED BY <1>1, <1>2, <2>1, <2>2, AskKeeps
<1> QED BY <1>3, <1>4

LEMMA EditKeeps ==
  ASSUME FileInv, NEW c \in UNION {SUBSET ColumnsOf[f] : f \in LocalFiles}, Related!Edit(c)
  PROVE  FileInv'
<1> DEFINE r == [queryFile EXCEPT !.columns = c, !.edit = filter.edit + 1]
<1>1. /\ shown /\ filter # Related!NoFile /\ loading \in {"undefined", "success"} /\ profiled # "none"
      /\ c \subseteq ColumnsOf[profiled] /\ filter' = r /\ Related!DidUpdate(r)
      /\ UNCHANGED <<shown, profiled, loading, rendered, dropRefused>>
  BY DEF Related!Edit
<1>2. queryFile = filter /\ filter \in Chosen /\ fileQueries \in Seq(FileQuery) /\ shown \in BOOLEAN
  BY <1>1 DEF FileInv, FileTypes
<1>3. c \subseteq AllColumns
  BY DEF AllColumns
<1>4. r \in Chosen /\ r.columns = c /\ r.file = filter.file /\ r.edit = filter.edit + 1 /\ filter.edit \in Nat
  <2>1. r = [filter EXCEPT !.columns = c, !.edit = filter.edit + 1]
    BY <1>2
  <2>2. filter \in [file : LocalFiles, columns : SUBSET AllColumns, edit : Nat]
    BY <1>2 DEF Chosen
  <2>3. filter.edit \in Nat /\ filter.edit + 1 \in Nat
    BY <2>2
  <2> HIDE DEF r
  <2> QED BY <1>3, <2>1, <2>2, <2>3 DEF Chosen
<1> HIDE DEF r
<1>5. r # queryFile
  <2>1. r.edit # filter.edit
    BY <1>4
  <2> QED BY <1>2, <2>1
<1>6. /\ fileQueries' = Append(fileQueries, [kind |-> "get", related |-> r, status |-> "pending"])
      /\ profileQuery' = Len(fileQueries') /\ queryFile' = r
  BY <1>1, <1>5 DEF Related!DidUpdate, Related!Ask
<1>7. \A n \in DOMAIN fileQueries : ~Dropped(fileQueries[n])
  BY <1>1 DEF FileInv, DropInv
<1>8. NoHidden(fileQueries) => profiled = r.file /\ r.columns \subseteq ColumnsOf[r.file]
  BY <1>1, <1>4 DEF FileInv, ColumnsInv
<1> QED BY <1>1, <1>2, <1>4, <1>6, <1>7, <1>8, AskKeeps

LEMMA HiddenKeeps ==
  ASSUME FileInv, NEW n \in DOMAIN fileQueries, Related!HiddenDropProfiled(n)
  PROVE  FileInv'
<1> DEFINE r == fileQueries[n].related
           all == Related!Answered(n, "answered")
<1>1. /\ fileQueries[n].kind = "hidden" /\ fileQueries[n].status = "pending" /\ filter' = r
      /\ UNCHANGED <<shown, profiled, selected, loading, rendered, dropRefused>>
  BY DEF Related!HiddenDropProfiled
<1>2. fileQueries[n] \in FileQuery /\ fileQueries \in Seq(FileQuery)
  BY DEF FileInv, FileTypes
<1>3. r \in Chosen /\ r # Related!NoFile
  BY <1>2, FileIsChosen DEF FileQuery
<1>4. ~NoHidden(fileQueries)
  BY <1>1 DEF NoHidden
<1>5. /\ all \in Seq(FileQuery) /\ Len(all) = Len(fileQueries) /\ DOMAIN all = DOMAIN fileQueries
      /\ all[n].status = "answered" /\ \A m \in DOMAIN fileQueries \ {n} : all[m].status = fileQueries[m].status
      /\ \A m \in DOMAIN fileQueries :
           all[m].kind = fileQueries[m].kind /\ all[m].related = fileQueries[m].related
      /\ NoHidden(all) = NoHidden(fileQueries)
      /\ \A related : Failed(fileQueries, related) => Failed(all, related)
      /\ DropFailed(fileQueries) => DropFailed(all)
  BY <1>1, <1>2, AnsweredOf
<1>6. \A m \in DOMAIN fileQueries : Dropped(all[m]) => Dropped(fileQueries[m])
  BY <1>1, <1>5 DEF Dropped
<1>7. CASE shown /\ queryFile # r
  <2>1. /\ fileQueries' = Append(all, [kind |-> "get", related |-> r, status |-> "pending"])
        /\ profileQuery' = Len(fileQueries') /\ queryFile' = r
    BY <1>7 DEF Related!HiddenDropProfiled
  <2> HIDE DEF r, all
  <2> QED BY <1>1, <1>3, <1>4, <1>5, <1>6, <1>7, <2>1, AskKeeps
<1>8. CASE ~(shown /\ queryFile # r)
  <2>1. fileQueries' = all /\ UNCHANGED <<profileQuery, queryFile>>
    BY <1>8 DEF Related!HiddenDropProfiled
  <2>2. IF shown THEN filter = r ELSE profileQuery = 0
    BY <1>8 DEF FileInv, FileTypes
  <2>3. profileQuery = 0 \/ (profileQuery \in DOMAIN fileQueries /\ profileQuery # n)
    BY <1>1 DEF FileInv, FileTypes, QueryInv
  <2> HIDE DEF r, all
  <2>4. FileTypes'
    BY <1>1, <1>3, <1>5, <2>1, <2>2 DEF FileInv, FileTypes
  <2>5. QueryInv'
    BY <1>1, <1>3, <1>5, <2>1, <2>2, <2>3 DEF FileInv, FileTypes, QueryInv
  <2>6. DropInv'
    BY <1>1, <1>4, <1>5, <1>6, <2>1 DEF FileInv, DropInv
  <2>7. ColumnsInv'
    BY <1>4, <1>5, <2>1 DEF FileInv, ColumnsInv
  <2> QED BY <2>4, <2>5, <2>6, <2>7 DEF FileInv
<1> QED BY <1>7, <1>8

(* The form is gone, and what it asked for: but a file that was dropped     *)
(* last is still given to the page, unless that was reloaded.               *)
LEMMA HideKeeps ==
  ASSUME FileInv, Related!Hide \/ \E f \in LocalFiles \cup {"none"} : Related!Search(f)
  PROVE  FileInv'
<1>1. /\ profileQuery' = 0 /\ queryFile' = Related!NoFile /\ profiled' = "none" /\ loading' = "undefined"
      /\ shown' = FALSE
  BY DEF Related!Hide, Related!Search
<1>2. /\ fileQueries \in Seq(FileQuery) /\ \A n \in DOMAIN fileQueries : fileQueries[n] \in FileQuery
      /\ DOMAIN fileQueries = 1..Len(fileQueries) /\ Len(fileQueries) \in Nat
  BY DEF FileInv, FileTypes
<1>3. /\ DOMAIN fileQueries' = DOMAIN fileQueries
      /\ \A n \in DOMAIN fileQueries :
           \/ fileQueries[n].status # "pending" /\ fileQueries'[n] = fileQueries[n]
           \/ fileQueries[n].kind = "hidden" /\ fileQueries'[n] = fileQueries[n]
           \/ fileQueries'[n] = [fileQueries[n] EXCEPT !.status = "forgotten"]
           \/ fileQueries[n].kind # "hidden" /\ fileQueries'[n] = [fileQueries[n] EXCEPT !.kind = "hidden"]
  BY DEF Related!Hide, Related!Search
<1>4. \A q \in FileQuery :
        /\ [q EXCEPT !.status = "forgotten"] \in FileQuery /\ [q EXCEPT !.status = "forgotten"].kind = q.kind
        /\ [q EXCEPT !.status = "forgotten"].status = "forgotten"
        /\ [q EXCEPT !.status = "forgotten"].related = q.related
        /\ [q EXCEPT !.kind = "hidden"] \in FileQuery /\ [q EXCEPT !.kind = "hidden"].kind = "hidden"
  BY DEF FileQuery
<1>5. \A n \in DOMAIN fileQueries : fileQueries'[n] \in FileQuery /\ ~Dropped(fileQueries'[n])
  <2> SUFFICES ASSUME NEW n \in DOMAIN fileQueries PROVE fileQueries'[n] \in FileQuery /\ ~Dropped(fileQueries'[n])
    OBVIOUS
  <2> DEFINE q == fileQueries[n]
             p == fileQueries'[n]
  <2>1. q \in FileQuery
    BY <1>2
  <2>2. \/ q.status # "pending" /\ p = q
        \/ q.kind = "hidden" /\ p = q
        \/ p = [q EXCEPT !.status = "forgotten"]
        \/ p = [q EXCEPT !.kind = "hidden"]
    BY <1>3
  <2> HIDE DEF p, q
  <2>3. p \in FileQuery /\ ~Dropped(p)
    BY <1>4, <2>1, <2>2 DEF Dropped
  <2> QED BY <2>3 DEF p
<1>6. fileQueries' \in Seq(FileQuery)
  <2>1. fileQueries' = [n \in DOMAIN fileQueries |-> fileQueries'[n]]
    BY <1>3 DEF Related!Hide, Related!Search
  <2> QED BY <1>2, <1>5, <2>1
<1>7. NoHidden(fileQueries') => NoHidden(fileQueries)
  BY <1>2, <1>3, <1>4 DEF NoHidden
<1>8. \A n \in DOMAIN fileQueries : fileQueries'[n].kind = "drop" =>
        fileQueries[n].kind = "drop" /\ fileQueries'[n].related = fileQueries[n].related
  BY <1>2, <1>3, <1>4
<1>9. filter' \in Chosen \cup {Related!NoFile}
  BY FileIsChosen DEF Related!Hide, Related!Search, FileInv, FileTypes
<1>10. filter' = filter \/ (filter' # Related!NoFile => filter'.columns \subseteq ColumnsOf[filter'.file])
  BY FileIsChosen DEF Related!Hide, Related!Search
<1>11. FileTypes'
  <2>1. profileQuery' \in 0..Len(fileQueries')
    BY <1>1, <1>6
  <2> QED BY <1>1, <1>6, <1>9, <2>1 DEF FileTypes
<1>12. QueryInv' /\ DropInv'
  BY <1>1, <1>3, <1>5 DEF QueryInv, DropInv
<1>13. ColumnsInv'
  BY <1>1, <1>3, <1>7, <1>8, <1>10 DEF FileInv, ColumnsInv
<1> QED BY <1>11, <1>12, <1>13 DEF FileInv

LEMMA FileMoves ==
  ASSUME FileInv, [Related!Next]_fileVars
  PROVE  FileInv'
<1>1. CASE UNCHANGED fileVars
  BY <1>1 DEF fileVars, FileInv, FileTypes, QueryInv, DropInv, ColumnsInv
<1>2. CASE Related!Next
  BY <1>2, DropFailsKeeps, DropProfiledKeeps, GetProfiledKeeps, GetFailsKeeps, DropKeeps, RenderAndCloseKeep,
     ShowKeeps, EditKeeps, HiddenKeeps, HideKeeps DEF Related!Next
<1> QED BY <1>1, <1>2

(* What else the form keeps has its type.                                   *)
FileRest ==
  /\ profiled \in LocalFiles \cup {"none"} /\ selected \in (SUBSET AllColumns) \cup {Related!Undefined}
  /\ loading \in {"undefined", "progress", "success", "error"}
  /\ rendered \in BOOLEAN /\ dropRefused \in BOOLEAN

LEMMA FileRestMoves ==
  ASSUME FileInv, FileRest, [Related!Next]_fileVars
  PROVE  FileRest'
<1>1. \A n \in DOMAIN fileQueries : fileQueries[n].related.file \in LocalFiles /\ fileQueries[n].related.columns \subseteq AllColumns
  <2> SUFFICES ASSUME NEW n \in DOMAIN fileQueries
               PROVE  fileQueries[n].related.file \in LocalFiles /\ fileQueries[n].related.columns \subseteq AllColumns
    OBVIOUS
  <2>1. fileQueries[n] \in FileQuery
    BY DEF FileInv, FileTypes
  <2>2. fileQueries[n].related \in Chosen
    BY <2>1 DEF FileQuery
  <2> QED BY <2>2 DEF Chosen
<1>2. ASSUME NEW n \in DOMAIN fileQueries, Related!DropProfiled(n) \/ Related!GetProfiled(n)
      PROVE  FileRest'
  BY <1>1, <1>2 DEF FileRest, Related!DropProfiled, Related!GetProfiled
<1>3. ASSUME NEW n \in DOMAIN fileQueries,
             Related!DropFails(n) \/ Related!GetFails(n) \/ Related!HiddenDropProfiled(n)
      PROVE  FileRest'
  BY <1>3 DEF FileRest, Related!DropFails, Related!GetFails, Related!HiddenDropProfiled
<1>4. ASSUME NEW f, Related!HandleSelectedFile(f) \/ Related!Search(f)
      PROVE  FileRest'
  BY <1>4 DEF FileRest, Related!HandleSelectedFile, Related!Search
<1>5. CASE Related!RejectFile \/ Related!RenderedAgain \/ Related!Close \/ Related!Hide \/ Related!Show
  BY <1>5 DEF FileRest, Related!RejectFile, Related!RenderedAgain, Related!Close, Related!Hide, Related!Show
<1>6. ASSUME NEW c \in UNION {SUBSET ColumnsOf[f] : f \in LocalFiles}, Related!Edit(c)
      PROVE  FileRest'
  <2>1. c \subseteq AllColumns
    BY DEF AllColumns
  <2> QED BY <1>6, <2>1 DEF FileRest, Related!Edit
<1>7. CASE UNCHANGED fileVars
  BY <1>7 DEF FileRest, fileVars
<1> QED BY <1>2, <1>3, <1>4, <1>5, <1>6, <1>7 DEF Related!Next

LEMMA FileTyped ==
  ASSUME FileInv, FileRest
  PROVE  Related!RelatedTypeOK
<1>1. Chosen = Related!RelatedFiles /\ AllColumns = Related!AllColumns
  BY DEF Chosen, AllColumns, Related!RelatedFiles, Related!AllColumns
<1>2. fileQueries \in Seq(FileQuery)
  BY DEF FileInv, FileTypes
<1>3. FileQuery = [kind : {"drop", "get", "hidden"}, related : Related!RelatedFiles,
                   status : {"pending", "answered", "failed", "forgotten"}]
  BY <1>1 DEF FileQuery
<1>4. /\ filter \in Chosen \cup {Related!NoFile} /\ queryFile \in Chosen \cup {Related!NoFile}
      /\ profileQuery \in 0..Len(fileQueries) /\ shown \in BOOLEAN
  BY DEF FileInv, FileTypes
<1> QED BY <1>1, <1>2, <1>3, <1>4 DEF FileRest, Related!RelatedTypeOK

LEMMA InitFileRest == Init => FileRest
BY DEF Init, Related!Init, FileRest

LEMMA FileGood ==
  ASSUME FileInv
  PROVE  Related!FormsAgree /\ Related!ColumnsOfFile
<1>1. profileQuery = 0 \/ profileQuery \in DOMAIN fileQueries
  BY DEF FileInv, FileTypes
<1>2. Related!FormsAgree
  BY <1>1 DEF FileInv, QueryInv, DropInv, Failed, DropFailed, NoHidden, Related!FormsAgree, Related!Pending
<1>3. Related!ColumnsOfFile
  BY DEF FileInv, ColumnsInv, NoHidden, Related!ColumnsOfFile
<1> QED BY <1>2, <1>3

LEMMA InitFile == Init => FileInv
<1> SUFFICES ASSUME Init PROVE FileInv
  OBVIOUS
<1>1. /\ filter = Related!NoFile /\ shown = TRUE /\ fileQueries = <<>> /\ profileQuery = 0
      /\ queryFile = Related!NoFile /\ profiled = "none" /\ loading = "undefined"
  BY DEF Init, Related!Init
<1> QED BY <1>1 DEF FileInv, FileTypes, QueryInv, DropInv, ColumnsInv, NoHidden, Related!NoFile

-----------------------------------------------------------------------------
(* UploadForm.  While the last file is being profiled, what else is being   *)
(* profiled are its rivals; once it was, the profile shown is its own, or   *)
(* that of a rival.                                                         *)
FileProfile ==
  [file : LocalFiles, status : {"pending", "answered", "failed"}, rivals : SUBSET Nat]
OfLatest(data, latest) == data \in {latest} \cup uploadProfiles[latest].rivals
UploadTypes ==
  /\ Form!UploadTypeOK /\ uploadProfiles \in Seq(FileProfile)
LatestInv ==
  /\ \A n \in DOMAIN uploadProfiles : Form!Pending(n) => OfLatest(n, Len(uploadProfiles))
  /\ Len(uploadProfiles) # 0 /\ uploadProfiles[Len(uploadProfiles)].status = "answered" =>
       OfLatest(profiledData, Len(uploadProfiles))
UploadedInv ==
  /\ profiledData # cleared => edited \subseteq columnsName
  /\ uploaded # <<>> =>
       /\ uploaded.answered => uploaded.latest \in 1..Len(uploadProfiles) /\ OfLatest(uploaded.data, uploaded.latest)
       /\ uploaded.edited \subseteq uploaded.columns
UploadInv == UploadTypes /\ LatestInv /\ UploadedInv /\ Form!ProgressMeansPending

(* A profile that is answered keeps its file and its rivals.                *)
LEMMA ProfileAnswered ==
  ASSUME uploadProfiles \in Seq(FileProfile), NEW n \in DOMAIN uploadProfiles,
         NEW status \in {"answered", "failed"},
         uploadProfiles' = [uploadProfiles EXCEPT ![n].status = status]
  PROVE  /\ uploadProfiles' \in Seq(FileProfile) /\ Len(uploadProfiles') = Len(uploadProfiles)
         /\ DOMAIN uploadProfiles' = DOMAIN uploadProfiles
         /\ uploadProfiles'[n].status = status
         /\ \A m \in DOMAIN uploadProfiles \ {n} : uploadProfiles'[m].status = uploadProfiles[m].status
         /\ \A m \in DOMAIN uploadProfiles :
              uploadProfiles'[m].file = uploadProfiles[m].file /\ uploadProfiles'[m].rivals = uploadProfiles[m].rivals
<1> DEFINE p == [uploadProfiles[n] EXCEPT !.status = status]
<1>1. uploadProfiles' = [uploadProfiles EXCEPT ![n] = p]
  OBVIOUS
<1>2. uploadProfiles[n] \in FileProfile
  OBVIOUS
<1>3. /\ p \in FileProfile /\ p.status = status /\ p.file = uploadProfiles[n].file
      /\ p.rivals = uploadProfiles[n].rivals
  BY <1>2 DEF FileProfile
<1> HIDE DEF p
<1>4. /\ uploadProfiles' \in Seq(FileProfile) /\ Len(uploadProfiles') = Len(uploadProfiles)
      /\ DOMAIN uploadProfiles' = DOMAIN uploadProfiles /\ uploadProfiles'[n] = p
      /\ \A m \in DOMAIN uploadProfiles \ {n} : uploadProfiles'[m] = uploadProfiles[m]
  BY <1>1, <1>3
<1> QED BY <1>3, <1>4

LEMMA ChosenKeeps ==
  ASSUME UploadInv, NEW file \in LocalFiles \cup {Form!NoFile}, Form!OnProfileData(file)
  PROVE  UploadInv'
<1>1. /\ tab = "upload" /\ input' = file /\ profilingStatus' = "progress"
      /\ UNCHANGED <<tab, address, profiledData, edited, columnsName, submitting, cleared, uploaded>>
  BY DEF Form!OnProfileData
<1>2. uploadProfiles \in Seq(FileProfile) /\ Len(uploadProfiles) \in Nat /\ profiledData \in 0..Len(uploadProfiles)
  BY DEF UploadInv, UploadTypes, Form!UploadTypeOK
<1>3. CASE file = Form!NoFile
  <2>1. uploadProfiles' = uploadProfiles
    BY <1>3 DEF Form!OnProfileData
  <2> QED BY <1>1, <1>3, <2>1 DEF UploadInv, UploadTypes, LatestInv, UploadedInv, OfLatest, Form!UploadTypeOK,
            Form!ProfiledColumns, Form!Pending, Form!ProgressMeansPending
<1>4. CASE file # Form!NoFile
  <2> DEFINE rivals == {n \in DOMAIN uploadProfiles : uploadProfiles[n].status = "pending"}
             p == [file |-> file, status |-> "pending", rivals |-> rivals]
             m == Len(uploadProfiles')
  <2>1. uploadProfiles' = Append(uploadProfiles, p)
    BY <1>4 DEF Form!OnProfileData
  <2>2. rivals \subseteq Nat
    BY <1>2
  <2> HIDE DEF rivals
  <2>3. p \in FileProfile /\ p.status = "pending" /\ p.rivals = rivals
    BY <1>4, <2>2 DEF FileProfile
  <2> HIDE DEF p
  <2>4. /\ uploadProfiles' \in Seq(FileProfile) /\ m = Len(uploadProfiles) + 1 /\ uploadProfiles'[m] = p
        /\ DOMAIN uploadProfiles' = DOMAIN uploadProfiles \cup {m} /\ m \notin DOMAIN uploadProfiles
        /\ \A n \in DOMAIN uploadProfiles : uploadProfiles'[n] = uploadProfiles[n]
        /\ DOMAIN uploadProfiles = 1..Len(uploadProfiles)
    BY <1>2, <2>1, <2>3
  <2>5. m \in DOMAIN uploadProfiles' /\ m = Len(uploadProfiles') /\ m \in Nat
    BY <1>2, <2>4
  <2> HIDE DEF m
  <2>6. Form!ProfiledColumns' = Form!ProfiledColumns
    BY <1>1, <1>2, <2>4 DEF Form!ProfiledColumns
  <2>7. profiledData' \in 0..Len(uploadProfiles')
    BY <1>1, <1>2, <2>4, <2>5
  <2>8. UploadTypes'
    BY <1>1, <2>4, <2>6, <2>7 DEF UploadInv, UploadTypes, Form!UploadTypeOK
  <2>9. LatestInv'
    BY <2>3, <2>4, <2>5 DEF LatestInv, OfLatest, Form!Pending, rivals
  <2>10. \A latest \in 1..Len(uploadProfiles) :
           latest \in 1..Len(uploadProfiles') /\ \A data : OfLatest(data, latest) => OfLatest(data, latest)'
    BY <1>2, <2>4, <2>5 DEF OfLatest
  <2>11. UploadedInv'
    BY <1>1, <2>10 DEF UploadInv, UploadedInv
  <2>12. Form!ProgressMeansPending'
    BY <2>3, <2>4, <2>5 DEF Form!ProgressMeansPending, Form!Pending
  <2> QED BY <2>8, <2>9, <2>11, <2>12 DEF UploadInv
<1> QED BY <1>3, <1>4

LEMMA AnswerKeepsForm ==
  ASSUME UploadInv, NEW n \in DOMAIN uploadProfiles, Form!Profiled(n) \/ Form!ProfileFails(n)
  PROVE  UploadInv'
<1>1. PICK status \in {"answered", "failed"} :
        /\ uploadProfiles' = [uploadProfiles EXCEPT ![n].status = status]
        /\ IF status = "answered" THEN profiledData' = n /\ edited' = {} ELSE UNCHANGED <<profiledData, edited>>
  BY DEF Form!Profiled, Form!ProfileFails
<1>2. /\ Form!Pending(n) /\ profilingStatus' \in {"success", "error"}
      /\ UNCHANGED <<tab, input, address, columnsName, submitting, cleared, uploaded>>
  BY DEF Form!Profiled, Form!ProfileFails
<1>3. uploadProfiles \in Seq(FileProfile) /\ DOMAIN uploadProfiles = 1..Len(uploadProfiles) /\ Len(uploadProfiles) \in Nat
  BY DEF UploadInv, UploadTypes
<1>4. /\ uploadProfiles' \in Seq(FileProfile) /\ Len(uploadProfiles') = Len(uploadProfiles)
      /\ DOMAIN uploadProfiles' = DOMAIN uploadProfiles
      /\ uploadProfiles'[n].status = status
      /\ \A m \in DOMAIN uploadProfiles \ {n} : uploadProfiles'[m].status = uploadProfiles[m].status
      /\ \A m \in DOMAIN uploadProfiles :
           uploadProfiles'[m].file = uploadProfiles[m].file /\ uploadProfiles'[m].rivals = uploadProfiles[m].rivals
  BY <1>1, <1>3, ProfileAnswered
<1>5. profiledData \in 0..Len(uploadProfiles) /\ profiledData' \in 0..Len(uploadProfiles')
  BY <1>1, <1>3, <1>4 DEF UploadInv, UploadTypes, Form!UploadTypeOK
<1>6. edited' \subseteq Form!ProfiledColumns'
  <2>1. CASE status = "answered"
    BY <1>1, <2>1
  <2>2. CASE status = "failed"
    <3>1. UNCHANGED <<profiledData, edited>>
      BY <1>1, <2>2
    <3> QED BY <1>3, <1>4, <1>5, <3>1 DEF UploadInv, UploadTypes, Form!UploadTypeOK, Form!ProfiledColumns
  <2> QED BY <2>1, <2>2
<1>7. UploadTypes'
  BY <1>2, <1>4, <1>5, <1>6 DEF UploadInv, UploadTypes, Form!UploadTypeOK
<1>8. \A latest \in 1..Len(uploadProfiles) : \A data : OfLatest(data, latest)' = OfLatest(data, latest)
  BY <1>3, <1>4 DEF OfLatest
<1>9. LatestInv'
  <2>1. \A m \in DOMAIN uploadProfiles : Form!Pending(m)' => Form!Pending(m)
    BY <1>2, <1>4 DEF Form!Pending
  <2>2. (\A m \in DOMAIN uploadProfiles : Form!Pending(m) => OfLatest(m, Len(uploadProfiles)))'
    BY <1>3, <1>4, <1>8, <2>1 DEF UploadInv, LatestInv
  <2>3. ASSUME Len(uploadProfiles) # 0, uploadProfiles'[Len(uploadProfiles)].status = "answered"
        PROVE  OfLatest(profiledData', Len(uploadProfiles))
    <3>1. OfLatest(n, Len(uploadProfiles))
      BY <1>2 DEF UploadInv, LatestInv
    <3>2. CASE status = "answered"
      BY <1>1, <3>1, <3>2
    <3>3. CASE status = "failed"
      <4>1. profiledData' = profiledData /\ n # Len(uploadProfiles)
        BY <1>1, <1>4, <2>3, <3>3
      <4>2. uploadProfiles[Len(uploadProfiles)].status = "answered"
        BY <1>3, <1>4, <2>3, <4>1
      <4> QED BY <2>3, <4>1, <4>2 DEF UploadInv, LatestInv
    <3> QED BY <3>2, <3>3
  <2>4. (Len(uploadProfiles) # 0 /\ uploadProfiles[Len(uploadProfiles)].status = "answered" =>
           OfLatest(profiledData, Len(uploadProfiles)))'
    BY <1>3, <1>4, <1>8, <2>3 DEF OfLatest
  <2> QED BY <2>2, <2>4 DEF LatestInv
<1>10. UploadedInv'
  <2>1. profiledData' # cleared' => edited' \subseteq columnsName'
    BY <1>1, <1>2 DEF UploadInv, UploadedInv
  <2> QED BY <1>2, <1>4, <1>8, <2>1 DEF UploadInv, UploadedInv
<1>11. Form!ProgressMeansPending'
  BY <1>2 DEF Form!ProgressMeansPending
<1> QED BY <1>7, <1>9, <1>10, <1>11 DEF UploadInv

(* What the user does, and how an upload ends.                              *)
LEMMA UserKeepsForm ==
  ASSUME UploadInv, \/ Form!SwitchTab \/ (\E typed \in BOOLEAN : Form!TypeAddress(typed))
                    \/ (\E column \in Form!ProfiledColumns : Form!UpdateColumnType(column))
                    \/ Form!SubmitAnswered \/ Form!SubmitFails \/ UNCHANGED uploadVars
  PROVE  UploadInv'
<1>1. UNCHANGED <<uploadProfiles, profiledData, uploaded>>
  BY DEF Form!SwitchTab, Form!TypeAddress, Form!UpdateColumnType, Form!SubmitAnswered, Form!SubmitFails, uploadVars
<1>2. Form!ProfiledColumns' = Form!ProfiledColumns
  BY <1>1 DEF Form!ProfiledColumns
<1>3. LatestInv'
  BY <1>1 DEF UploadInv, LatestInv, OfLatest, Form!Pending
<1>4. UploadTypes'
  BY <1>1, <1>2 DEF UploadInv, UploadTypes, Form!UploadTypeOK, Form!NoFile, uploadVars,
     Form!SwitchTab, Form!TypeAddress, Form!UpdateColumnType, Form!SubmitAnswered, Form!SubmitFails
<1>5. profiledData # cleared' => edited' \subseteq columnsName'
  BY DEF UploadInv, UploadedInv, uploadVars,
     Form!SwitchTab, Form!TypeAddress, Form!UpdateColumnType, Form!SubmitAnswered, Form!SubmitFails
<1>6. UploadedInv'
  BY <1>1, <1>5 DEF UploadInv, UploadedInv, OfLatest
<1>7. Form!ProgressMeansPending'
  BY <1>1 DEF UploadInv, Form!ProgressMeansPending, Form!Pending, Form!NoFile, uploadVars,
     Form!SwitchTab, Form!TypeAddress, Form!UpdateColumnType, Form!SubmitAnswered, Form!SubmitFails
<1> QED BY <1>3, <1>4, <1>6, <1>7 DEF UploadInv

LEMMA SubmitKeepsForm ==
  ASSUME UploadInv, Form!Submit
  PROVE  UploadInv'
<1> DEFINE m == Len(uploadProfiles)
           answered == m # 0 /\ uploadProfiles[m].status = "answered"
           corrected == IF profiledData = cleared THEN {} ELSE edited
           columns == Form!ProfiledColumns \cap columnsName
<1>1. /\ uploaded'.columns = columns /\ uploaded'.data = profiledData /\ uploaded'.latest = m
      /\ uploaded'.answered = answered /\ uploaded'.edited = corrected /\ submitting' = TRUE
      /\ UNCHANGED <<tab, input, address, uploadProfiles, profiledData, edited, columnsName, profilingStatus, cleared>>
  BY DEF Form!Submit
<1>2. uploadProfiles \in Seq(FileProfile) /\ m \in Nat
  BY DEF UploadInv, UploadTypes
<1>3. corrected \subseteq columns
  BY DEF UploadInv, UploadTypes, Form!UploadTypeOK, UploadedInv
<1>4. answered => m \in 1..m /\ OfLatest(profiledData, m)
  BY <1>2 DEF UploadInv, LatestInv
<1> HIDE DEF answered, corrected, columns
<1>5. UploadedInv'
  BY <1>1, <1>3, <1>4 DEF UploadInv, UploadedInv, OfLatest
<1>6. UploadTypes' /\ LatestInv' /\ Form!ProgressMeansPending'
  BY <1>1 DEF UploadInv, UploadTypes, LatestInv, OfLatest, Form!UploadTypeOK, Form!ProfiledColumns,
     Form!Pending, Form!ProgressMeansPending
<1> QED BY <1>5, <1>6 DEF UploadInv

LEMMA FormMoves ==
  ASSUME UploadInv, [Form!Next]_uploadVars
  PROVE  UploadInv'
BY ChosenKeeps, AnswerKeepsForm, UserKeepsForm, SubmitKeepsForm DEF Form!Next

LEMMA FormGood ==
  ASSUME UploadInv
  PROVE  Form!AnnotationsOfFile /\ Form!ProgressMeansPending
BY DEF UploadInv, UploadedInv, OfLatest, Form!AnnotationsOfFile

LEMMA InitForm == Init => UploadInv
<1> SUFFICES ASSUME Init PROVE UploadInv
  OBVIOUS
<1>1. /\ tab = "upload" /\ input = Form!NoFile /\ address = FALSE /\ uploadProfiles = <<>> /\ profiledData = 0
      /\ edited = {} /\ columnsName = {} /\ profilingStatus = "undefined" /\ submitting = FALSE
      /\ cleared = 0 /\ uploaded = <<>>
  BY DEF Init, Form!Init
<1>2. uploadProfiles \in Seq(FileProfile) /\ Len(uploadProfiles) = 0 /\ DOMAIN uploadProfiles = {}
  BY <1>1
<1>3. UploadTypes
  <2>1. profiledData \in 0..Len(uploadProfiles) /\ edited \subseteq Form!ProfiledColumns
    BY <1>1, <1>2
  <2> QED BY <1>1, <1>2, <2>1 DEF UploadTypes, Form!UploadTypeOK
<1> QED BY <1>1, <1>2, <1>3 DEF UploadInv, LatestInv, UploadedInv, Form!ProgressMeansPending

-----------------------------------------------------------------------------
(* In whatever order the server answers: the results on the page are those  *)
(* of the query, or of one that was unanswered when it was made; a task     *)
(* goes with the file that its hit was found for, and has the columns of    *)
(* the hits shown for it; the form of a related file agrees with the file   *)
(* that is searched with, and its columns are of that file; and corrected   *)
(* types go with the file they are of, but for the races that are named     *)
(* (SearchApp.tsx, SearchResults.tsx, AugmentationOptions.tsx,              *)
(* RelatedFileFilter.tsx, Upload.tsx).                                      *)
THEOREM PagesAreConsistent == Spec => []PagesConsistent
<1> DEFINE Inv == PageInv /\ FileInv /\ UploadInv
<1>1. Init => Inv
  BY InitPage, InitFile, InitForm
<1>2. Inv /\ [Next]_vars => Inv'
  <2> SUFFICES ASSUME Inv, [Next]_vars PROVE Inv'
    OBVIOUS
  <2>1. [Page!Next]_pageVars /\ [Related!Next]_fileVars /\ [Form!Next]_uploadVars
    BY StepOfOne
  <2> QED BY <2>1, PageMoves, FileMoves, FormMoves
<1>3. Inv => PagesConsistent
  BY PageGood, FileGood, FormGood DEF PagesConsistent
<1> QED BY <1>1, <1>2, <1>3, PTL DEF Spec

-----------------------------------------------------------------------------
(* The page is in one of its states.                                        *)
LEMMA SearchStateMoves ==
  ASSUME searchState \in {"clean", "requesting", "success", "failed"}, [Page!Next]_pageVars
  PROVE  searchState' \in {"clean", "requesting", "success", "failed"}
BY DEF Page!Next, Page!FetchSearchResults, Page!GoHome, Page!Respond, Page!SearchFails, Page!ViewDetails,
   Page!AugmentOptions, Page!HandleDrop, Page!RemoveColumn, Page!SetColumns,
   Page!SubmitAugmentationForm, Page!AugmentAnswers, Page!AddToSession, Page!SessionAnswers, pageVars

LEMMA PageTyped ==
  ASSUME PageInv, searchState \in {"clean", "requesting", "success", "failed"}
  PROVE  Page!PageTypeOK
<1>1. searching \subseteq DOMAIN asked
  BY DEF PageInv, PageTypes
<1>2. options # Page!Nothing => options.aggregations \subseteq options.columns
  BY DEF PageInv, OptionsInv
<1> QED BY <1>1, <1>2 DEF PageInv, PageTypes, Page!PageTypeOK

(* Of no component do the variables leave their types: no counter leaves    *)
(* its range, no ticket is taken twice or given back too often (discovery.  *)
(* py), the list of recent discoveries has no dataset twice and does not    *)
(* outgrow its length (coordinator.py), and no file is ever both deleted    *)
(* and in 'pending' (zenodo_discovery.py).                                  *)
THEOREM TypesAreKept == Spec => []TypeOK
<1> DEFINE Apis == LockInv /\ ShutdownInv /\ StatInv /\ EvictP!EvictInv /\ Portals!SocrataTypeOK
           Plugins == /\ ZenodoInv /\ ZenodoFiles /\ UazInv /\ UazBounds /\ TicketInv
                      /\ SketchInv
           Clients == /\ Data!UserTypeOK /\ ProfileInv /\ SessionInv /\ PageInv /\ UploadInv
                      /\ FileInv /\ FileRest
                      /\ searchState \in {"clean", "requesting", "success", "failed"}
<1>1. EvictP!EvictionAssumption
  BY EvictionAssumption DEF EvictP!EvictionAssumption, EvictP!IsFiniteSet, IsFiniteSet
<1>2. Init => Apis /\ Plugins /\ Clients
  <2> SUFFICES ASSUME Init PROVE Apis /\ Plugins /\ Clients
    OBVIOUS
  <2>1. Stats!Init /\ Evict!Init /\ Portals!Init /\ Query!Init
    BY DEF Init
  <2>2. Apis
    BY <1>1, <2>1, InitOfAll, InitLockInv, InitShutdownInv, InitStatInv, InitSocrataTypeOK, EvictSame,
       EvictP!InitEvictInv
  <2>3. Plugins
    BY <2>1, InitOfAll, InitZenodoInv, InitZenodoFiles, InitUazInv, InitUazBounds, InitTicketInv,
       InitSketchInv
  <2>4. searchState = "clean"
    BY DEF Init, Page!Init
  <2> QED BY <2>2, <2>3, <2>4, InitUser, InitPage, InitForm, InitFile, InitFileRest
<1>3. (Apis /\ Plugins /\ Clients) /\ [Next]_vars => (Apis /\ Plugins /\ Clients)'
  <2> SUFFICES ASSUME Apis, Plugins, Clients, [Next]_vars PROVE Apis' /\ Plugins' /\ Clients'
    OBVIOUS
  <2>1. EvictP!EvictInv'
    BY <1>1, StepOfOne, EvictSame, EvictP!NextEvictInv
  <2>2. Apis'
    BY <2>1, StepOfOne, NextLockInv, NextShutdownInv, NextStatInv, NextSocrataTypeOK
  <2>3. Plugins'
    BY StepOfOne, NextZenodoInv, NextZenodoFiles, NextUazInv, NextUazBounds, NextTicketInv, NextSketchInv
  <2>4. Data!UserTypeOK' /\ ProfileInv' /\ SessionInv'
    BY StepOfOne, UserTypesMove, ProfilesMove, SessionsMove
  <2>5. PageInv' /\ UploadInv'
    BY StepOfOne, PageMoves, FormMoves
  <2>6. (searchState \in {"clean", "requesting", "success", "failed"})'
    BY StepOfOne, SearchStateMoves
  <2>7. FileInv' /\ FileRest'
    BY StepOfOne, FileMoves, FileRestMoves
  <2> QED BY <2>2, <2>3, <2>4, <2>5, <2>6, <2>7
<1>4. Apis /\ Plugins /\ Clients => TypeOK
  <2> SUFFICES ASSUME Apis, Plugins, Clients PROVE TypeOK
    OBVIOUS
  <2>1. Lock!LockTypeOK /\ Shutdown!ShutdownTypeOK /\ Stats!StatTypeOK /\ Evict!EvictionTypeOK
    BY EvictSame DEF LockInv, ShutdownInv, StatInv, EvictP!EvictInv
  <2>2. Zen!ZenodoTypeOK /\ Uaz!UazTypeOK /\ Query!QueryTypeOK /\ Lazo!SketchTypeOK
    BY ZenodoTyped, UazTyped DEF TicketInv, SketchInv
  <2>3. Page!PageTypeOK /\ Related!RelatedTypeOK /\ Form!UploadTypeOK
    BY PageTyped, FileTyped DEF UploadInv, UploadTypes
  <2> QED BY <2>1, <2>2, <2>3 DEF TypeOK
<1> HIDE DEF Apis, Plugins, Clients
<1> QED BY <1>2, <1>3, <1>4, PTL DEF Spec
=============================================================================
