----------------------------- MODULE LockProcess -----------------------------
(***************************************************************************)
(* How one process gets a flock: _lock() of lib_core/datamart_core/        *)
(* fscache.py starts a subprocess, _lock_process(), that opens and locks   *)
(* the file, and talks to it over a pipe.  FSCache takes the whole for one *)
(* atomic grant and one atomic release; this module is what stands behind  *)
(* these two steps, with the ways in which either process can go away.     *)
(***************************************************************************)
EXTENDS Naturals

CONSTANTS
  Callers,     \* threads or processes that call _lock(), once each
  Timeouts,    \* what the timeout argument may be besides "none": "zero", "some"
  MaxFaults    \* bound on kills, failing system calls and expired join()s

VARIABLES
  call,      \* the arguments of each call
  parent,    \* where _lock() is
  child,     \* where _lock_process() is; its exit status once it ended
  answer,    \* the message in the pipe from the subprocess: it sends at most one
  unlock,    \* whether 'UNLOCK' was sent
  flock,     \* how each subprocess has the file locked
  exists,    \* whether the file exists
  raised,    \* what _lock() raises, or raised
  faults

lockVars == <<call, parent, child, answer, unlock, flock, exists, raised, faults>>

Arguments == [exclusive : BOOLEAN, timeout : Timeouts \cup {"none"}]
Ended == {"exit 0", "exit 1", "killed"}
Parents == {"idle", "recv", "block", "join", "returned", "killed"}
Children == {"none", "open", "flock", "granted", "wait"} \cup Ended
Answers == {"none", "LOCKED", "TIMEOUT", "NOTFOUND", "ERROR"}
Exceptions == {"none", "TimeoutError", "FileNotFoundError", "OSError", "body",
               "not yielded", "SystemExit"}

Init ==
  /\ call = [c \in Callers |-> [exclusive |-> FALSE, timeout |-> "none"]]
  /\ parent = [c \in Callers |-> "idle"]
  /\ child = [c \in Callers |-> "none"]
  /\ answer = [c \in Callers |-> "none"]
  /\ unlock = [c \in Callers |-> FALSE]
  /\ flock = [c \in Callers |-> "none"]
  /\ exists \in BOOLEAN
  /\ raised = [c \in Callers |-> "none"]
  /\ faults = 0

Fault == faults < MaxFaults /\ faults' = faults + 1
Set(f, c, value) == f' = [f EXCEPT ![c] = value]

-----------------------------------------------------------------------------
(* _lock(), in the process that wants the lock.                             *)

Start(c) ==
  /\ parent[c] = "idle"
  /\ \E args \in Arguments : Set(call, c, args)
  /\ Set(parent, c, "recv") /\ Set(child, c, "open")
  /\ UNCHANGED <<answer, unlock, flock, exists, raised, faults>>

(* proc.start() raises: the return in the finally block swallows that, and  *)
(* the generator ends without a yield.                                      *)
StartFails(c) ==
  /\ parent[c] = "idle" /\ Fault
  /\ Set(parent, c, "returned") /\ Set(raised, c, "not yielded")
  /\ UNCHANGED <<call, child, answer, unlock, flock, exists>>

Outcome(message) ==
  CASE message = "LOCKED" -> "none"
    [] message = "TIMEOUT" -> "TimeoutError"
    [] message = "NOTFOUND" -> "FileNotFoundError"
    [] message = "ERROR" -> "OSError"

(* Mutant: any answer enters the with-block.                                *)
RecvAny(c) ==
  /\ parent[c] = "recv" /\ answer[c] # "none"
  /\ Set(answer, c, "none") /\ Set(parent, c, "block")
  /\ UNCHANGED <<call, child, unlock, flock, exists, raised, faults>>

(* The parent keeps pipe2 open: an empty pipe never raises EOFError, even   *)
(* when the subprocess is gone, and send() never raises BrokenPipeError.    *)
Recv(c) ==
  /\ parent[c] = "recv" /\ answer[c] # "none"
  /\ Set(answer, c, "none")
  /\ Set(raised, c, Outcome(answer[c]))
  /\ IF answer[c] = "LOCKED"
     THEN Set(parent, c, "block") /\ UNCHANGED unlock
     ELSE Set(parent, c, "join") /\ Set(unlock, c, TRUE)
  /\ UNCHANGED <<call, child, flock, exists, faults>>

LeaveBlock(c) ==
  /\ parent[c] = "block"
  /\ \E e \in {"none", "body"} : Set(raised, c, e)
  /\ Set(parent, c, "join") /\ Set(unlock, c, TRUE)
  /\ UNCHANGED <<call, child, answer, flock, exists, faults>>

(* join(10), then join(180): the subprocess has exited, or has not.         *)
Join(c) ==
  /\ parent[c] = "join"
  /\ \/ child[c] = "exit 0" /\ UNCHANGED <<raised, faults>>
     \/ child[c] \in Ended \ {"exit 0"} /\ Set(raised, c, "SystemExit") /\ UNCHANGED faults
     \/ child[c] \notin Ended /\ Fault /\ Set(raised, c, "SystemExit")
  /\ Set(parent, c, "returned")
  /\ UNCHANGED <<call, child, answer, unlock, flock, exists>>

ParentKilled(c) ==
  /\ parent[c] \in {"recv", "block", "join"} /\ Fault
  /\ Set(parent, c, "killed")
  /\ UNCHANGED <<call, child, answer, unlock, flock, exists, raised>>

-----------------------------------------------------------------------------
(* _lock_process(), in the subprocess.                                      *)

Exit(c, status) == Set(child, c, status) /\ Set(flock, c, "none")
(* A message to a parent that is gone raises BrokenPipeError, and so does   *)
(* the 'ERROR' that is sent about that: status 1.                           *)
Answer(c, message, status) ==
  IF parent[c] = "killed" THEN Exit(c, "exit 1") /\ UNCHANGED answer
  ELSE Exit(c, status) /\ Set(answer, c, message)

Open(c) ==
  /\ child[c] = "open"
  /\ \/ /\ call[c].exclusive \/ exists
        /\ Set(child, c, "flock") /\ exists' = (exists \/ call[c].exclusive)
        /\ UNCHANGED <<answer, flock, faults>>
     \/ /\ ~call[c].exclusive /\ ~exists
        /\ Answer(c, "NOTFOUND", "exit 0") /\ UNCHANGED <<exists, faults>>
     \/ Fault /\ Answer(c, "ERROR", "exit 1") /\ UNCHANGED exists
  /\ UNCHANGED <<call, parent, unlock, raised>>

Free(c) ==
  \A d \in Callers \ {c} :
    IF call[c].exclusive THEN flock[d] = "none" ELSE flock[d] # "exclusive"

Flock(c) ==
  /\ child[c] = "flock" /\ Free(c)
  /\ Set(flock, c, IF call[c].exclusive THEN "exclusive" ELSE "shared")
  /\ Set(child, c, "granted")
  /\ UNCHANGED <<call, parent, answer, unlock, exists, raised, faults>>

(* LOCK_NB; or the alarm: while the subprocess waits, or when it has just   *)
(* been granted the lock, inside the try block or after it.                 *)
Expire(c) ==
  /\ \/ child[c] = "flock" /\ ~Free(c) /\ call[c].timeout \in {"zero", "some"}
        /\ Answer(c, "TIMEOUT", "exit 0")
     \/ child[c] = "granted" /\ call[c].timeout = "some"
        /\ (Answer(c, "TIMEOUT", "exit 0") \/ Answer(c, "ERROR", "exit 1"))
  /\ UNCHANGED <<call, parent, unlock, exists, raised, faults>>

Granted(c) ==
  /\ child[c] = "granted"
  /\ IF parent[c] = "killed" THEN Exit(c, "exit 1") /\ UNCHANGED answer
     ELSE /\ Set(child, c, "wait") /\ Set(answer, c, "LOCKED")
          /\ UNCHANGED flock
  /\ UNCHANGED <<call, parent, unlock, exists, raised, faults>>

(* Mutant: the subprocess holds its own copy of its parent's end, so that   *)
(* its recv() never raises EOFError.                                        *)
UnlockIfTold(c) ==
  /\ child[c] = "wait" /\ unlock[c] /\ Exit(c, "exit 0")
  /\ UNCHANGED <<call, parent, answer, unlock, exists, raised, faults>>

(* recv() returns 'UNLOCK', or raises EOFError when the parent is gone.     *)
Unlock(c) ==
  /\ child[c] = "wait"
  /\ \/ unlock[c] /\ Exit(c, "exit 0")
     \/ ~unlock[c] /\ parent[c] = "killed" /\ Exit(c, "exit 1")
  /\ UNCHANGED <<call, parent, answer, unlock, exists, raised, faults>>

ChildKilled(c) ==
  /\ child[c] \notin Ended \cup {"none"} /\ Fault
  /\ Exit(c, "killed")
  /\ UNCHANGED <<call, parent, answer, unlock, exists, raised>>

-----------------------------------------------------------------------------
Steps(c) ==
  \/ Recv(c) \/ LeaveBlock(c) \/ Join(c)
  \/ Open(c) \/ Flock(c) \/ Expire(c) \/ Granted(c) \/ Unlock(c)
Next == \E c \in Callers :
  Steps(c) \/ Start(c) \/ StartFails(c) \/ ParentKilled(c) \/ ChildKilled(c)

Spec == Init /\ [][Next]_lockVars

-----------------------------------------------------------------------------
LockTypeOK ==
  /\ call \in [Callers -> Arguments]
  /\ parent \in [Callers -> Parents]
  /\ child \in [Callers -> Children]
  /\ answer \in [Callers -> Answers]
  /\ unlock \in [Callers -> BOOLEAN]
  /\ flock \in [Callers -> {"none", "shared", "exclusive"}]
  /\ exists \in BOOLEAN
  /\ raised \in [Callers -> Exceptions]
  /\ faults \in Nat

(* What FSCache takes for granted: a process is in a with-block only while  *)
(* its subprocess has the lock, unless that was killed; what comes out of   *)
(* _lock() without a SystemExit leaves no lock behind; and callers whose    *)
(* subprocesses live are in with-blocks together only for shared locks.     *)
BlockIsLocked(c) ==
  /\ parent[c] = "block" /\ child[c] # "killed"
       => flock[c] = IF call[c].exclusive THEN "exclusive" ELSE "shared"
  /\ parent[c] = "returned" /\ raised[c] # "SystemExit" => flock[c] = "none"
BlocksExclude(c, d) ==
  /\ c # d /\ parent[c] = "block" /\ parent[d] = "block"
  /\ child[c] # "killed" /\ child[d] # "killed"
  => ~call[c].exclusive /\ ~call[d].exclusive
LocksHold == \A c, d \in Callers : BlockIsLocked(c) /\ BlocksExclude(c, d)

(* A call ends, unless its subprocess was killed before it answered: then   *)
(* recv() waits on a pipe whose other end the caller itself keeps open.     *)
HangsExplained(c) ==
  parent[c] = "recv" ~> (parent[c] # "recv" \/ (child[c] = "killed" /\ answer[c] = "none"))
(* A process that dies does not leave its lock behind.                      *)
LocksOfTheDeadEnd(c) == parent[c] = "killed" ~> flock[c] = "none"
=============================================================================
