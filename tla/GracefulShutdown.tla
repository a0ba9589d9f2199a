--------------------------- MODULE GracefulShutdown ---------------------------
(***************************************************************************)
(* How an apiserver stops: GracefulApplication and GracefulHandler of      *)
(* apiserver/apiserver/graceful_shutdown.py.  Everything runs on one event *)
(* loop, in callbacks; the condition variable is only ever held from one   *)
(* await to the next, so that each `async with` body is one step.          *)
(***************************************************************************)
EXTENDS Naturals, Integers, FiniteSets

CONSTANTS Requests, Graceful   \* Graceful: those whose handler is a GracefulHandler

VARIABLES
  state,       \* of each request
  nbRequests,  \* nb_requests
  closing,     \* "no", "signalled", "waiting", "notified", "stop", "stopped"
  late,        \* requests that began after do_exit() had called stop()
  rejected     \* requests that were finished without a prepare()

shutdownVars == <<state, nbRequests, closing, late, rejected>>

Init ==
  /\ state = [r \in Requests |-> "new"]
  /\ nbRequests = 0 /\ closing = "no" /\ late = {} /\ rejected = {}

Running == {r \in Requests : state[r] = "running"}
Decreasing == {r \in Requests : state[r] = "decrease"}

(* prepare().  Nothing looks at is_closing: requests are accepted until the *)
(* loop stops, which it does at the end of its current iteration.           *)
Prepare(r) ==
  /\ state[r] = "new" /\ closing # "stopped"
  /\ state' = [state EXCEPT ![r] = "running"]
  /\ nbRequests' = nbRequests + (IF r \in Graceful THEN 1 ELSE 0)
  /\ late' = IF closing = "stop" THEN late \cup {r} ELSE late
  /\ UNCHANGED <<closing, rejected>>

(* on_finish() schedules do_decrease().                                     *)
OnFinish(r) ==
  /\ state[r] = "running" /\ closing # "stopped"
  /\ state' = [state EXCEPT ![r] = IF r \in Graceful THEN "decrease" ELSE "done"]
  /\ UNCHANGED <<nbRequests, closing, late, rejected>>

(* Tornado answers a request whose method or path it refuses before it      *)
(* calls prepare(), and then calls on_finish() all the same.                *)
Reject(r) ==
  /\ state[r] = "new" /\ r \in Graceful /\ closing # "stopped"
  /\ state' = [state EXCEPT ![r] = "decrease"]
  /\ rejected' = rejected \cup {r}
  /\ UNCHANGED <<nbRequests, closing, late>>

(* Mutant: the counter is decreased in on_finish(), and not notified.       *)
DecreaseQuietly(r) ==
  /\ state[r] = "decrease" /\ closing # "stopped"
  /\ state' = [state EXCEPT ![r] = "done"] /\ nbRequests' = nbRequests - 1
  /\ UNCHANGED <<closing, late, rejected>>

(* do_decrease(): the waiting do_exit() is notified.                        *)
Decrease(r) ==
  /\ state[r] = "decrease" /\ closing # "stopped"
  /\ state' = [state EXCEPT ![r] = "done"]
  /\ nbRequests' = nbRequests - 1
  /\ closing' = IF closing = "waiting" THEN "notified" ELSE closing
  /\ UNCHANGED <<late, rejected>>

Sigterm ==
  /\ closing = "no" /\ closing' = "signalled"
  /\ UNCHANGED <<state, nbRequests, late, rejected>>

(* Mutant: do_exit() does not look at the counter again once it is notified.*)
DoExitOnce ==
  /\ closing \in {"signalled", "notified"}
  /\ closing' = IF nbRequests > 0 /\ closing = "signalled" THEN "waiting" ELSE "stop"
  /\ UNCHANGED <<state, nbRequests, late, rejected>>

(* do_exit(): the while loop, up to wait() or stop().                       *)
DoExit ==
  /\ closing \in {"signalled", "notified"}
  /\ closing' = IF nbRequests > 0 THEN "waiting" ELSE "stop"
  /\ UNCHANGED <<state, nbRequests, late, rejected>>

(* The rest of the loop's iteration ends, and main() returns.               *)
Stopped ==
  /\ closing = "stop" /\ closing' = "stopped"
  /\ UNCHANGED <<state, nbRequests, late, rejected>>

Steps ==
  \/ \E r \in Requests : OnFinish(r) \/ Decrease(r)
  \/ DoExit \/ Stopped
Next == Steps \/ Sigterm \/ \E r \in Requests : Prepare(r) \/ Reject(r)

Spec == Init /\ [][Next]_shutdownVars

-----------------------------------------------------------------------------
ShutdownTypeOK ==
  /\ state \in [Requests -> {"new", "running", "decrease", "done"}]
  /\ nbRequests \in Int
  /\ closing \in {"no", "signalled", "waiting", "notified", "stop", "stopped"}
  /\ late \subseteq Requests /\ rejected \subseteq Requests

(* "Application that exits on SIGTERM once no GracefulHandlers are          *)
(* running": when the loop is told to stop, the handlers that still run     *)
(* began after that, or else a request was refused before it was counted.   *)
StopsIdle ==
  closing \in {"stop", "stopped"} /\ rejected = {} => Running \cap Graceful \subseteq late

(* After a SIGTERM the application stops, once its requests end.            *)
ShutdownEnds == closing = "signalled" ~> closing = "stopped"
=============================================================================
