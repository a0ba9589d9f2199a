--------------------------- MODULE DiscoveryQueries ---------------------------
(***************************************************************************)
(* On-demand discovery (lib_core/datamart_core/discovery.py): the replicas *)
(* of a plugin take queries from one queue, tell the requester when they   *)
(* begin and when they are done, and acknowledge.  The broker delivers one *)
(* unacknowledged query at a time to each, and deletes the queue, which is *)
(* declared auto_delete, with its last consumer.                           *)
(***************************************************************************)
EXTENDS Naturals, FiniteSets

CONSTANTS
  Queries,
  Replicas,     \* processes that run the plugin
  Concurrent,   \* work tickets of a replica: 4 in the code
  MaxFaults     \* bound on crashes and on messages that cannot be sent

VARIABLES
  queued,     \* queries in the queue
  delivered,  \* unacknowledged queries of each replica
  progress,   \* of each query: "new", "waiting", "handling", "failed", "succeeded", "unsent", "over"
  tickets,    \* work_tickets
  up,         \* replicas that consume the queue
  told,       \* what the requester was told, of each query
  lostQueries,\* queries that went away with the queue
  queryFaults

queryVars == <<queued, delivered, progress, tickets, up, told, lostQueries, queryFaults>>

Init ==
  /\ queued = {} /\ delivered = [p \in Replicas |-> {}]
  /\ progress = [q \in Queries |-> "new"]
  /\ tickets = [p \in Replicas |-> Concurrent] /\ up = Replicas
  /\ told = [q \in Queries |-> {}] /\ lostQueries = {} /\ queryFaults = 0

QueryFault == queryFaults < MaxFaults /\ queryFaults' = queryFaults + 1
Becomes(q, step) == progress' = [progress EXCEPT ![q] = step]
Tell(q, what) == told' = [told EXCEPT ![q] = @ \cup {what}]
Ack(p, q) == delivered' = [delivered EXCEPT ![p] = @ \ {q}]

-----------------------------------------------------------------------------
(* A requester publishes to the fan-out exchange: without a queue the query *)
(* goes nowhere.                                                            *)
Ask(q) ==
  /\ progress[q] = "new"
  /\ IF up = {}
     THEN Becomes(q, "over") /\ lostQueries' = lostQueries \cup {q} /\ UNCHANGED queued
     ELSE Becomes(q, "waiting") /\ queued' = queued \cup {q} /\ UNCHANGED lostQueries
  /\ UNCHANGED <<delivered, tickets, up, told, queryFaults>>

(* prefetch_count=1.                                                        *)
Deliver(p, q) ==
  /\ p \in up /\ q \in queued /\ delivered[p] = {}
  /\ queued' = queued \ {q} /\ delivered' = [delivered EXCEPT ![p] = {q}]
  /\ UNCHANGED <<progress, tickets, up, told, lostQueries, queryFaults>>

(* A replica goes away with its tasks.  What it has not acknowledged goes   *)
(* back to the queue, if that is still there.                               *)
Gone(p) ==
  /\ up' = up \ {p} /\ delivered' = [delivered EXCEPT ![p] = {}]
  /\ tickets' = [tickets EXCEPT ![p] = Concurrent]
  /\ LET rest == queued \cup delivered[p]
     IN IF up' = {}
        THEN /\ queued' = {} /\ lostQueries' = lostQueries \cup rest
             /\ progress' = [q \in Queries |-> IF q \in rest THEN "over" ELSE progress[q]]
        ELSE /\ queued' = rest /\ UNCHANGED lostQueries
             /\ progress' = [q \in Queries |-> IF q \in rest THEN "waiting" ELSE progress[q]]

(* _consume_queries(): when 'work_started' cannot be sent, the task dies,   *)
(* and log_future() makes the process exit.                                 *)
StartQuery(p, q) ==
  /\ p \in up /\ q \in delivered[p] /\ progress[q] = "waiting" /\ tickets[p] > 0
  /\ \/ /\ tickets' = [tickets EXCEPT ![p] = @ - 1]
        /\ Tell(q, "work_started") /\ Becomes(q, "handling")
        /\ UNCHANGED <<queued, delivered, up, lostQueries, queryFaults>>
     \/ Gone(p) /\ QueryFault /\ UNCHANGED told

(* handle_query().  One that publishes a dataset always raises: it is given *)
(* a publisher made of the channel, which has no _record_dataset().         *)
Handle(p, q) ==
  /\ q \in delivered[p] /\ progress[q] = "handling"
  /\ \E publishes, raises \in BOOLEAN :
       Becomes(q, IF publishes \/ raises THEN "failed" ELSE "succeeded")
  /\ tickets' = [tickets EXCEPT ![p] = @ + 1]
  /\ UNCHANGED <<queued, delivered, up, told, lostQueries, queryFaults>>

(* Mutant: a query that failed is not acknowledged.                         *)
AnswerSuccess(p, q) ==
  /\ q \in delivered[p] /\ progress[q] = "succeeded"
  /\ Tell(q, "work_done") /\ Ack(p, q) /\ Becomes(q, "over")
  /\ UNCHANGED <<queued, tickets, up, lostQueries, queryFaults>>

(* _handle_query_callback(): "Ack anyway"; but when 'work_done' cannot be   *)
(* sent, the query is never acknowledged, and the replica gets no other.    *)
AnswerQuery(p, q) ==
  /\ q \in delivered[p] /\ progress[q] \in {"failed", "succeeded"}
  /\ \/ progress[q] = "failed" /\ Ack(p, q) /\ Becomes(q, "over") /\ UNCHANGED <<told, queryFaults>>
     \/ progress[q] = "succeeded" /\ Tell(q, "work_done") /\ Ack(p, q) /\ Becomes(q, "over")
        /\ UNCHANGED queryFaults
     \/ progress[q] = "succeeded" /\ QueryFault /\ Becomes(q, "unsent") /\ UNCHANGED <<told, delivered>>
  /\ UNCHANGED <<queued, tickets, up, lostQueries>>

Crash(p) == p \in up /\ QueryFault /\ Gone(p) /\ UNCHANGED told
Restart(p) ==
  /\ p \notin up /\ up' = up \cup {p}
  /\ UNCHANGED <<queued, delivered, progress, tickets, told, lostQueries, queryFaults>>

ReplicaSteps(p) ==
  \E q \in Queries : Deliver(p, q) \/ StartQuery(p, q) \/ Handle(p, q) \/ AnswerQuery(p, q)
Next ==
  \/ \E q \in Queries : Ask(q)
  \/ \E p \in Replicas : ReplicaSteps(p) \/ Crash(p) \/ Restart(p)

Spec == Init /\ [][Next]_queryVars

-----------------------------------------------------------------------------
QueryTypeOK ==
  /\ queued \subseteq Queries /\ delivered \in [Replicas -> SUBSET Queries]
  /\ progress \in [Queries -> {"new", "waiting", "handling", "failed", "succeeded", "unsent", "over"}]
  /\ tickets \in [Replicas -> 0..Concurrent] /\ up \subseteq Replicas
  /\ told \in [Queries -> SUBSET {"work_started", "work_done"}]
  /\ lostQueries \subseteq Queries /\ queryFaults \in 0..MaxFaults

Stuck(p) == \E q \in delivered[p] : progress[q] = "unsent"
(* Each query that was asked is over in the end, whatever its handling did, *)
(* or else every replica that is up waits to be rid of a query whose answer *)
(* it could not send.  Only the loss of the queue leaves a requester        *)
(* without a word.                                                          *)
QueriesEnd ==
  \A q \in Queries :
    progress[q] = "waiting" ~>
      \/ progress[q] = "over" /\ (told[q] = {} => q \in lostQueries)
      \/ progress[q] = "unsent" \/ (up # {} /\ \A p \in up : Stuck(p))
=============================================================================
