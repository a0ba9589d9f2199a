----------------------------- MODULE MCServices -----------------------------
(***************************************************************************)
(* An instance of each component, and what it must come to.  The fairness  *)
(* is that of the process, thread or event loop that runs each component;  *)
(* nothing fair is said of users and of faults.                            *)
(***************************************************************************)
EXTENDS Services

CONSTANTS c1, d1, d2, d3, e1, e2, e3, f1, f2, q1, q2, r1, r2, f0, b1, b2

MCCacheOf == e1 :> "datasets" @@ e2 :> "aug" @@ e3 :> "user_data"
MCSize == e1 :> 2 @@ e2 :> 2 @@ e3 :> 1
MCDomain == d1 :> "a" @@ d2 :> "a" @@ d3 :> "b"
MCDomains == <<"a", "b">>
MCFiles == r1 :> <<"a", "b", "c">> @@ r2 :> <<"d", "e">>
MCCsv == f1 :> f2 @@ f2 :> f2
MCFileOf == q1 :> f1 @@ q2 :> f0
MCFound ==
  q1 :> <<[id |-> d1, type |-> "join"], [id |-> d2, type |-> "join"]>> @@ q2 :> <<[id |-> d1, type |-> "none"]>>
MCColumnsOf == f1 :> {b1} @@ f2 :> {b2}

(* The fairness of each component: of its processes, threads and loops.     *)
LockFair == \A c \in Callers : WF_lockVars(focus = "lock" /\ Lock!Steps(c))
ShutdownFair == WF_shutdownVars(focus = "shutdown" /\ Shutdown!Steps)
StatsFair ==
  /\ WF_statVars(focus = "statistics" /\ Stats!CreateIndices) /\ WF_statVars(focus = "statistics" /\ Stats!Consume)
  /\ WF_statVars(focus = "statistics" /\ (Stats!Read \/ Stats!Replace \/ Stats!UpdateFails))
  /\ WF_statVars(focus = "statistics" /\ Stats!Fetch)
EvictFair ==
  /\ WF_evictionVars(focus = "eviction" /\ Evict!CheckCache)
  /\ \A w \in Threads : WF_evictionVars(focus = "eviction" /\ Evict!Steps(w))
  /\ \A e \in Entries : WF_evictionVars(focus = "eviction" /\ Evict!Release(e))
PortalsFair ==
  /\ WF_socrataVars(focus = "socrata" /\ Portals!Sweep)
  /\ \A d \in Mirrored, v \in 1..3 : WF_socrataVars(focus = "socrata" /\ Portals!Profile(d, v))
UazFair ==
  /\ WF_uazVars(focus = "uaz" /\ Uaz!Discover)
  /\ \A g \in Groups : WF_uazVars(focus = "uaz" /\ Uaz!Read(g))
  /\ \A g \in Groups, v \in 1..3 : WF_uazVars(focus = "uaz" /\ Uaz!Index(g, v))
QueryFair == \A p \in Replicas : WF_queryVars(focus = "queries" /\ Query!ReplicaSteps(p))


-----------------------------------------------------------------------------
(* What is begun is ended: calls of _lock(), shutdowns and queries.         *)
CallsEnd ==
  /\ focus = "lock" /\ LockFair => Lock!HangsExplained(c1) /\ Lock!LocksOfTheDeadEnd(c1)
  /\ focus = "shutdown" /\ ShutdownFair => Shutdown!ShutdownEnds
  /\ focus = "queries" /\ QueryFair => Query!QueriesEnd
(* Once nothing changes or fails any more, every copy is up to date: of the *)
(* list of discoveries, of a database that was split, and of the portals;   *)
(* and the caches are below their limit.                                    *)
CopiesCatchUp ==
  /\ focus = "statistics" /\ StatsFair => Stats!StatisticsCatchUp
  /\ focus = "uaz" /\ UazFair => Uaz!UazSettles
  /\ focus = "socrata" /\ PortalsFair => Portals!Mirrors
  /\ focus = "eviction" /\ EvictFair => Evict!LimitRestored
=============================================================================
